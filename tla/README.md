# aidev: TLA+ specifications

aidev runs coding tasks in isolated git worktrees: a *run* claims a task, makes a
worktree, lets an external agent work in it, runs the task's own checks, and
publishes the work on a branch when they pass. Several processes act on one task
at a time (CLI calls, detached runs, MCP servers), and they coordinate through
PostgreSQL rows, directories on disk and git refs, not through a coordinator.
What can go wrong therefore sits between the steps, and that is what is specified
here.

## The system

| Part | State | Operations | Interacts with |
|---|---|---|---|
| task state machine (`internal/task/status.go`, `store/task.go`) | `tasks.status` | `TransitionTask` (compare-and-set), `DeleteTask` | every writer of a task |
| run (`worker/run.go`, `retry.go`, `record.go`) | the run's local state, attempts, worktree rows, directories, branches | claim, prepare, agent, containment, verify, succeed, fail, retry, clean up | rows, git, agent, the watcher |
| cancel and recover (`worker/cancel.go`, `cancelwatch.go`, `lease.go`) | leases, run registry | `Cancel`, `Recover`, the poll that renews the lease and reads the status | runs, through rows; same-process runs, through their context |
| approval gate (`worker/run.go`, `worker.go`, `store/approval.go`) | approval rows, project policy | `enforceApproval`, `Approve`, `SetProjectRequiresApproval` | runs, people |
| apply and undo (`worker/apply.go`, `git/apply.go`) | task events, the person's checkout | `Apply`, `Undo` | other tasks' applies and the person, through the checkout |
| worktree remove, task delete (`cli/worktree.go`, `cli/prune.go`, `store/retention.go`) | worktree rows, directories | remove, delete, prune | runs |
| event log (`store/event.go`) | sequence numbers | append, page by cursor | every writer, planners and people who follow a task |
| subprocesses (`procexec`) | process group, sessions, output buffers | run, time out, cancel, kill, reap | agent, checks, git |
| MCP server (`mcp`, `cli/lazyapp.go`) | shared connection, map of background runs | connect, start or join a run, await, shut down; paged logs | planner, runs in other processes |
| verification (`verification`) | steps and their results | setup, checks, protected paths, interception | run |
| delivery (`git/verifytree.go`, `commitAgentTree`, `commitPartialWork`) | trees, commits, refs | snapshot, commit onto base, restore, continue | run, the person |
| containment (`git/snapshot.go`) | shared repository state | snapshot, compare | run, other tasks |
| agent backends (`agent`) | event stream, verdict | prepare, run, parse, classify | run, subprocesses |
| task creation (`worker/create.go`, `store/project.go`) | project row, task row | register, check the base, store | the person, operator, runs |
| migrations (`store/migrate.go`) | `schema_migrations`, an advisory lock | migrate, refuse an old schema | every command |
| configuration, CLI rendering, doctor, setup, views, coverage, tracing | - | sequential parsing, probing and rendering | - |

The hard behaviours are the interleavings of runs with Cancel, Recover and the
operator; processes that die or stall between two steps; git effects that stay
when the transaction around them is lost; values read in one step and used in a
later one. Each is listed, at its line, under `hazards` in `PROJECT.json`.

## The modules

| Module | Models |
|---|---|
| `StatusTable` | the statuses and the transition table; constant operators |
| `TaskStatus` | abstract specification of one task row |
| `TaskLifecycle` | one task with its runs, watchers, Cancel, Recover, `worktree remove`, `task delete` |
| `ApprovalGate` | one task between RunTask and the claim, with deciders and a changing policy |
| `ApplyUndo` | apply and undo of the tasks of one repository in the person's checkout |
| `EventLog` | transactions that append events, the locks they take, and readers that follow by cursor |
| `Delivery` | what the attempts of one task do to git: worktree, snapshot, guards, verification pass, delivered commit, retry |
| `AgentRun` | one call of an agent backend: preparation, event stream, verdict |
| `ProcExec` | one call of `procexec.Run`: processes, signals, deadline, output |
| `SharedConnection` | abstract specification of the connection that tool calls share |
| `McpServer` | the server's connection, background runs, watchers and shutdown; implements `SharedConnection` |
| `Migrations` | processes of different builds that migrate one database |
| `TaskCreation` | registration and creation on a migrated database, with the person, the operator and the runs (extends `Migrations`) |
| `TestSelection`, `ProtectedPaths`, `LogPages` | pure algorithms, with the reference definitions they are compared with |
| `TaskLifecycleProofs`, `ApprovalGateProofs`, `EventLogProofs`, `DeliveryProofs`, `McpServerProofs`, `ApplyUndoProofs` | theorems about the module they are named after |
| `BackendProofs` | theorems about the run of a backend: `ProcExec` and `AgentRun` |
| `TaskCreationProofs` | theorems about `TaskCreation`, `Migrations` and the algorithms |
| `MC*` | instances for TLC: model values, symmetry sets, input sets |

`TaskLifecycle` and `ApprovalGate` implement `TaskStatus` (the property
`RowSpec`, by `INSTANCE`: the variable `status` is the same). The two meet at
`becomeReady` and `startAttempt`, which both contain; the gate itself is left out
of `TaskLifecycle` (its task needs no approval) and the inside of an attempt is
left out of `ApprovalGate`. `McpServer` implements `SharedConnection`
(`ConnectionSpec`: `INSTANCE SharedConnection WITH link <- ..., ask <- ...`, where
the link is read off the attempt, the kept orchestrator and the server's state,
and what a call has been told off its local state).

The modules cut the program where its own interfaces are. `TaskLifecycle` knows an
attempt's checks as passed or failed and a branch as base, partial or delivered;
`Delivery` opens that up, for a run that owns its attempt throughout. `Delivery`
takes the agent as something that writes files and ends somehow; `AgentRun` says
how an ending becomes a verdict. Both leave the process itself to `ProcExec`.
`McpServer` treats a run as a driver that owns the row or lost it, which is what
`TaskLifecycle` shows of the fence.

### TaskLifecycle

`status` is `tasks.status` (or `GONE`), `attempts` the rows of `task_attempts`
joined with `worktrees`, in order; `dirs` the directories on disk, named by the
attempt they were made for; `branch` maps an attempt to what its branch holds:
`base`, `partial` (an unverified commit of a failed attempt) or `delivered` (the
tree whose checks passed). `run` is the local state of each `run` struct, with a
program counter; `ctx` says whether its context is cancelled; `call` holds the
local state of the Cancel, Recover and remove calls. `passed` is a history
variable.

A database transaction is one step. Steps the code takes between two
transactions (creating the worktree, the agent, the checks, removing the
directory) are steps of their own, so that anything may happen before and after
them. `succeed` and `scheduleRetry` do git work inside their transaction: one
step, with alternatives in which the branch has moved and the transaction is
lost, or the failure is recorded. The lease fence (`HoldLease`) is the operator
`Fence`, the conditional update the operator `CompareAndSet`; both are conjuncts
of the steps that use them in the code. A retry claims the task without going
through `RunTask` again, as `execute`'s loop does. Time is reduced to what is
observable: a lease is live or expired. `Crash` stops a run between two steps.

The agent's work, the content of the checks, the audit rows of an attempt and
all events are abstracted. An event that cannot be written inside a transaction
is a transaction that fails (`CanFault`, `DatabaseError`).

### ApprovalGate

`approvals` is the sequence of request statuses in the order of `requested_at`.
A run reads the policy, then the latest request, and then opens the gate's
transaction: three steps. A run that read `WAITING_APPROVAL` does not compare
the status again, as in the code. A unique violation aborts the transaction
(PostgreSQL), so the read after it fails as well; `InTx` takes no savepoint. A
decision is a read and a transaction. An attempt only ends, with a retry when
attempts are left.

### ApplyUndo

`log` holds, per branch, the commits apply and undo made there; a commit is
named by branch and position. `Contains` and `Effective` say what git merge and
git revert go by: a merge whose commits are already in the history does nothing,
even when they were reverted. A call is locked row, history and checkout read
(one step), HEAD read, git command, HEAD read, event: five steps, with the task's
row lock held over all of them. `Switch` is the person; `Break` is a call that
dies or cannot write its record after git acted. The page of `ListEvents` is
`EventLimit`, of which `PriorEvents` are taken by the task's earlier events.

### EventLog

The transactions of the program, told apart by the locks they take before they
append: `fenced` (`HoldLease`: task row, then attempt row, FOR UPDATE), `apply`
(`LockTask`), `cancel` (two UPDATEs in the same order), `transition`, `renew`
(the watcher's UPDATE of the attempt) and `bare`, an event with no lock on the
task row before it. A statement is a step; it waits while `Blockers` is not
empty. `AppendEvent` takes the advisory lock of the task and a number of the
global sequence, and ends with the FOR KEY SHARE that a foreign key takes on the
rows an event refers to (`CheckReferences`). `Commit` publishes the numbers,
`Rollback` loses them. A reader is a planner or a person who calls
`aidev_get_task_events` or `aidev task events` again and again, with limits from
`Requests`; `PassesLastSeq` says which of the two documented cursors it passes.
`TaskLifecycle` treats a transaction as one step, which the row locks justify;
this module is about what happens inside.

### Delivery

`disk` is the content of the worktree, `commits` the object database with the
tree and the kind of each commit and the commits it is built on (`past`, fixed
when it is made), `refs` the branches; `agentTree` the snapshot taken when the
agent is done. A tree gives each path one of three contents: none, the base's,
written since. The agent writes files, commits, switches to a new branch, and may
change what the worktrees share; steps write files too; a person may commit any
tree to an attempt's branch while its checks run (`BranchMoves`). The steps of `execute` are
actions in the order of the code: base check, agent, snapshot, containment,
protected paths and interception, the pass (setup steps and checks, each with
its timeout, under the budget of the pass), drift, `commitAgentTree` with its
compare-and-set of the branch, clean-up or `commitPartialWork` and
`ContinueOnNewBranch`. `seen` is a record of history variables.

Two things that the code does as best it can are not claimed. What in-place checks
changed is reported only if git answers (`run.go:1162-1178` logs the error and goes
on to deliver), so `Report` may report drift or not. The temporary checkouts of the
base check and of the clean mode are removed by a defer, after the ending is
recorded, and a failure is only logged (`run.go:911-922`, `1060`, `1234-1245`); they
are not part of the state, and nothing is said of what is left of them. A commit
that somebody puts on a branch before the snapshot, the code cannot tell from the
agent's; it is left out.

`commitAgentTree` compares the branch with the snapshot only when it has something
to write. When the agent committed all of its work itself, or a retry ends on the
base, a commit that somebody put on the branch meanwhile is therefore delivered
with the task; `DeliveredIsWhatWasJudged` says so, and `MovedIsNotDelivered` is
the stronger claim of the function's comment. In the same way a retry whose
attempt has nothing to commit is restored to that other commit, so what a person
changed there counts as the agent's in the next attempt; `BlameIsTheAgents` names
this case (`Intruded`).

### AgentRun

A line of the stream is known by its number; the bytes of line k are `<<k, i>>`,
so that a reader's mistake (a byte too many, a rest taken for a line) shows. The
pipe loses and reorders nothing, so it is the place `at` up to which the written
lines have been read. One turn of the loop in `Write` is one step (`Tee`): it takes
the bytes up to a newline or to the end of the chunk, and nobody reads the scanner
between two turns. The last line of a process that ends or is killed may lack its
newline only, in which case `Close` reads it, or stop in the middle. An error on a
line of more than `MaxEventLine` bytes is dropped with the line
(`opencode_events.go:224-233`) and the run may succeed; `SuccessIsEarned` speaks of
the lines that could be held. `Write` and `Close` of both scanners, `classify` and `classifyCodex` follow the
code branch by branch; the preparation (validation, version probe, database,
server listing, sandbox) is a sequence of steps that may each fail, and the
caller may cancel between any two.

### ProcExec

A process is in the command's group or in a session of its own, carries the tag of
the run or had its environment cleared, holds the output pipe or not, and dies of
SIGTERM or is deaf to it. `Run` waits, `watch` is exec's goroutine that waits for
the context; the group's leftovers, the scans of `/proc` for the run's tag, the
grace period and `WaitDelay` are steps. Output is a stream of numbered bytes
written in chunks; `boundedBuffer` keeps a head and a tail. `follow` distinguishes
the platforms with and without the scan.

A scan (`taggedProcesses`) is not atomic: it lists `/proc` in one step (`List`) and
reads each environ in a step of its own (`ReadEnviron`), while processes start and
exit. A helper that forks after the listing and exits before it is read leaves a
live child that the scan does not know of, and Run may return with it. So
`NothingSurvives` does not claim that no helper survives: none of the group does,
and of the tagged ones only those started after the last listing (`late`). A
helper without the tag, outside the group, is out of Run's sight altogether. A read
fails for a process that is gone or that aidev's user may not read (then it counts
as untagged); a read that fails for a moment only, for want of a file descriptor or
in the middle of an exec, is left out.

### McpServer

Calls share `conn` (the kept orchestrator and the current attempt) over `app`
(the lazyApp). A run is an entry, a detached child (`driver`) and a watcher that
classifies how the child ended by what it reads of the row. Driver 0 is a run
started by a person. Shutdown tells the watchers, waits for them, and closes the
application, whose connection may still be on its way.

### Migrations and TaskCreation

A migration is a position among the files of a build and a checksum. `Migrate`
is the advisory lock, the read, and one transaction per migration, whose answer
may be lost; the process may end between any two steps, which drops its lock.
`CreateTask` is one step per read, git command or transaction: schema check,
validation, lookup or registration, the base resolved once, the checks on that
commit, the stored row. `EnsureProject` is one SQL statement in two steps,
because its SELECT uses the snapshot the statement began with while its INSERT
meets rows committed later. Creation begins when the migrations are over: they
meet only in `requireCurrentSchema`, and what that read stays true.

### The algorithms

`TestSelection` decides which changed paths a step would run (`Interceptions`)
and which steps name a runner the base does not hold (`refuseMissingRunners`).
Its input is a *purpose*, a tool with targets and options; the command line the
code sees is derived from it, and so, separately, is what the tool runs.
`ProtectedPaths` compares `Violations` with what a pattern claims, and `LogPages`
follows the pages of a log to the end. Strings are sequences of names with the
affixes the code looks for, options are tokens. A text is its bytes, of each of
which is known whether a character starts there; a character has one to four.
`Match` is doublestar's answer as the set of places of a path from which the rest
of a pattern matches the rest of the path.

A changed file reaches the guard as git reports it (`EntryOf`): by its name, or as
a directory above it that git ignores as a whole. `GuardMissesNothing` claims a
module or a script in either case, and a test only when git lists it: the entry of
a directory is no test source. Options have values, among them paths; one that
looks like a test which the base lacks makes the step refused at creation, and
`CreationRefusesTheUnjudgeable` names that case (`ValuePaths`, `Inert`).

A pattern is what is between its slashes, with `Empty` before a leading and after a
trailing one and `Here` for `.`; it is normalized when the task is created and once
more by the guard. `ProtectedMissesNothing` speaks of the accepted patterns that are
then written as git lists paths (`Listed`); those with a redundant slash or dot
match nothing. Of an entry that is a directory it claims what the pattern protects
whole, or spells out and goes on beneath with a wildcard. The entries that the guard
is given today are files (`Committable`); directory entries are what the contract of
`Violations` allows. Blanks around a pattern, which are dropped, and patterns with a
syntax error, which are refused, are left out; `?` and classes are wildcards of one
segment, like `*`.

## The runs

| Run | Instance | Shows |
|---|---|---|
| `race` | 2 runs, 1 Cancel, repeated Recover, 1 retry, 1 crash, 1 failed transaction, interrupts, deletion | rows, branches and directories agree under every interleaving; the row follows `TaskStatus` |
| `operator` | 1 run, Cancel in the same process, repeated Recover, `worktree remove`, deletion, base check, stalled watchers | what the operator removes is gone, and only the operator deletes recorded work, even when leases expire under a live run |
| `liveness` | 2 runs, 1 Cancel, repeated Recover, 1 retry, 1 crash, `cleanup_on_success` off, fairness | the runs of a cancelled task end; no task stays RUNNING or VERIFYING unless its agent is working |
| `approval` | 3 runs, 2 deciders, 1 retry, cancel, policy switched up to twice | a waiting task can be decided; grants and denials bind every run |
| `apply` | 7 calls of 2 callers, 2 branches, 1 call that dies | history, commits and branches agree |
| `events` | 3 transactions at a time on 2 tasks, up to 3 events, 1 reader, limits 0, 1 and 9 | the cursor misses nothing and repeats nothing; lockers never deadlock |
| `delivery` | 2 attempts, both modes, with and without base check, 1 setup step and 1 check, 2 tracked paths, an ignored runner, an agent that writes and meddles, a person, a cancellation | what is delivered is what was judged, on the base and nothing else; no commit is lost; blame falls on who did it |
| `agent` | both backends, up to 3 lines of up to 4 bytes, a scanner that holds 2, every cut into chunks, every failing step | the stream is read whole; a success is earned |
| `procexec` | a command, 2 helpers, limit 3, 4 bytes, fairness | nothing of the group survives Run, and of the tagged helpers only what was started after the last listing of `/proc`; the verdict is the command's own, the capture is head and tail, Run returns |
| `mcp` | 2 calls of any tool, 2 connection attempts, 2 runs, 1 gate, another driver, fairness | one driver, true endings, the pool closed, `SharedConnection`, nobody hangs |
| `creation` | 3 migrators of 3 builds, 2 creators, 2 moves of the person, 1 change of the mode | migrations apply once and in order; a stored task is as it was checked; settings stand |
| `algorithms` | 920,000 inputs | guards report what a step runs of the files git lists, and what a task's patterns protect; creation refuses what could not be judged; pages fit together |

### More configurations

These are kept for exploring. Each checks one property that states what the
repository says of itself, and TLC finds a counterexample: the code does
something else in the case described. A `*Claims.cfg` names several properties,
all but the first commented out: TLC stops at the first violation, so they are
checked one at a time.

| Configuration | Module, property | Counterexample |
|---|---|---|
| `LifecycleClaims.cfg` | `MCTaskLifecycle`, `RecoverSparesLiveRuns` | Recover lists an expired lease; the run renews it; Recover cancels it all the same, comparing only the status (`worker/cancel.go:306`: "left alone") |
| `LifecycleClaims.cfg` | `MCTaskLifecycle`, `EndedDirectoriesNamed` | Cancel between two attempts: only a REUSED row names the directory (`cancel.go:107`, `retention.go:135`) |
| `LifecycleClaims.cfg` | `MCTaskLifecycle`, `DeletedLeavesNoDirectory` | cancelled and deleted while the checkout is made: HoldLease answers ErrNotFound, and the clean-up looks for ErrLeaseLost (`run.go:534`) |
| `LifecycleClaims.cfg` | `MCTaskLifecycle`, `RemoveSparesOpenAttempt` | the task is claimed between the check and the removal (`cli/worktree.go:201`) |
| `ApprovalClaims.cfg` | `MCApprovalGate`, `GrantedIsRunnable` | a run that read WAITING_APPROVAL opens a new request after the grant (`worker.go:155`) |
| `ApprovalClaims.cfg` | `MCApprovalGate`, `PendingRunsAreGated` | the unique violation aborts the transaction that was to handle it (`run.go:364`) |
| `ApplyTwoTasks.cfg` | `MCApplyUndo`, `RecordNamesOwnCommit` | HEAD is another task's merge when it is read; with `SwitchesMidway = TRUE`, the person has switched branch (`worker/apply.go:26`, `:191`) |
| `ApplyElsewhere.cfg` | `MCApplyUndo`, `NothingToApply` | the last undo was on another branch, and the merge of a reverted branch does nothing (`worker/apply.go:136`) |
| `ApplyLimit.cfg` | `MCApplyUndo`, `ReadsTheLast` | the apply is beyond the first 200 events (`worker/apply.go:54`) |
| `EventsClaims.cfg` | `MCEventLog`, `ReadsNothingTwice` | the last_seq of an empty page is zero, and is passed back (`mcp/tools.go:516`) |
| `EventsClaims.cfg` | `MCEventLog`, `NoDeadlock` | a bare event holds the advisory lock and waits for the task row, which an Apply or a fenced write has FOR UPDATE while it waits for the advisory lock; PostgreSQL fails one of them (the repository makes no claim here) |
| `DeliveryClaims.cfg` | `MCDelivery`, `BlameIsTheAgents` | in place, a setup step writes an ignored runner, the checks fail, and the retry is refused for it (`run.go:891`, `git/changed.go:100`) |
| `DeliveryClaims.cfg` | `MCDelivery`, `NoTamperingVerified` | an agent changes the shared state and fails; that attempt is not compared and the retry takes a new baseline (`docs/architecture.md:334`: "fails the attempt as `CONTAINMENT` before verification even starts") |
| `DeliveryClaims.cfg` | `MCDelivery`, `BaseIsRed` | a failing setup step, or a pass out of time, counts as red on the base (`run.go:898`) |
| `DeliveryClaims.cfg` | `MCDelivery`, `MovedIsNotDelivered` | the agent committed its work itself, somebody commits to the branch during the checks, and the task is delivered with both: nothing is to be written, so nothing is compared (`run.go:1428`: "If anything moved it in between, publishing fails") |
| `CancelBlamed.cfg` | `MCAgentRun`, `StoppedIsNotBlamed` | a cancellation between the server listing and the start is recorded as STARTUP (`agent/opencode.go:351`) |
| `Refusal.cfg` | `MCMcpServer`, `RefusalReported` | a child that was refused ends after another driver ended the task, and is reported as having ended it (`classifyRun`: "One error survives a recorded ending: a refusal to run at all") |
| `GoPackage.cfg` | `MCAlgorithms`, `GuardMissesNothing` | `go test ./cli` does not report a changed `cli/x_test.go`: the "./" is gone when the leading "." is looked for (`runners.go:17`: "Selection errs wide on purpose") |
| the same with `Kinds = {"path", "test", "module tree"}`, `Valued = {"durations"}` | `MCAlgorithms`, `GuardMissesNothing` | `file::test`, `go test mod/x/...`, options with a value that are not in the tables |
| `AlgorithmsClaims.cfg` | `MCAlgorithms`, `OrdinaryStepsAccepted` | `node --test 'tests/x*'` is refused at creation as a missing file (`create.go:341`), although `runners.go:307` takes a quoted glob for an operand; so is `pytest --ignore tests/gone_test.py`, whose value looks like a test that the base lacks (`create.go:466`) |
| `AlgorithmsClaims.cfg` | `MCAlgorithms`, `IgnoredTestsReported` | git reports a wholly ignored directory as the one entry `cli/`, which is no test source, so a test written into it is run and not reported (`git/changed.go:81`, `run.go:1019`, `runners.go:51`) |
| `AlgorithmsClaims.cfg` | `MCAlgorithms`, `AcceptedPatternsProtect` | the patterns `/docs`, `./docs` and `ci///` are accepted and match no path that git lists (`protected.go:41`, `:118`); `ci//` still protects, since a slash is dropped at creation and another one at the guard |
| `AlgorithmsClaims.cfg` | `MCAlgorithms`, `NamedBeneathReported` | the pattern `docs/x` has no wildcard, so it is not looked for in a directory that git reports as `docs/` (`protected.go:144`: `concrete != pattern`); today's only caller passes paths that git lists one by one (`run.go:1020`) |
| `CreationClaims.cfg` | `MCTaskCreation`, `LoserReadsTheRow` | the loser's SELECT uses the statement's snapshot and finds no row (`store/project.go:22`: "whichever loses the insert reads the winner's row") |
| `CreationClaims.cfg` | `MCTaskCreation`, `BaseCheckIsWhole` | the base moves to a commit with a submodule after creation, and the base check runs in a checkout without it (`create.go:192`) |

### Bounds

- Two runs suffice for the two-party races: what a third run does to one of them,
  the second can do as well. The theorems remove this bound for the invariants
  they cover.
- `MaxRetries = 1` gives the window between two attempts, the take-over of a
  task by a second run in that window, a worktree that is continued, and an
  attempt past the budget when the bound is off by one.
- `MaxCrashes = 1` and `MaxFaults = 1` in `race`: a crash anywhere, together with
  a lost transaction anywhere. `NoUndeclaredDelivery` is about behaviours without
  lost transactions, and says so.
- `Stalls` (a lease may expire under a live run) is on in `operator`; with two
  runs it makes the space too large, and the theorems cover it.
- `MaxToggles = 2` takes the policy away and back. `GateNotBypassed` speaks of a
  policy that has not changed, because a task that started without the gate may
  lawfully go on after the policy is switched on.
- `MaxCalls = 7` calls are apply, undo, re-apply, undo, re-apply with two calls
  overlapping; the alternation repeats from there.
- `events`: three transactions give every circle of waiting over the three locks
  of a task; `MaxSeq = 3` numbers over two tasks give gaps, a number that commits
  after a higher one, and pages shorter than what is unread.
- `delivery`: two edits let an agent write and commit, or write two paths; one
  change of the shared state and one file written by a step suffice for each
  guard to fire; contents beyond "written since" are not told apart by any guard.
- `agent`: `MaxEventLine = 2` and lines of up to four bytes: a line that just fits,
  one that is a byte too long and one that is so before its last byte; three lines
  put an unfit one between two that fit; chunks are cut anywhere. What a line of
  more than one byte says makes no difference to how it is read, so `LongSays` has
  one meaning.
- `procexec`: an odd limit of 3 has unequal head and tail, and 4 bytes overflow
  both; two helpers can be one in the group and one that forks outside it, or one
  that is listed and the child it leaves behind. Helpers are told apart by what they
  do only, so their names are given in one order (`NextHelper`).
- `mcp`: a second connection attempt after a failed one, a second run after the
  first ended. `Calls` is two because the properties relate at most two calls.
- `creation`: the three builds are a new one, an older one and one with an edited
  file; two migrations make an order; two moves of the person are one between any
  two checks and one after creation. A process that ended forgets what it knew,
  which keeps the space small.
- `algorithms`: paths of at most three names over the affixes the code looks for,
  every option class once before or after the targets, its value a word, an output
  file or a test that the base lacks; every directory above a changed file as its
  entry; `Kinds`, `Valued` and `MinDepth` name the forms left out, which the table
  above lists. Patterns have up to three segments, empty ones and dots among them, so
  "**" stands first, last and in the middle; a text of nine
  bytes is longer than the largest page and holds two of the widest characters.
- `CHECK_DEADLOCK FALSE` everywhere: runs, calls and people do stop.
- `SYMMETRY` is used for safety only, never in a run with fairness.

### Fairness

`TaskLifecycle`'s `FairSpec` assumes that a run's own goroutine is scheduled, that
its watcher polls (a ticker), that a Cancel that began goes on, that a lease
nobody renews runs out (wall-clock time), and that Recover is called again and
again, which is what `aidev task recover` and each connecting MCP server do. The
agent is *not* assumed to return, so `NoTaskStuck` excepts a task whose agent is
working, and `CancelledRunsStop` shows that the cancelled context reaches even
that agent. Crashes, faults, deletions and interrupts have no fairness.

`ProcExec`'s `FairSpec` assumes that Run's goroutines are scheduled and that its
deadline and its grace period pass; no process is assumed to exit. `McpServer`'s
assumes that a connection attempt ends (it has a timeout), and that handlers,
watchers and the shutdown are scheduled; no child is assumed to exit, and no
caller to leave (a handler's wait has a timer of its own).

## The proofs

TLAPS proves the following for every value of the constants: any number of runs,
callers, deciders, retries, crashes and faults, of helpers, tool calls, migrators,
builds, creators, branches, paths and commits; streams, patterns, paths and texts of
any length. In brackets is the property of a
run that the theorem states, where its name differs. Three properties have a
theorem and no run of their own: `EndedWorktreesKept` without a condition on
removals (`EndedKept`; `race` checks it as a part of `WorktreeRowsTrue`),
`EndingIsFinal` (`EndingFinal`) and `DecisionsStand` (`NeverRewritten`).

| Module | Theorems |
|---|---|
| `TaskLifecycleProofs` | `TypeCorrect`, `OpenAttempt` (`OneOpenAttempt`), `Budget` (`RetryBudget`), `VerifiedSuccess` (`SuccessIsVerified`), `ImplementsTaskStatus` (`RowSpec`), `DeliveryDeclared` (`NoUndeclaredDelivery`), `RowsTrue` (`WorktreeRowsTrue`), `EndedKept`, `RemovedTrue` (`RemovedIsGone`), `NothingRecordedDeleted` (`RunsDeleteNoRecordedWork`), `EndingFinal` |
| `ApprovalGateProofs` | `TypeCorrect`, `NoBypass` (`GateNotBypassed`), `Decidable` (`WaitingHasRequest`), `DenialFinal` (`DenialIsFinal`), `DecisionsBinding` (`DecisionsBind`, both), `NeverRewritten`, `ImplementsTaskStatus` (`RowSpec`) |
| `EventLogProofs` | `TypeCorrect`, `NothingMissed` (`CursorMissesNothing`), `CommitOrder` (`SeqIsCommitOrder`), `OnceEach` (`ReadsNothingTwice`), `OrderedLocks` (`LockersNeverDeadlock`) |
| `DeliveryProofs` | `Delivered` (`DeliveredIsWhatWasJudged`), `NothingUnverified` (`NothingUnverifiedDelivered`), `NobodysWork` (`NobodysWorkIsLost`), `Blame` (`BlameIsTheAgents`), `Cancelled` (`CancelledByTheOperator`) |
| `BackendProofs` | of `ProcExec`: `TypeCorrect`, `NothingLeft` (`NothingSurvives`), `OwnVerdict` (`VerdictIsTheCommandsOwn`), `CaptureProved` (`CaptureIsHeadAndTail`); of `AgentRun`: `AgentInvProved`, `StreamRead` (`StreamIsReadWhole`), `EarnedProved` (`SuccessIsEarned`) |
| `McpServerProofs` | `OneDriverProved` (`OneDriver`), `EndedProved` (`EndedIsTrue`), `PoolClosedProved` (`PoolClosed`), `ConnectionSafety` (the safety part of `ConnectionSpec`) |
| `TaskCreationProofs` | `MigrationsOnce` (`MigratedOnce`), `ChecksHold` (`CreatedAsChecked`), `SettingStands` (`SettingsStand`); of the algorithms: `ProtectionComplete` and `ProtectedProved` (`ProtectedMissesNothing`), `PagesComplete` and `PagesProved` (`PagesFitTogether`), `GuardComplete` and `GuardProved` (`GuardMissesNothing`), `CreationProved` (`CreationRefusesTheUnjudgeable`) |
| `ApplyUndoProofs` | `AlternatesWhileItFits`, `AlternatesForFewCalls` (`HistoryAlternates`), `HistoryTrue` (`HistoryIsTrue`) |

Most assume only the types of the constants. The others name a condition under
which the code keeps its word, and a configuration of the table above shows what
happens without it:

- `RowsTrue`: no operator removes worktrees (`Removers = {}`, as in `race`); with
  one, the directory of an open attempt may go (`LifecycleClaims.cfg`);
- `OnceEach`: the reader passes the highest number it has seen (`EventsClaims.cfg`);
- `Blame`: no step writes an ignored path that steps load code from
  (`DeliveryClaims.cfg`);
- `GuardProved` and `CreationProved`: steps of the forms that `Judged` names
  (`GoPackage.cfg`); tests that git lists, and no quoted glob or value that looks
  like a missing test, which the properties themselves say (`AlgorithmsClaims.cfg`);
- `ProtectionComplete`: patterns written as git lists paths, and a wildcard beneath
  a directory's entry (`AlgorithmsClaims.cfg`);
- `AlternatesWhileItFits`: every task's events fit the page that `applyState` reads;
  `AlternatesForFewCalls` has the bound on the number of calls instead
  (`ApplyLimit.cfg`);
- `HistoryTrue`: the same bound, the calls are of one task, and nobody switches
  branch while one runs (`ApplyTwoTasks.cfg`).

None of the invariants is inductive. In `TaskLifecycleProofs` the missing part is
what a run *knows*: the statement `Knows(run[r])` says, per program counter, which
status the run read and that its attempt number is within the budget; `RunOwns`
that a run's open attempt, if it is still RUNNING under its name, is the latest
one; `RunPassed` that a run about to succeed has its checks in `passed`;
`RestingRows` that a task at rest has only failed attempts. A run that lost its
attempt knows nothing about the rows, and it needs nothing: every write of it is
behind `Fence` or `CompareAndSet`. `MoverKnows` is about the run that steps,
`KnowsStep` adds that nobody else's step takes its knowledge away (`RunOwns` is
preserved because only the owner's step or a Cancel ends an attempt), `RowsStep`
is about the rows, one step per action. Lemmas about sequences of rows
(`MarkedRows`, `FinishedRows`, `CancelledRowsEnd`, ...) say what each update
leaves alone.

The worktree theorems rest on a second invariant, `WorkInv`. First every step is
reduced to what it does to rows and directories (`Effects`: a run opens an attempt,
makes a directory, records it, hands it over, ...; a call cancels, finds, removes,
marks; the rest touches neither). Then `WhereInv`: a directory has the name of the
attempt it was made for, that attempt has a row whenever a later one names it, and
until a run has recorded its worktree no row is its own - so no directory a row
names is made again (`NeverRemade`) or discarded (`NamedStays`). `MarkInv`: only the
latest attempt's row can be ACTIVE, and RETAINED is said only of ended tasks.
`CleanInv`: the run that cleans up is the one that succeeded. `GoneInv` and
`DiskInv` say what is and is not on disk between a removal or a creation and its
row. `SeesInv`: whoever is behind the fence has seen the task's status, because
nobody is given an attempt back (`FenceBefore`); a `succeed` that moved the branch
therefore finds the task VERIFYING, which is `NoUndeclaredDelivery`.

In `ApprovalGateProofs` the strengthening is that a pending request is always the
last one, that a denied task is FAILED (so nobody claims it), and `GateInv`: a
run past the gate, a READY task that has been gated, and an open attempt each
imply a grant.

In `EventLogProofs` there are two invariants. `AppendsAlone`: who has taken a
number and not committed holds the task's advisory lock alone, and the number is
above every committed one; since a cursor is a committed number
(`CursorIsCommitted`), what becomes visible is above every cursor.
`PageIsPrefix` is the part about limits: a page leaves out nothing at or below
its last event. `LocksAgree`, `HoldsAsStated` and `AdvisoryFollows` say what each
transaction holds at each statement; from them, a transaction past its locks
waits only for bare events (`PastLocks`), one before or between its locks for one
that is further on or for a renewal that waits for nobody (`BeforeLocks`), and so
no set of them waits in a circle (`NoCircle`).

In `DeliveryProofs` the conjuncts of `IInv` are one per question. `HeadInv` and
`OrderInv` say which ref HEAD names and what has been set at each point of an
attempt. `Stacked` (in `BranchInv`): from the snapshot on, the branch is where the
snapshot found it, or has only somebody else's commits beyond it; so a
compare-and-set that succeeds loses nothing, and one that is not made
leaves only those. `BaseInv`: no unverified commit exists before the first retry,
and a retry delivers on the base, whose history is itself. `LeftInv`: what attempt
n left is on its own branch, which no later step moves, or on the branch an agent
switched to, which can be made only once. `UnmeddledInv` and `WroteInv` account
for every difference: while no agent meddled, the shared state is the baseline's
and every commit is built on the base; every path of every commit, of the
snapshot and of a directory that may be continued is the base's, or an agent's, or
a commit's of somebody else. `Delivers` and `KeepsPartialWork` reduce the two
actions that build commits to their cases, and `Made` says what a new commit
leaves alone.

In `BackendProofs` the invariant of `ProcExec` says, per step of Run, which processes may still
be alive: none of the group once the kill has been sent, of the tagged ones outside it
only those started after the last listing (`late`). While a scan runs, every live
tagged process is listed and unread, found, or late. The proof corrected the model: a helper that
a late helper starts after the SIGKILL, while Run settles the verdict ("classify"),
was not counted as late, which two helpers cannot show and three can. The buffer's invariant relates head, tail and dropped
count to the length of the stream for odd and even limits.

The invariant of `AgentRun` (`AgentInv`) ties three things to the place of the
reader. `Held`: the scanner holds the beginning of the line being read, up to where
it has been read, unless that is more than it may hold; then it holds nothing and
skips. `Counted`: the transcript is what the finished lines that fit say, in their
order, and the counters are the numbers of the others; the n-th line of a set of
lines is found by rank (`Nth`), and a line that is finished has the highest rank of
all (`NthOfMore`). `Reasoned`: the reason is that of the last step among them.
`Concluded` then follows a verdict back to them: it was drawn from how the process
ended and from this transcript, from which nothing is missing but lines that were
not finished or that the scanner could not hold.

In `McpServerProofs`, `OneAttempt` (at most one attempt has no result, and it is
the current one) carries the refinement of `SharedConnection`; `OthersAreDone` (while
the server is up every run but the registered one is over, and its process gone)
carries `OneDriver`; `CleanEndings` and `CallRuns` follow an ending from the
process to the watcher to the reply.

In `TaskCreationProofs`, `PlaceInv` says that a migrator in its loop has found its
own files up to where it is and that what it read of the rest is still so, because
only the holder of the lock writes (`LockInv`, `SchemaInv`). `CallInv` says what a
creation knows at each step and `BaseInv` that its base is one the branch had
during the call; rows once recorded stay, so what `requireCurrentSchema` read
stays true.

The algorithms are recursive functions on numbers, and no library theorem about
induction can be used with the provers at hand; what a function computes is proved
by the least counterexample instead (`LeastNumber`, from the well-foundedness of the
naturals), with the function's equation from `PlacesExist` and `OffsetsExist`.
For `ProtectionComplete`, a pattern that is normalized keeps at least one segment
(`StaysNonempty`), the ancestors of a path and the path itself are all its
beginnings (`Beginnings`), so what protects a path matches one of the subjects
(`OneOfThemMatches`); the path that stands for a pattern matches it
(`ResolvedMatches`) and lies in every directory that the pattern spells out
(`SpelledOut`). `PagesComplete` rests on where a
page begins and ends: at the start of a character, and at the end of the page before
(`RunesInOrder`), so pages overlap only in a character that is wider than a page;
`FollowLeads` says which offsets a reader is led through.

`GuardComplete` is about any step that is written with options its tool takes
(`GivenOptions`: each with its value, in any number, before or after the operands)
and with operands of the kinds its tool takes (`GivenTargets`). A loop over the
arguments is a walk that skips values (`Walks`, `VisitedIsWalk`), and the walk through
two lists put together is the walk through each, when no option at the end of the first
reaches into the second (`LooksAtTwo`). So options hide no operand and add none
(`RestOperands`), and what is left is one lemma for each tool: its patterns and operands
select the files that the tool runs (`GoJudges`, `NodeJudges`, `PytestJudges`,
`ModuleJudges`, `IsolatedJudges`, `PythonJudges`, `ShJudges`). `GuardProved` needs
that the steps of the run are such steps (`Judged`); the forms it leaves out are those
of `GoPackage.cfg` and the row under it.

For `CreationProved`, what a step reports is always among the entries it is given
(`MatchesAmong`), and what a step of the run names, by its command or by any of its
arguments, is a file or a directory that the base holds, or the value of an option,
or, with go, a directory under the name of the module (`StepPoints`), which no go
test is called (`ModuleBase`). So nothing is refused that the base holds, unless an
option's value is a test that it lacks (`NoneRefused`); and where
it lacks the file that a target names, that file is the one entry, which the step
reports by `GuardComplete` unless git ignores it (`NamedRefused`).

In `ApplyUndoProofs`, `FlightInv` says that a call in flight holds its task's row and
that the record it read is still the last one, if the history fits the page. For
`HistoryTrue`, `GitInv` adds that HEAD and the checkout are what the call saw, and
`BranchInv` what the branches hold between the git command and its record.

Model-checked only: liveness (`CancelledRunsStop`, `NoTaskStuck`, `RunReturns`,
`NobodyHangs` and the fairness of `ConnectionSpec`), which is out of the prover's
reach.

## Not modelled

- Submodule checkouts (`git/submodule.go`): which mirrors are cloned from where.
  What creation and delivery decide by (a commit with a gitlink) is modelled.
- `task.New` and the validation of single request fields; configuration files and
  environment variables; flags, tables and JSON of the CLI; doctor and setup;
  views; coverage, tracing and logging. This is sequential code without shared
  state, left to unit tests.
- The audit rows of an attempt (worker_runs, verification_runs, coverage) and the
  read-only queries and statistics of the store; `PruneLogs`, which empties
  columns that nothing modelled reads.
- `OpenCode.ListAgents` and its cache, token counts and summaries, the fake
  backend. Detection of landed work (`git/landed.go`), a report.
- git, PostgreSQL and the operating system appear by what the code relies on.

## Plan

1. Done: the modules, the runs and the theorems above.
2. Left for later: landed-detection, the cache of agent listings, submodules.
