---------------------------- MODULE TaskCreation ----------------------------
(***************************************************************************)
(* CreateTask and `project add` (worker/create.go, cli/project.go,         *)
(* store/project.go) on one repository, by several processes at once,      *)
(* while an operator changes the project's settings, a person commits and  *)
(* switches branch, and the tasks that were created are run.               *)
(*                                                                         *)
(* A commit is a position in History, which says whether it has a          *)
(* submodule (gitlink) and whether it holds the file that some steps run   *)
(* (runner); a branch only moves forward.                                  *)
(***************************************************************************)
EXTENDS Migrations

CONSTANTS
  Creators,   \* the processes that create a task or register the project
  Build,      \* the checksums of the migrations that they were built with
  Requests,   \* what they may be asked for
  Branches,   \* the branches of the repository
  History,    \* the commits that a branch can come to
  MaxMoves,   \* bound: commits and switches of the person
  MaxChoices  \* bound: changes of the project's setting

Modes == {"clean", "in_place"}

(* What matters of a request: whether it only registers the project or     *)
(* asks for a registered one, the ref and the mode it names, whether its   *)
(* checks must fail on the base, and whether a step runs a file of it.     *)
CreateTaskInput ==
  [add : BOOLEAN, registered : BOOLEAN, ref : Branches \cup {None}, mode : Modes \cup {None},
   expectFail : BOOLEAN, needsRunner : BOOLEAN]

ASSUME TaskCreationAssumption ==
  /\ Build \in Seq(STRING) /\ DOMAIN Build \subseteq Versions
  /\ History \in Seq([gitlink : BOOLEAN, runner : BOOLEAN])
  /\ Requests \subseteq CreateTaskInput
  /\ {MaxMoves, MaxChoices} \subseteq Nat
  /\ None \notin Modes \cup [mode : Modes, branch : Branches]

VARIABLES
  refs,     \* the commit of each branch, 0 while it has none
  checked,  \* the branch that is checked out
  project,  \* the row of the project: mode and default branch, or None
  chosen,   \* the mode an operator chose last: a history variable
  call,     \* the calls
  held,     \* the modes the project had during each call: a history variable
  tasks,    \* the rows of the tasks
  runs,     \* what their runs started from
  moves, choices

repoVars == <<refs, checked, moves>>
createVars == <<repoVars, project, chosen, call, held, tasks, runs, choices>>
vars == <<migrateVars, createVars>>

Idle == [at |-> "idle", request |-> None, began |-> None, pins |-> None,
         branch |-> None, snapshot |-> None, project |-> None, base |-> 0]

Init ==
  /\ MigrateInit
  /\ refs \in {[b \in Branches |-> n] : n \in {0, 1}}
  /\ checked \in Branches
  /\ project = None /\ chosen = None
  /\ call = [c \in Creators |-> Idle]
  /\ held = [c \in Creators |-> {}]
  /\ tasks = {} /\ runs = {}
  /\ moves = 0 /\ choices = 0

-----------------------------------------------------------------------------

(* A call that is over forgets all but how it ended and, if it created a   *)
(* task, when it began.                                                    *)
Over(c, how) == [Idle EXCEPT !.at = how]
Goes(c, to) ==
  call' = [call EXCEPT ![c] = CASE to = "refused" -> Over(c, to)
                                [] to = "created" -> [Over(c, to) EXCEPT !.began = call[c].began]
                                [] OTHER -> [call[c] EXCEPT !.at = to]]

(* effectiveBaseRef *)
EffectiveBaseRef(ref, default) == IF ref = None THEN default ELSE ref

(* A git object that is asked for by name. *)
HasGitlinks(commit) == History[commit].gitlink
HasPathAtCommit(commit) == History[commit].runner

(* requireCurrentSchema: a command does nothing on a schema that is behind *)
(* its own build, or another one.                                          *)
OpenApp(c, request) ==
  /\ call[c].at = "idle"
  /\ call' = [call EXCEPT ![c] =
       IF PendingMigrations(Build, recorded) # {} \/ Changed(Build, recorded) # {}
       THEN Over(c, "refused")
       ELSE [Idle EXCEPT !.at = "validate", !.request = request, !.began = refs]]
  /\ held' = [held EXCEPT ![c] = IF project = None THEN {} ELSE {project.mode}]
  /\ UNCHANGED <<migrateVars, repoVars, project, chosen, tasks, runs, choices>>

(* OpenRepository, HasCommits, the ref that was named, the agent's name    *)
(* and the protected paths: all of it before anything is written.          *)
Validate(c, ok) ==
  LET request == call[c].request
      resolves == /\ \E b \in Branches : refs[b] # 0
                  /\ request.ref # None => refs[request.ref] # 0
  IN /\ call[c].at = "validate"
     /\ Goes(c, IF ~ok \/ (~request.add /\ ~resolves) THEN "refused"
                ELSE IF request.add \/ request.registered THEN "look up" ELSE "pins")
     /\ UNCHANGED <<migrateVars, repoVars, project, chosen, held, tasks, runs, choices>>

(* GetProjectByPath: `project add` leaves a project that it finds alone,   *)
(* and a task that needs a registered one is refused without.              *)
LookUp(c) ==
  /\ call[c].at = "look up"
  /\ call' = [call EXCEPT ![c] =
       CASE call[c].request.add /\ project = None -> [@ EXCEPT !.at = "pins"]
         [] call[c].request.add /\ project # None -> Over(c, "registered")
         [] ~call[c].request.add /\ project = None -> Over(c, "refused")
         [] ~call[c].request.add /\ project # None -> [@ EXCEPT !.at = "base", !.project = project]]
  /\ UNCHANGED <<migrateVars, repoVars, project, chosen, held, tasks, runs, choices>>

(* PinsSubmodules: the index of the checkout decides the default mode. *)
PinsSubmodules(c) ==
  /\ call[c].at = "pins"
  /\ call' = [call EXCEPT ![c].at = "ensure",
                ![c].pins = refs[checked] # 0 /\ HasGitlinks(refs[checked])]
  /\ UNCHANGED <<migrateVars, repoVars, project, chosen, held, tasks, runs, choices>>

(* EnsureProject is one statement: it sees the rows that were there when   *)
(* it began ...                                                            *)
EnsureBegins(c) ==
  /\ call[c].at = "ensure"
  /\ call' = [call EXCEPT ![c].at = "insert", ![c].branch = checked, ![c].snapshot = project]
  /\ UNCHANGED <<migrateVars, repoVars, project, chosen, held, tasks, runs, choices>>

(* Mistake: a row that is there is brought up to date. *)
InsertOrUpdate(row) == row

(* ON CONFLICT DO NOTHING *)
InsertOrNothing(row) == IF project = None THEN row ELSE project

(* ... but its insert meets every row that is there by now: one that came  *)
(* in between is neither inserted nor seen.  The answer may be lost.       *)
EnsureInserts(c, answered) ==
  LET row == [mode |-> IF call[c].pins THEN "in_place" ELSE "clean",
              branch |-> call[c].branch]
      answer == IF project = None THEN row ELSE call[c].snapshot
  IN /\ call[c].at = "insert"
     /\ project' = InsertOrNothing(row)
     /\ call' = [call EXCEPT ![c] =
          CASE ~answered -> Over(c, "refused")
            [] answered /\ answer = None -> Over(c, "not found")
            [] answered /\ answer # None /\ call[c].request.add -> Over(c, "registered")
            [] answered /\ answer # None /\ ~call[c].request.add -> [@ EXCEPT !.at = "base", !.project = answer]]
     /\ held' = [d \in Creators |-> held[d] \cup {project'.mode}]
     /\ UNCHANGED <<migrateVars, repoVars, chosen, tasks, runs, choices>>

(* ResolveCommit: the base of the task, once and for all of its checks. *)
ResolveBase(c) ==
  LET base == refs[EffectiveBaseRef(call[c].request.ref, call[c].project.branch)]
  IN /\ call[c].at = "base"
     /\ call' = [call EXCEPT ![c] = IF base = 0 THEN Over(c, "refused")
                                    ELSE [@ EXCEPT !.at = "check", !.base = base]]
     /\ UNCHANGED <<migrateVars, repoVars, project, chosen, held, tasks, runs, choices>>

Mode(c) == IF call[c].request.mode = None THEN call[c].project.mode ELSE call[c].request.mode

(* Mistake: the checks ask for the branch again. *)
BranchNow(c) == refs[EffectiveBaseRef(call[c].request.ref, call[c].project.branch)]

CheckedCommit(c) == call[c].base

(* A checkout of its own cannot hold submodules. *)
CheckGitlinks(c) ==
  /\ call[c].at = "check"
  /\ Goes(c, IF (Mode(c) = "clean" \/ call[c].request.expectFail) /\ HasGitlinks(CheckedCommit(c))
             THEN "refused" ELSE "build")
  /\ UNCHANGED <<migrateVars, repoVars, project, chosen, held, tasks, runs, choices>>

(* task.New and refuseMissingRunners *)
BuildTask(c, ok) ==
  /\ call[c].at = "build"
  /\ Goes(c, IF ok /\ (call[c].request.needsRunner => HasPathAtCommit(CheckedCommit(c)))
             THEN "store" ELSE "refused")
  /\ UNCHANGED <<migrateVars, repoVars, project, chosen, held, tasks, runs, choices>>

(* The transaction that stores the task and its first event. *)
StoreTask(c, ok) ==
  /\ call[c].at = "store"
  /\ IF ok THEN /\ tasks' = tasks \cup {[by |-> c, request |-> call[c].request, mode |-> Mode(c),
                                        base |-> call[c].base, default |-> call[c].project.branch]}
               /\ Goes(c, "created")
     ELSE Goes(c, "refused") /\ UNCHANGED tasks
  /\ UNCHANGED <<migrateVars, repoVars, project, chosen, held, runs, choices>>

(* A read, or a git command, fails: the call returns the error. *)
Fails(c) ==
  /\ call[c].at \in {"look up", "pins", "ensure", "base", "check"}
  /\ Goes(c, "refused")
  /\ UNCHANGED <<migrateVars, repoVars, project, chosen, held, tasks, runs, choices>>

-----------------------------------------------------------------------------
(* A run of the task: prepareWorktree resolves the ref again and says so   *)
(* if it moved, the base check runs in a checkout of that commit, and      *)
(* clean verification refuses a tree with a submodule.                     *)
RunTask(t) ==
  LET base == refs[EffectiveBaseRef(t.request.ref, project.branch)]
  IN /\ \A r \in runs : r.task # t
     /\ runs' = runs \cup {[task |-> t, base |-> base, moved |-> base # t.base,
                            gate |-> t.request.expectFail,
                            judged |-> ~(t.mode = "clean" /\ HasGitlinks(base))]}
     /\ UNCHANGED <<migrateVars, repoVars, project, chosen, call, held, tasks, choices>>

(* SetProjectVerificationMode *)
ChooseMode(mode) ==
  /\ project # None /\ choices < MaxChoices
  /\ project' = [project EXCEPT !.mode = mode]
  /\ chosen' = mode
  /\ held' = [c \in Creators |-> held[c] \cup {mode}]
  /\ choices' = choices + 1
  /\ UNCHANGED <<migrateVars, repoVars, call, tasks, runs>>

PersonCommits(b) ==
  /\ moves < MaxMoves /\ moves' = moves + 1
  /\ refs[b] < Len(History)
  /\ \E n \in (refs[b] + 1)..Len(History) : refs' = [refs EXCEPT ![b] = n]
  /\ UNCHANGED <<migrateVars, checked, project, chosen, call, held, tasks, runs, choices>>

PersonSwitches(b) ==
  /\ moves < MaxMoves /\ moves' = moves + 1
  /\ b # checked /\ checked' = b
  /\ UNCHANGED <<migrateVars, refs, project, chosen, call, held, tasks, runs, choices>>

CreateNext ==
  \/ \E c \in Creators :
       \/ \E q \in Requests : OpenApp(c, q)
       \/ \E ok \in BOOLEAN : Validate(c, ok) \/ BuildTask(c, ok) \/ StoreTask(c, ok)
                                 \/ EnsureInserts(c, ok)
       \/ LookUp(c) \/ PinsSubmodules(c) \/ EnsureBegins(c)
       \/ ResolveBase(c) \/ CheckGitlinks(c) \/ Fails(c)
  \/ \E t \in tasks : RunTask(t)
  \/ \E mode \in Modes : ChooseMode(mode)
  \/ \E b \in Branches : PersonCommits(b) \/ PersonSwitches(b)

(* A migration and a creation meet in one read only, requireCurrentSchema, *)
(* and what it read stays true: so nothing is lost by letting the          *)
(* migrations end, however they do, before the rest begins.                *)
Next ==
  \/ MigrateNext /\ UNCHANGED createVars
  \/ ~Migrating /\ CreateNext

Spec == Init /\ [][Next]_vars

-----------------------------------------------------------------------------
(* Everything that creation checked holds of the commit that the task      *)
(* records, which its branch had while it was being created; a task is     *)
(* created on a schema that is its own; and a run whose base has not moved *)
(* since then can be judged, its base check included (CreateTask,          *)
(* prepareWorktree, verificationCheckout).                                 *)
CreatedAsChecked ==
  /\ \A t \in tasks :
       LET branch == EffectiveBaseRef(t.request.ref, t.default)
       IN /\ call[t.by].began[branch] <= t.base /\ t.base <= refs[branch]
          /\ t.mode = "clean" \/ t.request.expectFail => ~HasGitlinks(t.base)
          /\ t.request.needsRunner => HasPathAtCommit(t.base)
          /\ \A v \in DOMAIN Build : recorded[v] = Build[v]
  /\ \A r \in runs : r.moved \/ (r.judged /\ (r.gate => ~HasGitlinks(r.base)))

(* The operator's setting survives every registration, and a task has the  *)
(* mode that was asked for, or one that its project had while the task was *)
(* being created ("an operator's setting survives every later              *)
(* registration", EnsureProject).                                          *)
SettingsStand ==
  /\ chosen # None => project.mode = chosen
  /\ \A t \in tasks : IF t.request.mode # None THEN t.mode = t.request.mode
                      ELSE t.mode \in held[t.by]

(* Two callers that register one repository both get its row: "whichever   *)
(* loses the insert reads the winner's row" (EnsureProject).               *)
LoserReadsTheRow == \A c \in Creators : call[c].at # "not found"

(* The base check never runs on a base whose submodules its checkout       *)
(* cannot hold (CreateTask: "its base pass read red for the wrong reason"). *)
BaseCheckIsWhole == \A r \in runs : r.gate => ~HasGitlinks(r.base)

=============================================================================
