--------------------------- MODULE TestSelection ---------------------------
(***************************************************************************)
(* Which changed paths a verification step would run as its own judge      *)
(* (verification/interception.go, runners.go, testpaths.go), against what  *)
(* the tools themselves run.                                               *)
(*                                                                         *)
(* A path is a sequence of names and a name is a stem with the affix that  *)
(* the code looks for: NoAffix in a plain name, "test_.py" in test_STEM.py,*)
(* "*" a wildcard, "::" a pytest test of a file.  An argument is a token:  *)
(* a word, a long option (the go tool's single-dash ones too), or a        *)
(* cluster of short options, in which a value glued to an option is one    *)
(* letter more.                                                            *)
(***************************************************************************)
EXTENDS Integers, Sequences, SequencesExt, FiniteSets, FiniteSetsExt

Name(stem, affix) == [stem |-> stem, affix |-> affix]
NoAffix == "plain"
Plain(stem) == Name(stem, NoAffix)

Token(kind) == [kind |-> kind, path |-> <<>>, outside |-> FALSE, name |-> "none",
                glued |-> FALSE, letters |-> <<>>]
Word(path) == [Token("word") EXCEPT !.path = path]
Outside == [Token("word") EXCEPT !.outside = TRUE]
Option(name) == [Token("option") EXCEPT !.name = name]
Glued(name) == [Option(name) EXCEPT !.glued = TRUE]
Cluster(letters) == [Token("cluster") EXCEPT !.letters = letters]
Dashes == Token("--")

Dir(path) == Front(path)
Base(path) == Last(path)

-----------------------------------------------------------------------------
(* testpaths.go *)

TestDirs == {"test", "tests", "__tests__", "testdata"}
TestAffixes == {"_test.go", "_test.py", "test_.py", ".spec.", ".test."}
Makefile == Plain("Makefile")
Conftest == Name("conftest", ".py")

isTestPath(path) ==
  /\ path # <<>>
  /\ \/ \E i \in DOMAIN path : path[i].affix = NoAffix /\ path[i].stem \in TestDirs
     \/ Base(path) \in {Conftest, Makefile}
     \/ Base(path).affix \in TestAffixes

isTestSource(path) ==
  /\ isTestPath(path)
  /\ Base(path) # Makefile
  /\ \A i \in DOMAIN path : path[i] # Plain("testdata")

(* A changed entry is a path, or a directory that stands for all it holds. *)
testSources(changed) == {c \in changed : isTestSource(c.path)}

-----------------------------------------------------------------------------
(* The arguments. *)

(* cleanOperand: an operand outside of the worktree selects nothing in it. *)
cleanOperand(token) == IF token.outside THEN {} ELSE {token.path}

(* cleanRunner: nor is the worktree itself a file that can be run. *)
cleanRunner(token) == cleanOperand(token) \ {<<>>}

underOrEqual(path, dir) == IsPrefix(dir, path)

(* The arguments a loop over args looks at: it skips the values that those *)
(* at `valued` take from the next argument.                                *)
Visited(args, valued) ==
  LET from[i \in Nat] == IF i > Len(args) THEN {}
                         ELSE {i} \cup from[IF i \in valued THEN i + 2 ELSE i + 1]
  IN from[1]

(* The operands: the words up to "--", and everything after it. *)
Operands(args, valued) ==
  LET seen == Visited(args, valued)
      stops == {i \in seen : args[i].kind = "--"} \cup {Len(args) + 1}
      stop == Min(stops)
  IN {args[i] : i \in {j \in seen : j < stop /\ args[j].kind = "word"}
                      \cup ((stop + 1)..Len(args))}

Clean(tokens) == UNION {cleanOperand(t) : t \in tokens}

(* The letters of a cluster that are options: a value ends it. *)
Letters(token, valued) ==
  LET ends == {i \in DOMAIN token.letters : token.letters[i] \in valued}
  IN IF ends = {} THEN token.letters ELSE SubSeq(token.letters, 1, Min(ends))

(* The cluster's last option takes the next argument as its value. *)
TakesNext(token, valued) ==
  /\ token.kind = "cluster" /\ token.letters # <<>>
  /\ Letters(token, valued) = token.letters
  /\ Last(token.letters) \in valued

(* The arguments that take the next one as their value: by a cluster's     *)
(* last option, or by the name of a long option.                           *)
LetterValued(args, valued) == {i \in DOMAIN args : TakesNext(args[i], valued)}
FlagValued(args, valued) ==
  {i \in DOMAIN args : args[i].kind = "option" /\ ~args[i].glued /\ args[i].name \in valued}

-----------------------------------------------------------------------------
(* interception.go: a file that is loaded by its name.  A directory's     *)
(* entry ends with a "/", so it is none of the files that are run.         *)

matchRunner(runner, changed) ==
  {c \in changed : \/ ~c.dir /\ c.path = runner
                   \/ c.dir /\ IsStrictPrefix(c.path, runner)}

matchRunners(runners, changed) == UNION {matchRunner(r, changed) : r \in runners}

(* relativeCommand: a bare name, <<>>, is looked up in PATH. *)
relativeCommand(command) == {command} \ {<<>>}

shellScript(args) ==
  LET seen == Visited(args, LetterValued(args, {"o"}))
      commands == {i \in seen : /\ args[i].kind = "cluster"
                                /\ Range(args[i].letters) \cap {"c", "s"} # {}}
      ends == {i \in seen : args[i].kind \in {"--", "word"}}
      first == Min(ends)
  IN IF ends = {} \/ (\E i \in commands : i < first) THEN {}
     ELSE IF args[first].kind = "word" THEN cleanRunner(args[first])
     ELSE IF first < Len(args) THEN cleanRunner(args[first + 1])
     ELSE {}

(* What shadows a module in the working directory: a package, a source or  *)
(* an extension.                                                           *)
ShadowAffixes == {NoAffix, ".py", ".so"}
matchModule(module, changed) ==
  {c \in changed : c.path[1].stem = module /\ c.path[1].affix \in ShadowAffixes}

-----------------------------------------------------------------------------
(* runners.go: the tests that a runner collects. *)

goValueFlags == {"run", "count"}
nodeValueFlags == {"test-reporter", "import"}
pytestValueFlags == {"ignore", "tb"}
pytestValueLetters == {"k", "m", "p"}

(* goSubcommand: where the first argument is that is not an option. *)
goSubcommand(args) ==
  LET seen == Visited(args, {i \in DOMAIN args : args[i].kind = "option" /\ args[i].name = "C"})
      ends == {i \in seen : args[i].kind \in {"--", "word"}}
  IN IF ends = {} THEN 0 ELSE Min(ends)

(* goPatterns: the arguments after -args are the test binary's. *)
goPatterns(args) ==
  LET seen == Visited(args, FlagValued(args, goValueFlags))
      ends == {i \in seen : args[i] \in {Option("args"), Dashes}}
      own == IF ends = {} \/ args[Min(ends)] = Dashes THEN args
             ELSE SubSeq(args, 1, Min(ends) - 1)
  IN Clean(Operands(own, FlagValued(own, goValueFlags)))

Dots == Plain("...")

goPatternSelects(p, dir) ==
  LET dots == {i \in DOMAIN p : p[i] = Dots}
  IN CASE p = <<Dots>> -> TRUE
       [] p # <<Dots>> /\ dots # {} /\ Base(p) = Dots -> underOrEqual(dir, Front(p))
       [] dots # {} /\ Base(p) # Dots -> TRUE
       [] p = <<Plain("all")>> -> TRUE
       [] dots = {} /\ Len(p) > 1 -> dir = p \/ (dir # <<>> /\ IsStrictSuffix(dir, p))
       [] p = <<>> -> dir = <<>>
       [] dots = {} /\ Len(p) = 1 /\ p # <<Plain("all")>> ->
            dir = <<>> /\ p[1].stem \notin {"std", "cmd", "tool"}

goSelected(patterns, dir) ==
  IF patterns = {} THEN dir = <<>> ELSE \E p \in patterns : goPatternSelects(p, dir)

goMatches(args, changed) ==
  LET sub == goSubcommand(args)
  IN IF sub = 0 \/ args[sub] # Word(<<Plain("test")>>) THEN {}
     ELSE LET patterns == goPatterns(SubSeq(args, sub + 1, Len(args)))
          IN {c \in testSources(changed) : /\ Base(c.path).affix = "_test.go"
                                           /\ goSelected(patterns, Dir(c.path))}

hasNodeTest(args) == \E i \in DOMAIN args : args[i].kind = "option" /\ args[i].name = "test"

nodeOperandSelects(operand, path) ==
  LET globs == {i \in DOMAIN operand : operand[i].affix = "*"}
  IN underOrEqual(path, IF globs = {} THEN operand ELSE SubSeq(operand, 1, Min(globs) - 1))

nodeMatches(args, changed) ==
  LET operands == Operands(args, FlagValued(args, nodeValueFlags))
  IN {c \in testSources(changed) :
        /\ hasNodeTest(args)
        /\ operands = {} \/ \E o \in Clean(operands) : nodeOperandSelects(o, c.path)}

(* Mistake: a conftest.py above the operands is forgotten. *)
conftestBeneath(operands, dir) == \E o \in operands : underOrEqual(dir, o)

conftestSelected(operands, dir) ==
  \E o \in operands : underOrEqual(o, dir) \/ underOrEqual(dir, o)

pytestOperands(args) ==
  Operands(args, FlagValued(args, pytestValueFlags) \cup LetterValued(args, pytestValueLetters))

pytestMatches(args, changed) ==
  LET operands == pytestOperands(args)
      noconftest == Option("noconftest") \in Range(args)
  IN {c \in testSources(changed) :
        \/ operands = {}
        \/ /\ Base(c.path) = Conftest /\ ~noconftest
           /\ conftestSelected(Clean(operands), Dir(c.path))
        \/ /\ Base(c.path) # Conftest
           /\ \E o \in Clean(operands) : underOrEqual(c.path, o)}

pythonMatches(args, changed) ==
  LET valued == {"m", "c", "W", "X"}
      seen == Visited(args, LetterValued(args, {"W", "X"}))
      has(i, letters) == /\ args[i].kind = "cluster"
                         /\ Range(Letters(args[i], valued)) \cap letters # {}
      ends == {i \in seen : args[i].kind \in {"--", "word"} \/ has(i, {"c", "m"})}
      at == Min(ends)
      isolated == \E i \in seen : i <= at /\ has(i, {"I", "P"})
      glued == Len(args[at].letters) > Len(Letters(args[at], valued))
      module == IF glued THEN Last(args[at].letters) ELSE args[at + 1].path[1].stem
      rest == SubSeq(args, IF glued THEN at + 1 ELSE at + 2, Len(args))
  IN IF ends = {} THEN {}
     ELSE CASE args[at].kind = "word" -> matchRunners(cleanRunner(args[at]), changed)
            [] args[at].kind = "--" ->
                 IF at < Len(args) THEN matchRunners(cleanRunner(args[at + 1]), changed) ELSE {}
            [] has(at, {"c"}) -> {}
            [] has(at, {"m"}) ->
                 IF ~glued /\ at = Len(args) THEN {}
                 ELSE (IF isolated THEN {} ELSE matchModule(module, changed))
                      \cup (IF module = "pytest" THEN pytestMatches(rest, changed) ELSE {})

(* matchesForStep *)
matchesForStep(step, changed) ==
  matchRunners(relativeCommand(step.command), changed) \cup
  (CASE step.base = "python" -> pythonMatches(step.args, changed)
     [] step.base = "sh" -> matchRunners(shellScript(step.args), changed)
     [] step.base = "go" -> goMatches(step.args, changed)
     [] step.base = "node" -> nodeMatches(step.args, changed)
     [] step.base = "pytest" -> pytestMatches(step.args, changed)
     [] step.base = "other" -> {})

-----------------------------------------------------------------------------
(* create.go: the steps that are refused when a task is created. *)

(* argumentPath: a word with a "/" or an extension, and no package pattern. *)
argumentPath(token) ==
  {p \in cleanRunner(token) : /\ token.kind = "word"
                              /\ \A i \in DOMAIN p : p[i] # Dots
                              /\ Len(p) > 1 \/ Base(p).affix # NoAffix}

(* Mistake: only the command is looked at. *)
stepCommand(step) == relativeCommand(step.command)

stepPaths(step) ==
  relativeCommand(step.command) \cup UNION {argumentPath(a) : a \in Range(step.args)}

(* What a step would run of the paths that it names, that the base commit  *)
(* does not hold and that git does not ignore.                             *)
refuseMissingRunners(step, base, ignored) ==
  matchesForStep(step, {[path |-> p, dir |-> FALSE] : p \in stepPaths(step) \ (base \cup ignored)})

-----------------------------------------------------------------------------
(* What the tools run.  A step is written for a purpose: a tool, options    *)
(* that come before and after the operands, and targets; Step is its       *)
(* command line and Runs what the tool does with it.                       *)

Operand(target) ==
  CASE target.kind = "path" -> Word(target.path)
    [] target.kind = "tree" -> Word(Append(target.path, Dots))
    [] target.kind = "module" -> Word(<<Plain("mod")>> \o target.path)
    [] target.kind = "module tree" -> Word(<<Plain("mod")>> \o Append(target.path, Dots))
    [] target.kind = "glob" -> Word(Append(target.path, Name("x", "*")))
    [] target.kind = "test" -> Word(Append(Dir(target.path), Name("x", "::")))
    [] target.kind = "outside" -> Outside

Step(purpose) ==
  LET operands == [i \in DOMAIN purpose.targets |-> Operand(purpose.targets[i])]
      dashes == IF purpose.dashes THEN <<Dashes>> ELSE <<>>
      rest == purpose.before \o dashes \o operands \o purpose.after
      minusM == IF purpose.isolated THEN <<Cluster(<<"P", "m">>), Word(<<Plain(purpose.module)>>)>>
                ELSE <<Cluster(<<"B", "m", purpose.module>>)>>
      step(base, args) == [command |-> <<>>, base |-> base, args |-> args]
  IN CASE purpose.tool = "go" -> step("go", <<Word(<<Plain("test")>>)>> \o rest)
       [] purpose.tool = "node" -> step("node", <<Option("test")>> \o rest)
       [] purpose.tool = "pytest" -> step("pytest", rest)
       [] purpose.tool = "python -m" ->
            step("python", <<Cluster(<<"W">>), Word(<<Plain("error")>>)>> \o minusM \o rest)
       [] purpose.tool = "python" -> step("python", rest)
       [] purpose.tool = "sh" ->
            step("sh", <<Cluster(<<"e", "o">>), Word(<<Plain("pipefail")>>)>> \o rest)
       [] purpose.tool = "file" ->
            [step("other", rest) EXCEPT !.command = purpose.targets[1].path]

(* The tests that go runs: those of the packages it is given. *)
GoRuns(targets, file) ==
  /\ Base(file).affix = "_test.go"
  /\ IF targets = {} THEN Dir(file) = <<>>
     ELSE \E t \in targets : \/ t.kind \in {"path", "module"} /\ Dir(file) = t.path
                             \/ t.kind \in {"tree", "module tree"} /\ IsPrefix(t.path, Dir(file))

NodeRuns(targets, file) ==
  IF targets = {} THEN Base(file).affix = ".test."
  ELSE \E t \in targets : \/ t.kind = "path" /\ IsPrefix(t.path, file)
                          \/ t.kind = "glob" /\ Dir(file) = t.path

(* The tests that pytest collects, and every conftest.py above one. *)
Collects(targets, file) ==
  /\ Base(file).affix \in {"_test.py", "test_.py"}
  /\ \/ targets = {}
     \/ \E t \in targets : \/ t.kind = "path" /\ IsPrefix(t.path, file)
                           \/ t.kind = "test" /\ file = t.path
PytestRuns(targets, noconftest, file, files) ==
  \/ Collects(targets, file)
  \/ /\ Base(file) = Conftest /\ ~noconftest
     /\ \E f \in files : Collects(targets, f) /\ IsPrefix(Dir(file), Dir(f))

(* What a step loads by its name: a module of the working directory, or a  *)
(* script.                                                                 *)
Loads(purpose, file) ==
  \/ /\ purpose.tool = "python -m" /\ ~purpose.isolated
     /\ file[1] \in {Name(purpose.module, a) : a \in {NoAffix, ".py", ".so"}}
  \/ purpose.tool \in {"python", "sh", "file"} /\ file = purpose.targets[1].path

Runs(purpose, file, files) ==
  LET targets == Range(purpose.targets)
      noconftest == Option("noconftest") \in Range(purpose.before \o purpose.after)
  IN CASE purpose.tool = "go" -> isTestSource(file) /\ GoRuns(targets, file)
       [] purpose.tool = "node" -> isTestSource(file) /\ NodeRuns(targets, file)
       [] purpose.tool = "pytest" ->
            isTestSource(file) /\ PytestRuns(targets, noconftest, file, files)
       [] purpose.tool = "python -m" ->
            \/ Loads(purpose, file)
            \/ /\ purpose.module = "pytest"
               /\ isTestSource(file) /\ PytestRuns(targets, noconftest, file, files)
       [] purpose.tool \in {"python", "sh", "file"} -> Loads(purpose, file)

(* What git reports of a changed file: the file, or a directory above it   *)
(* that it ignores as a whole.                                             *)
EntryOf(file, collapsed) ==
  IF collapsed = 0 THEN [path |-> file, dir |-> FALSE]
  ELSE [path |-> SubSeq(file, 1, collapsed), dir |-> TRUE]

ReportedBy(purpose, entry) == matchesForStep(Step(purpose), {entry}) # {}

(* A test source that changed and that the step would run is reported when *)
(* git lists it, and a module or a script that the step loads by its name  *)
(* also when git reports only a directory above it: options and their      *)
(* values, "--", clusters and isolation hide nothing (Interceptions:       *)
(* "selection errs wide on purpose").                                      *)
MissesNothing(purpose, file, collapsed, files) ==
  Runs(purpose, file, files) /\ (collapsed = 0 \/ Loads(purpose, file)) =>
    ReportedBy(purpose, EntryOf(file, collapsed))

(* What the guard does not do: the tests in a directory that git ignores   *)
(* as a whole are collected, but the entry "build/" is no test source      *)
(* (testSources).                                                          *)
MissesNoIgnoredTest(purpose, file, collapsed, files) ==
  Runs(purpose, file, files) => ReportedBy(purpose, EntryOf(file, collapsed))

(* The paths that the values of the options look like.                     *)
ValuePaths(purpose) ==
  UNION {argumentPath(a) : a \in Range(purpose.before) \cup Range(purpose.after)}

(* A path that no runner collects or loads.                                *)
Inert(purpose, path) == ~isTestSource(path) /\ path[1].stem # purpose.module

(* A step that names a file which it would run and which the base does not *)
(* hold is refused when the task is created, unless git ignores the file;  *)
(* and no step is refused for a pattern of packages, an operand outside of *)
(* the worktree or an option, nor for an option's value, unless that looks *)
(* like the path of a test, or of the module, that the base does not hold: *)
(* a value counts as a path that the step names (argumentPath), so         *)
(* `pytest --ignore tests/gone_test.py` is refused                         *)
(* (refuseMissingRunners: "the step could never be judged").               *)
RefusesTheUnjudgeable(purpose, file, paths, files) ==
  LET step == Step(purpose)
      named == /\ purpose.tool # "go"
               /\ [kind |-> "path", path |-> file] \in Range(purpose.targets)
      bare == Len(file) = 1 /\ Base(file).affix = NoAffix
      globs == \E t \in Range(purpose.targets) : t.kind = "glob"
      kept == \A v \in ValuePaths(purpose) : v \in paths \/ Inert(purpose, v)
  IN /\ ~globs /\ kept => refuseMissingRunners(step, paths, {}) = {}
     /\ named /\ Runs(purpose, file, files) /\ (~bare \/ purpose.tool = "file") =>
          /\ [path |-> file, dir |-> FALSE] \in refuseMissingRunners(step, paths \ {file}, {})
          /\ kept => refuseMissingRunners(step, paths \ {file}, {file}) = {}

(* What creation does not do: accept every step of which the base holds    *)
(* what it would run; a quoted glob, and an option's value that looks like *)
(* a test, are taken for files that are missing.                           *)
AcceptsTheOrdinary(purpose, paths) == refuseMissingRunners(Step(purpose), paths, {}) = {}

=============================================================================
