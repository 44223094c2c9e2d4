---------------------------- MODULE MCAlgorithms ----------------------------
(***************************************************************************)
(* The pure algorithms, each on every input of a small set: a behaviour    *)
(* picks an algorithm and an input for it.                                 *)
(***************************************************************************)
EXTENDS TestSelection, LogPages

CONSTANTS
  Kinds,     \* the kinds of targets that a step is written with
  Valued,    \* the options with a value that a step is written with
  MinDepth,  \* the names in the path of a go package, if it has any
  Stems,     \* the stems of the segments of a protected pattern
  NameStems, \* the stems of the names in a changed path
  Exts,      \* the extensions of both
  MaxDepth,  \* the segments of a pattern, and the names in a changed path
  MaxText,   \* the bytes of a long section
  MaxShort   \* the bytes of a short one

(* "*" and "**" stand for wildcards, which a name has none of, "empty" for *)
(* what is between two slashes and "." for the directory itself.           *)
ASSUME MCAlgorithmsAssumption ==
  /\ NameStems \cap {"*", "**", "empty", "."} = {}
  /\ MaxDepth \in Nat /\ MaxText \in Nat /\ MaxShort \in Nat

VARIABLE input

P == INSTANCE ProtectedPaths

Nothing == [about |-> "nothing"]

cli == Plain("cli")
tests == Plain("tests")
Dirs == {<<>>, <<cli>>, <<tests>>, <<tests, cli>>, <<cli, tests>>, <<Plain("testdata")>>}
Names == {Name("x", a) : a \in {NoAffix, ".py", "_test.go", "test_.py", ".test."}}
         \cup {Conftest, Makefile, Name("pytest", ".py")}
ChangedFiles == {Append(d, n) : d \in Dirs, n \in Names}

Tools == {"go", "node", "pytest", "python -m", "python", "sh", "file"}
KindsOf == [t \in Tools |->
  Kinds \cap (CASE t = "go" -> {"path", "tree", "module", "module tree"}
                [] t = "node" -> {"path", "glob", "outside"}
                [] t \in {"pytest", "python -m"} -> {"path", "test", "outside"}
                [] t \in {"python", "sh", "file"} -> {"path"})]

Targets(tool) ==
  {[kind |-> k, path |-> p] : k \in KindsOf[tool], p \in Dirs \cup ChangedFiles}
Fits(tool, t) ==
  CASE tool = "go" -> t.path \in Dirs /\ (t.kind = "path" => Len(t.path) \in {0} \cup MinDepth..2)
    [] tool \in {"node", "pytest", "python -m"} ->
         /\ t.kind = "test" => t.path \in ChangedFiles
         /\ t.kind = "glob" => t.path \in Dirs
         /\ t.kind = "outside" => t.path = <<>>
    [] tool \in {"python", "sh", "file"} -> t.path \in ChangedFiles
Lists(tool) ==
  (IF tool \in {"python", "sh", "file"} THEN {} ELSE {<<>>})
  \cup {<<t>> : t \in {u \in Targets(tool) : Fits(tool, u)}}

(* A bare word, an output file, and a test that there is none of.          *)
Gone(tool) ==
  Name("gone", CASE tool = "go" -> "_test.go" [] tool = "node" -> ".test." [] OTHER -> "test_.py")
Values(tool) == {<<tests>>, <<Name("cover", ".out")>>, <<tests, Gone(tool)>>}

Options(tool) ==
  {<<>>, <<Option("v")>>}
  \cup (CASE tool = "go" -> {<<Option("run"), Word(v)>> : v \in Values(tool)}
                            \cup {<<Option("count"), Word(<<cli>>)>>}
          [] tool = "node" -> {<<Option("import"), Word(v)>> : v \in Values(tool)}
          [] tool = "pytest" \/ tool = "python -m" ->
               {<<Option("noconftest")>>, <<Cluster(<<"q", "k">>), Word(<<cli>>)>>,
                <<Cluster(<<"k", "x">>)>>}
               \cup {<<Option("ignore"), Word(v)>> : v \in Values(tool)}
          [] OTHER -> {})
  \cup {<<Option(o), Word(<<cli>>)>> : o \in Valued}
  \cup {<<Glued(o)>> : o \in Valued}

PickStep ==
  /\ input = Nothing
  /\ \E tool \in Tools :
       \E targets \in Lists(tool), before, after \in Options(tool), dashes, isolated \in BOOLEAN,
          file \in ChangedFiles, module \in {"pytest", "x"} :
         /\ dashes => after = <<>>
         /\ before = <<>> \/ after = <<>>
         /\ tool # "python -m" => ~isolated /\ module = "x"
         /\ tool \in {"python", "sh", "file"} => before \o after = <<>>
         /\ \E collapsed \in 0..(Len(file) - 1) :
              input' = [about |-> "step", file |-> file, collapsed |-> collapsed,
                purpose |-> [tool |-> tool, targets |-> targets, before |-> before,
                             after |-> after, dashes |-> dashes, isolated |-> isolated,
                             module |-> module]]

Segments == {P!Seg(s, e) : s \in Stems, e \in Exts} \cup {P!AnyDepth, P!Empty, P!Here}
SegNames == {P!Seg(s, e) : s \in NameStems, e \in Exts}
UpTo(n, S) == UNION {[1..k -> S] : k \in 1..n}

PickProtected ==
  /\ input = Nothing
  /\ \E pattern \in UpTo(MaxDepth, Segments), path \in UpTo(MaxDepth, SegNames),
        dir \in BOOLEAN :
       input' = [about |-> "protected", patterns |-> {pattern},
                 changed |-> {[path |-> path, dir |-> dir]}]

(* The sections of up to n bytes; a character has up to four.              *)
Texts(n) == {s \in UpTo(n, BOOLEAN) \cup {<<>>} : IsText(s)}

PickPages ==
  /\ input = Nothing
  /\ \E long \in Texts(MaxText), short \in Texts(MaxShort), max \in -1..(MaxLogBytes + 1) :
       input' = [about |-> "pages", maxBytes |-> max,
                 texts |-> [n \in allSections |-> IF n = "diff" THEN long ELSE short]]

AlgorithmsInit == input = Nothing

AlgorithmsNext == PickStep \/ PickProtected \/ PickPages

AlgorithmsSpec == AlgorithmsInit /\ [][AlgorithmsNext]_input

(* No changed test source that git lists, and no changed module or script, *)
(* listed or in a directory that git ignores as a whole, goes unreported   *)
(* when a step would run it (Interceptions).                               *)
GuardMissesNothing ==
  input.about = "step" =>
    MissesNothing(input.purpose, input.file, input.collapsed, ChangedFiles)

(* The steps that are refused when a task is created are those that could  *)
(* never be judged (refuseMissingRunners).                                 *)
CreationRefusesTheUnjudgeable ==
  input.about = "step" =>
    RefusesTheUnjudgeable(input.purpose, input.file, ChangedFiles \cup Dirs, ChangedFiles)

(* Not so: nor do the tests in a directory that git ignores as a whole     *)
(* (testSources).                                                          *)
IgnoredTestsReported ==
  input.about = "step" =>
    MissesNoIgnoredTest(input.purpose, input.file, input.collapsed, ChangedFiles)

(* Not so: a task is not refused for a step whose files the base commit    *)
(* holds (refuseMissingRunners).                                           *)
OrdinaryStepsAccepted ==
  input.about = "step" => AcceptsTheOrdinary(input.purpose, ChangedFiles \cup Dirs)

(* What a task protects is reported when it is touched (Violations).       *)
ProtectedMissesNothing ==
  input.about = "protected" => P!ClaimsTouched(input.patterns, input.changed)

(* Not so: an accepted pattern protects what it says ("/docs").            *)
AcceptedPatternsProtect ==
  input.about = "protected" => P!ClaimsWhatItAccepts(input.patterns, input.changed)

(* Not so: what a pattern names is reported with the directory it is in.   *)
NamedBeneathReported ==
  input.about = "protected" => P!ClaimsWhatItNames(input.patterns, input.changed)

(* The pages of a log fit together (window, nextOffset).                   *)
PagesFitTogether ==
  input.about = "pages" =>
    /\ PagesFit(input.texts, {}, input.maxBytes)
    /\ PagesFit(input.texts, {"diff"}, input.maxBytes)

=============================================================================
