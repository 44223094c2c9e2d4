--------------------------- MODULE MCTaskCreation ---------------------------
(***************************************************************************)
(* Three processes that migrate, of a new build, an older one and one with *)
(* an edited file, and two that create tasks.                              *)
(***************************************************************************)
EXTENDS TaskCreation, TLC

CONSTANTS m1, m2, m3, c1, c2, main, topic

ThreeBuilds == m1 :> <<"a", "b">> @@ m2 :> <<"a">> @@ m3 :> <<"x", "b">>
CreatorSymmetry == Permutations({c1, c2})
NewBuild == <<"a", "b">>

(* A first commit, one with a runner, one with a submodule. *)
ShortHistory == << [gitlink |-> FALSE, runner |-> FALSE],
                   [gitlink |-> FALSE, runner |-> TRUE],
                   [gitlink |-> TRUE, runner |-> TRUE] >>

Ask == [add |-> FALSE, registered |-> FALSE, ref |-> None, mode |-> None,
        expectFail |-> FALSE, needsRunner |-> FALSE]
ManyRequests ==
  { [Ask EXCEPT !.add = TRUE],
    Ask,
    [Ask EXCEPT !.registered = TRUE, !.mode = "in_place", !.expectFail = TRUE],
    [Ask EXCEPT !.ref = topic, !.needsRunner = TRUE] }

=============================================================================
