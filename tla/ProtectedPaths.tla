--------------------------- MODULE ProtectedPaths --------------------------
(***************************************************************************)
(* Which changed paths a task's protected patterns claim                   *)
(* (verification/protected.go).  A path is what is between its slashes: a  *)
(* sequence of names, a name a stem with an extension; in a pattern the    *)
(* stem "*" matches every stem (with no extension: every name) and the     *)
(* name AnyDepth any number of names.  `?` and classes are runs of one     *)
(* segment like "*".  Before, after and between two slashes is Empty:      *)
(* "/docs" is <<Empty, docs>>, "ci/" is <<ci, Empty>> and the empty string *)
(* <<Empty>>.  The blanks around a pattern, which are dropped, and         *)
(* patterns with a syntax error, which are refused, are left out.          *)
(***************************************************************************)
EXTENDS Integers, Sequences, SequencesExt, FiniteSets

Seg(stem, ext) == [stem |-> stem, ext |-> ext]
NoExt == "none"
AnyDepth == Seg("**", NoExt)
Empty == Seg("empty", NoExt)
Here == Seg(".", NoExt)
Wild(seg) == seg.stem \in {"*", "**"}

(* doublestar.Match, on one segment and on a path; next to "**" an Empty   *)
(* segment at the end of a pattern may match more.                         *)
MatchesSeg(seg, name) ==
  \/ seg = name
  \/ Wild(seg) /\ (seg.ext = NoExt \/ seg.ext = name.ext)

(* The places of a path from which on the pattern's segments, from the     *)
(* i-th on, match the rest of it; only its end matches none of them.       *)
Match(pattern, path) ==
  LET from[i \in 1..(Len(pattern) + 1)] ==
        IF i > Len(pattern) THEN {Len(path) + 1}
        ELSE IF pattern[i] = AnyDepth
        THEN {j \in 1..(Len(path) + 1) : \E k \in from[i + 1] : j <= k}
        ELSE {j \in DOMAIN path : MatchesSeg(pattern[i], path[j]) /\ j + 1 \in from[i + 1]}
  IN 1 \in from[1]

-----------------------------------------------------------------------------
(* normalizePattern drops one trailing "/". *)
normalizePattern(raw) == IF Len(raw) > 1 /\ Last(raw) = Empty THEN Front(raw) ELSE raw

(* What stands for an error. *)
Invalid == {<<Empty>>}

(* NormalizeProtected: one empty pattern refuses the list. *)
NormalizeProtected(patterns) ==
  IF \E raw \in patterns : normalizePattern(raw) = <<Empty>> THEN Invalid
  ELSE {normalizePattern(raw) : raw \in patterns}

probe == Seg("__aidev_protected_probe__", NoExt)

(* magicPlaceholder: a name that the segment matches. *)
magicPlaceholder(seg) == IF Wild(seg) THEN [probe EXCEPT !.ext = seg.ext] ELSE seg

resolveMagic(pattern) == [i \in DOMAIN pattern |-> magicPlaceholder(pattern[i])]

(* Mistake: only the directory that holds the entry is looked at. *)
parentOnly(path) == IF Len(path) > 1 THEN {Front(path)} ELSE {}

ancestors(path) == {SubSeq(path, 1, k) : k \in 1..(Len(path) - 1)}

Anchored(pattern) == Len(pattern) > 1

(* path.Base *)
pathBase(path) == Last(IF Last(path) = Empty THEN Front(path) ELSE path)

matchOne(pattern, subject) ==
  IF Anchored(pattern) THEN Match(pattern, subject)
  ELSE Match(pattern, <<pathBase(subject)>>)

(* The paths that stand for an entry: itself and, of a directory that git  *)
(* did not look into and reports with a "/", what could be in it.          *)
Subjects(pattern, changed) ==
  LET base == changed.path
      concrete == resolveMagic(pattern)
  IN {base} \cup
     (IF ~changed.dir THEN {}
      ELSE {base \o <<Empty>>, base \o <<probe>>, base \o <<probe, probe>>}
           \cup {c \in {concrete} : c # pattern /\ IsPrefix(base, c)})

matchesProtected(pattern, changed) ==
  \E s \in Subjects(pattern, changed) \cup ancestors(changed.path) : matchOne(pattern, s)

(* Violations of the stored patterns, as pairs of a pattern and an entry;  *)
(* a stored pattern is normalized once more, and if nothing is left of it  *)
(* ("//") no change can be judged.                                         *)
Violations(stored, changed) ==
  IF \E p \in stored : normalizePattern(p) = <<Empty>> THEN Invalid
  ELSE {v \in stored \X changed : matchesProtected(normalizePattern(v[1]), v[2])}

-----------------------------------------------------------------------------
(* What a pattern protects: the paths that it names, at any depth when it  *)
(* has no "/", and everything beneath them.                                *)
Protects(pattern, file) ==
  \E k \in DOMAIN file :
    IF Anchored(pattern) THEN Match(pattern, SubSeq(file, 1, k))
    ELSE MatchesSeg(pattern[1], file[k])

(* What a pattern says without its redundant slashes and dots.             *)
Cleaned(pattern) == SelectSeq(pattern, LAMBDA seg : seg \notin {Empty, Here})

(* A pattern that is written as git lists paths.                           *)
Listed(pattern) == \A i \in DOMAIN pattern : pattern[i] \notin {Empty, Here}

(* The pattern spells the directory out and goes on beneath it.            *)
Beneath(pattern, dir) == Len(pattern) > Len(dir) /\ SubSeq(pattern, 1, Len(dir)) = dir

HasWildcard(pattern) == \E i \in DOMAIN pattern : Wild(pattern[i])

(* Of a pattern that is written as git lists paths: a file that changed is *)
(* reported exactly when the pattern protects it, and a directory that git *)
(* reports as one entry when the pattern protects the directory, or spells *)
(* it out and goes on beneath it with a wildcard somewhere (Violations:    *)
(* "matching prefers a false refusal to a missed touch").                  *)
ClaimsTouched(patterns, changed) ==
  LET stored == NormalizeProtected(patterns)
      violations == Violations(stored, changed)
  IN stored # Invalid /\ violations # Invalid =>
       \A p \in stored, c \in changed :
         LET pattern == normalizePattern(p)
         IN Listed(pattern) =>
              /\ ~c.dir => (<<p, c>> \in violations <=> Protects(pattern, c.path))
              /\ c.dir /\ (Protects(pattern, c.path)
                             \/ (Beneath(pattern, c.path) /\ HasWildcard(pattern)))
                   => <<p, c>> \in violations

(* What the guard does not do: a pattern with a redundant "/" or "./" is   *)
(* accepted, and "/docs", "./docs" and "ci///" claim no file.              *)
ClaimsWhatItAccepts(patterns, changed) ==
  LET stored == NormalizeProtected(patterns)
  IN \A p \in stored, c \in changed :
       ~c.dir /\ (\E k \in DOMAIN c.path : Match(Cleaned(p), SubSeq(c.path, 1, k)))
         => <<p, c>> \in Violations(stored, changed)

(* Nor this: a pattern without a wildcard is not looked for in a directory *)
(* that git reports as one entry (`concrete != pattern`).                  *)
ClaimsWhatItNames(patterns, changed) ==
  LET stored == NormalizeProtected(patterns)
  IN \A p \in stored, c \in changed :
       c.dir /\ Beneath(normalizePattern(p), c.path) => <<p, c>> \in Violations(stored, changed)

=============================================================================
