--------------------------- MODULE BackendProofs ----------------------------
(***************************************************************************)
(* The run of a backend, in its two halves.  ProcExec: the command, for    *)
(* any number of helpers, any output limit and any writes.  AgentRun: what *)
(* is made of the stream the command writes, for streams of any number of  *)
(* lines of any length, and a scanner of any size.                         *)
(***************************************************************************)
EXTENDS AgentRun, ProcExec, FiniteSetTheorems, TLAPS

ProcRecord == [state : {"unborn", "running", "gone"}, group : BOOLEAN,
               tagged : BOOLEAN, pipe : BOOLEAN, deaf : BOOLEAN]

(* Killing changes the processes that are killed, and leaves a function.    *)
LEMMA KilledProcs ==
  ASSUME NEW S, proc \in [Procs -> ProcRecord]
  PROVE  /\ Killed(S) \in [Procs -> ProcRecord]
         /\ \A p \in Procs : p \in S => Killed(S)[p].state = "gone"
         /\ \A p \in Procs : p \notin S => Killed(S)[p] = proc[p]
<1>1. [Unborn EXCEPT !.state = "gone"] \in ProcRecord
  BY DEF Unborn, ProcRecord
<1>2. [Unborn EXCEPT !.state = "gone"].state = "gone"
  BY DEF Unborn
<1> QED
  BY <1>1, <1>2 DEF Killed

-----------------------------------------------------------------------------
(* The buffer: the first bytes of the stream, and the newest of the rest.   *)

(* The k numbers after a.                                                   *)
Stretch(a, k) == [i \in 1..k |-> a + i]

HeadLen(n) == IF n <= HeadRoom THEN n ELSE HeadRoom
TailLen(n) == IF n - HeadLen(n) <= TailRoom THEN n - HeadLen(n) ELSE TailRoom

Captured(n) == [head |-> Stretch(0, HeadLen(n)),
                tail |-> Stretch(n - TailLen(n), TailLen(n)),
                total |-> n]

BufferInv == buffer.total \in Nat /\ buffer = Captured(buffer.total)

(* The two halves of the limit add up to it, whether or not it is odd.      *)
LEMMA Rooms ==
  /\ HeadRoom \in Nat /\ TailRoom \in Nat
  /\ HeadRoom + TailRoom = Limit
  /\ HeadRoom <= TailRoom
BY ProcExecAssumption DEF HeadRoom, TailRoom

(* How much of a stream of n bytes either half holds.                       *)
LEMMA Lengths ==
  ASSUME NEW n \in Nat
  PROVE  /\ HeadLen(n) \in Nat /\ HeadLen(n) <= n /\ HeadLen(n) <= HeadRoom
         /\ TailLen(n) \in Nat /\ TailLen(n) <= TailRoom
         /\ HeadLen(n) + TailLen(n) <= n
         /\ n <= Limit => HeadLen(n) + TailLen(n) = n
         /\ n > Limit => HeadLen(n) = HeadRoom /\ TailLen(n) = TailRoom
BY Rooms DEF HeadLen, TailLen

(* A stretch is a sequence.                                                 *)
LEMMA StretchIsSeq ==
  ASSUME NEW k \in Nat, NEW a \in Nat
  PROVE  /\ Stretch(a, k) \in Seq(Nat)
         /\ Len(Stretch(a, k)) = k
         /\ \A i \in 1..k : Stretch(a, k)[i] = a + i
BY DEF Stretch

(* Two stretches one after the other, and a part of a stretch, under names   *)
(* of their own: the lemmas below say what they are once and for all.        *)
Join(a, k, b, m) == Stretch(a, k) \o Stretch(b, m)
Part(a, k, x, y) == SubSeq(Stretch(a, k), x, y)

(* Stretches that follow each other are one; an empty one may start anywhere. *)
LEMMA StretchJoin ==
  ASSUME NEW a \in Nat, NEW k \in Nat, NEW b \in Nat, NEW m \in Nat,
         NEW c \in Nat, k = 0 \/ a = c, m = 0 \/ b = c + k
  PROVE  Join(a, k, b, m) = Stretch(c, k + m)
<1> USE DEF Stretch, Join
<1>1. /\ Stretch(a, k) \in Seq(Nat) /\ Len(Stretch(a, k)) = k
      /\ Stretch(b, m) \in Seq(Nat) /\ Len(Stretch(b, m)) = m
      /\ Stretch(c, k + m) \in Seq(Nat) /\ Len(Stretch(c, k + m)) = k + m
  OBVIOUS
<1>2. /\ Join(a, k, b, m) \in Seq(Nat)
      /\ Len(Join(a, k, b, m)) = k + m
  BY <1>1
<1>3. ASSUME NEW i \in 1..(k + m)
      PROVE  Join(a, k, b, m)[i] = Stretch(c, k + m)[i]
  <2>1. CASE i <= k
    BY <1>1, <2>1
  <2>2. CASE i > k
    BY <1>1, <2>2
  <2> QED
    BY <2>1, <2>2
<1> QED
  BY <1>1, <1>2, <1>3, SMTT(30)

(* A part of a stretch is a stretch.                                        *)
LEMMA StretchCut ==
  ASSUME NEW a \in Nat, NEW k \in Nat, NEW x \in Nat, NEW y \in Nat,
         1 <= x, x <= y + 1, y <= k
  PROVE  Part(a, k, x, y) = Stretch(a + x - 1, y - x + 1)
<1> USE DEF Stretch, Part
<1>0. PICK b \in Nat, l \in Nat : b = a + x - 1 /\ l = y - x + 1
  OBVIOUS
<1>1. /\ Stretch(a, k) \in Seq(Nat) /\ Len(Stretch(a, k)) = k
      /\ Stretch(b, l) \in Seq(Nat) /\ Len(Stretch(b, l)) = l
  OBVIOUS
<1>2. Part(a, k, x, y) \in Seq(Nat) /\ Len(Part(a, k, x, y)) = l
  BY <1>0, <1>1
<1>3. ASSUME NEW i \in 1..l
      PROVE  Part(a, k, x, y)[i] = Stretch(b, l)[i]
  BY <1>0, <1>1
<1> HIDE DEF Stretch, Part
<1>4. Part(a, k, x, y) = Stretch(b, l)
  BY <1>1, <1>2, <1>3
<1> QED
  BY <1>0, <1>4

(* What a write of n bytes gives to the head of a buffer that holds o.      *)
HeadShare(o, n) == IF HeadRoom - HeadLen(o) <= 0 THEN 0
                   ELSE IF n <= HeadRoom - HeadLen(o) THEN n
                   ELSE HeadRoom - HeadLen(o)

(* What such a write makes of the lengths of both halves.                   *)
LEMMA Shares ==
  ASSUME NEW o \in Nat, NEW n \in Nat
  PROVE  /\ HeadShare(o, n) \in Nat /\ HeadShare(o, n) <= n
         /\ HeadLen(o) + HeadShare(o, n) = HeadLen(o + n)
         /\ HeadShare(o, n) = 0 \/ (HeadLen(o) = o /\ TailLen(o) = 0)
         /\ TailLen(o + n) = IF TailLen(o) + (n - HeadShare(o, n)) <= TailRoom
                             THEN TailLen(o) + (n - HeadShare(o, n)) ELSE TailRoom
<1> USE DEF HeadShare
<1>1. CASE o <= HeadRoom
  <2>1. HeadLen(o) = o /\ TailLen(o) = 0
    BY <1>1, Rooms DEF HeadLen, TailLen
  <2>2. CASE o + n <= HeadRoom
    BY <1>1, <2>1, <2>2, Rooms DEF HeadLen, TailLen
  <2>3. CASE o + n > HeadRoom
    <3>1. HeadShare(o, n) = HeadRoom - o
      BY <1>1, <2>1, <2>3, Rooms
    <3> QED
      BY <1>1, <2>1, <2>3, <3>1, Rooms DEF HeadLen, TailLen
  <2> QED
    BY <2>2, <2>3, Rooms
<1>2. CASE o > HeadRoom
  <2>1. HeadLen(o) = HeadRoom /\ HeadLen(o + n) = HeadRoom /\ HeadShare(o, n) = 0
    BY <1>2, Rooms DEF HeadLen
  <2> QED
    BY <1>2, <2>1, Rooms DEF TailLen
<1> QED
  BY <1>1, <1>2, Rooms

(* The newest bytes of a stretch are a stretch with the same end.            *)
LEMMA NewestOfStretch ==
  ASSUME NEW a \in Nat, NEW k \in Nat, NEW r \in Nat
  PROVE  Newest(Stretch(a, k), r) =
           IF k <= r THEN Stretch(a, k) ELSE Stretch(a + (k - r), r)
<1>1. Len(Stretch(a, k)) = k
  BY StretchIsSeq
<1>2. CASE k > r
  <2>1. Part(a, k, k - r + 1, k) = Stretch(a + (k - r), r)
    BY <1>2, StretchCut
  <2> QED
    BY <1>1, <1>2, <2>1 DEF Newest, Part
<1> QED
  BY <1>1, <1>2 DEF Newest

(* Write keeps the first bytes of the stream and the newest of the rest,    *)
(* whatever the size of the write and wherever it straddles the halves.     *)
LEMMA WriteKeeps ==
  ASSUME NEW o \in Nat, NEW n \in Nat
  PROVE  Write(Captured(o), Stretch(o, n)) = Captured(o + n)
<1>1. PICK taken : taken = HeadShare(o, n)
  OBVIOUS
<1>2. /\ taken \in Nat /\ taken <= n /\ HeadLen(o) + taken = HeadLen(o + n)
      /\ taken = 0 \/ (HeadLen(o) = o /\ TailLen(o) = 0)
      /\ TailLen(o + n) = IF TailLen(o) + (n - taken) <= TailRoom
                          THEN TailLen(o) + (n - taken) ELSE TailRoom
  BY <1>1, Shares
<1>3. PICK h \in Nat, t \in Nat : h = HeadLen(o) /\ t = TailLen(o) /\ t <= o
  BY Lengths
<1>4. Len(Stretch(0, h)) = h /\ Len(Stretch(o, n)) = n
  BY StretchIsSeq
<1>5. Write(Captured(o), Stretch(o, n)) =
        [head  |-> Stretch(0, h) \o SubSeq(Stretch(o, n), 1, taken),
         tail  |-> Newest(Stretch(o - t, t) \o SubSeq(Stretch(o, n), taken + 1, n),
                          TailRoom),
         total |-> o + n]
  BY <1>1, <1>3, <1>4 DEF Write, Captured, HeadShare
<1>6. /\ Stretch(0, h) \o SubSeq(Stretch(o, n), 1, taken) = Stretch(0, h + taken)
      /\ Stretch(o - t, t) \o SubSeq(Stretch(o, n), taken + 1, n)
           = Stretch((o - t) + taken, t + (n - taken))
  <2>1. Part(o, n, 1, taken) = Stretch(o, taken)
    BY <1>2, StretchCut
  <2>2. Join(0, h, o, taken) = Stretch(0, h + taken)
    BY <1>2, <1>3, StretchJoin
  <2>3. Part(o, n, taken + 1, n) = Stretch(o + taken, n - taken)
    BY <1>2, StretchCut
  <2>4. Join(o - t, t, o + taken, n - taken)
          = Stretch((o - t) + taken, t + (n - taken))
    <3>1. CASE taken = 0
      <4>1. o - t \in Nat
        BY <1>3
      <4>2. Join(o - t, t, o, n) = Stretch(o - t, t + n)
        BY <4>1, <1>3, StretchJoin, SMTT(30)
      <4> QED
        BY <3>1, <4>1, <4>2
    <3>2. CASE t = 0
      <4>1. o \in Nat /\ o + taken \in Nat /\ n - taken \in Nat
        BY <1>2
      <4>2. Join(o, 0, o + taken, n - taken) = Stretch(o + taken, 0 + (n - taken))
        BY <4>1, StretchJoin
      <4> QED
        BY <3>2, <4>1, <4>2
    <3> QED
      BY <3>1, <3>2, <1>2, <1>3
  <2> QED
    BY <2>1, <2>2, <2>3, <2>4 DEF Part, Join
<1>7. Newest(Stretch((o - t) + taken, t + (n - taken)), TailRoom)
        = Stretch((o + n) - TailLen(o + n), TailLen(o + n))
  <2>1. (o - t) + taken \in Nat /\ t + (n - taken) \in Nat
    BY <1>2, <1>3
  <2>2. Newest(Stretch((o - t) + taken, t + (n - taken)), TailRoom) =
          IF t + (n - taken) <= TailRoom
          THEN Stretch((o - t) + taken, t + (n - taken))
          ELSE Stretch(((o - t) + taken) + ((t + (n - taken)) - TailRoom), TailRoom)
    BY <2>1, Rooms, NewestOfStretch
  <2>3. /\ (o - t) + taken = (o + n) - (t + (n - taken))
        /\ ((o - t) + taken) + ((t + (n - taken)) - TailRoom) = (o + n) - TailRoom
    BY <1>2, <1>3, Rooms
  <2> QED
    BY <2>2, <2>3, <1>2, <1>3
<1> QED
  BY <1>2, <1>3, <1>5, <1>6, <1>7 DEF Captured

(* What the buffer holds of a stream of n bytes is its head and its newest   *)
(* bytes, all of it up to the limit.                                         *)
LEMMA BufferIsHeadAndTail == BufferInv => CaptureIsHeadAndTail
<1> SUFFICES ASSUME BufferInv PROVE CaptureIsHeadAndTail
  OBVIOUS
<1>1. PICK n \in Nat : n = buffer.total /\ buffer = Captured(n)
  BY DEF BufferInv
<1>2. PICK h \in Nat, t \in Nat :
        /\ h = HeadLen(n) /\ t = TailLen(n) /\ h + t <= n
        /\ n <= Limit => h + t = n
        /\ n > Limit => h = HeadRoom /\ t = TailRoom
  BY Lengths
<1>3. /\ buffer.head = Stretch(0, h) /\ buffer.tail = Stretch(n - t, t)
      /\ Len(buffer.head) = h /\ Len(buffer.tail) = t
  <2>1. n - t \in Nat
    BY <1>2
  <2> QED
    BY <1>1, <1>2, <2>1, StretchIsSeq DEF Captured
<1>4. [i \in 1..buffer.total |-> i] = Stretch(0, n)
  BY <1>1 DEF Stretch
<1>5. CASE n <= Limit
  <2>1. n - t \in Nat /\ 0 \in Nat /\ n - t = 0 + h /\ h + t = n
    BY <1>2, <1>5
  <2>2. Join(0, h, n - t, t) = Stretch(0, h + t)
    BY <2>1, StretchJoin
  <2>3. buffer.head \o buffer.tail = Stretch(0, n)
    BY <1>3, <2>1, <2>2 DEF Join
  <2>4. ~Truncated(buffer)
    BY <1>1, <1>2, <1>3, <1>5 DEF Truncated
  <2> QED
    BY <1>1, <1>4, <1>5, <2>3, <2>4 DEF CaptureIsHeadAndTail
<1>6. CASE n > Limit
  <2>1. h = HeadRoom /\ t = TailRoom /\ h + t = Limit /\ Limit \in Nat
    BY <1>2, <1>6, Rooms, ProcExecAssumption
  <2>2. Part(0, n, 1, h) = Stretch(0, h)
    BY <1>2, StretchCut
  <2>3. Part(0, n, n - t + 1, n) = Stretch(n - t, t)
    <3>1. /\ n - t + 1 \in Nat /\ 0 \in Nat /\ 1 <= n - t + 1 /\ n - t + 1 <= n + 1
          /\ 0 + (n - t + 1) - 1 = n - t /\ n - (n - t + 1) + 1 = t
      BY <1>2
    <3>2. Part(0, n, n - t + 1, n) = Stretch(0 + (n - t + 1) - 1, n - (n - t + 1) + 1)
      BY <3>1, StretchCut
    <3> QED
      BY <3>1, <3>2
  <2>4. Limit - HeadRoom = t
    BY <2>1
  <2>5. Truncated(buffer) /\ Dropped(buffer) = n - Limit
    BY <1>1, <1>2, <1>3, <1>6, <2>1 DEF Truncated, Dropped
  <2>6. /\ buffer.head = SubSeq([i \in 1..buffer.total |-> i], 1, HeadRoom)
        /\ buffer.tail = SubSeq([i \in 1..buffer.total |-> i],
                                buffer.total - (Limit - HeadRoom) + 1, buffer.total)
    <3> HIDE DEF Stretch
    <3> QED
      BY <1>1, <1>3, <1>4, <2>1, <2>2, <2>3, <2>4 DEF Part
  <2>7. ~(buffer.total <= Limit)
    BY <1>1, <1>6, <2>1
  <2> QED
    BY <1>1, <2>5, <2>6, <2>7, Zenon DEF CaptureIsHeadAndTail
<1> QED
  BY <1>5, <1>6, ProcExecAssumption

(* The captured output has the type of a boundedBuffer.                      *)
LEMMA CapturedType ==
  ASSUME NEW n \in Nat
  PROVE  /\ Captured(n) \in [head : Seq(Nat), tail : Seq(Nat), total : Nat]
         /\ Captured(n).total = n
<1>1. HeadLen(n) \in Nat /\ TailLen(n) \in Nat /\ n - TailLen(n) \in Nat
  BY Lengths
<1>2. Stretch(0, HeadLen(n)) \in Seq(Nat) /\ Stretch(n - TailLen(n), TailLen(n)) \in Seq(Nat)
  BY <1>1, StretchIsSeq
<1> QED
  BY <1>2 DEF Captured

(* A buffer nobody wrote to.                                                 *)
LEMMA EmptyIsCaptured == EmptyBuffer = Captured(0)
<1>1. HeadLen(0) = 0 /\ TailLen(0) = 0
  <2>1. 0 \in Nat
    OBVIOUS
  <2> QED
    BY <2>1, Lengths
<1>2. Stretch(0, 0) = << >>
  <2>1. Stretch(0, 0) \in Seq(Nat) /\ Len(Stretch(0, 0)) = 0
    BY StretchIsSeq
  <2> QED
    BY <2>1
<1> QED
  BY <1>1, <1>2 DEF EmptyBuffer, Captured

-----------------------------------------------------------------------------
(* The inductive invariant.                                                  *)

(* Nothing runs before Start.                                                *)
NothingYet == pc \in {"validate", "start"} =>
                /\ \A p \in Procs : ~Alive(p)
                /\ exit = "none"

(* While /proc is scanned, every process that carries the tag is still to be *)
(* read, was found, or was started after the listing.                        *)
ScanMissesOnlyLate ==
  scanning => \A p \in Procs : Alive(p) /\ proc[p].tagged => p \in unread \cup seen \cup late

(* A scan that decides whether anybody is left begins when the group is      *)
(* gone, and a group that is gone does not come back.                        *)
GroupGone == scanning /\ pc \in {"probe", "reap"} => \A p \in Procs : Alive(p) => ~proc[p].group

(* SIGKILL is sent after a scan.                                             *)
KillsAfterScan == pc = "kill" => scanning

(* Whoever scans waits for the answer, and cmd.Cancel runs before the child  *)
(* is reaped.                                                                *)
ScanInProgress ==
  /\ scanning => \/ pc = "wait" /\ watch = "cancelling"
                 \/ pc \in {"probe", "terminate", "reap", "kill"}
  /\ watch = "cancelling" => pc = "wait"

(* Once the group was killed or found empty, what is alive has left the      *)
(* group, and carries no tag or was started after the last listing.          *)
OnlyLateSurvives ==
  pc \in {"classify", "done"} =>
    \A p \in Procs : Alive(p) => ~proc[p].group /\ (proc[p].tagged => p \in late)

(* Run's own SIGTERM is the answer to a context that is done.                *)
TerminatedForAReason == watch \in {"cancelling", "terminated"} => RunCtxDone

(* Run answers with what the contexts and the exit say, which do not change  *)
(* any more.                                                                 *)
OutcomeIsVerdict ==
  pc = "done" => \/ outcome = "START_FAILED" /\ exit # "zero"
                 \/ outcome = Verdict

IInv == /\ TypeOK
        /\ NothingYet
        /\ ScanMissesOnlyLate
        /\ GroupGone
        /\ KillsAfterScan
        /\ ScanInProgress
        /\ OnlyLateSurvives
        /\ TerminatedForAReason
        /\ OutcomeIsVerdict
        /\ BufferInv

(* The invariant holds when Run is called.                                   *)
LEMMA InitInv == Init => IInv
<1> SUFFICES ASSUME Init PROVE IInv
  OBVIOUS
<1>1. TypeOK
  <2>1. buffer \in [head : Seq(Nat), tail : Seq(Nat), total : Nat]
    BY EmptyIsCaptured, CapturedType DEF Init
  <2> QED
    BY <2>1 DEF Init, TypeOK, Unborn, Outcomes
<1>2. BufferInv
  BY EmptyIsCaptured, CapturedType DEF Init, BufferInv
<1>3. /\ NothingYet /\ ScanMissesOnlyLate /\ GroupGone /\ KillsAfterScan /\ ScanInProgress
      /\ OnlyLateSurvives
  BY DEF Init, NothingYet, ScanMissesOnlyLate, GroupGone, KillsAfterScan, ScanInProgress,
     OnlyLateSurvives, Alive, Unborn
<1>4. TerminatedForAReason /\ OutcomeIsVerdict
  BY DEF Init, TerminatedForAReason, OutcomeIsVerdict
<1> QED
  BY <1>1, <1>2, <1>3, <1>4 DEF IInv

(* What a step may do to the buffer: only Output writes.                     *)
LEMMA BufferStep ==
  ASSUME IInv, [Next]_vars
  PROVE  BufferInv' /\ buffer' \in [head : Seq(Nat), tail : Seq(Nat), total : Nat]
<1>1. buffer.total \in Nat /\ buffer = Captured(buffer.total)
  BY DEF IInv, BufferInv
<1>2. CASE \E p \in Procs, n \in 1..MaxBytes : Output(p, n)
  <2>1. PICK n \in 1..MaxBytes :
          buffer' = Write(buffer, [i \in 1..n |-> buffer.total + i])
    BY <1>2 DEF Output
  <2>2. n \in Nat /\ buffer.total + n \in Nat
    BY <1>1, ProcExecAssumption
  <2>3. buffer' = Write(Captured(buffer.total), Stretch(buffer.total, n))
    BY <1>1, <2>1 DEF Stretch
  <2>4. buffer' = Captured(buffer.total + n)
    BY <1>1, <2>2, <2>3, WriteKeeps
  <2> QED
    BY <2>2, <2>4, CapturedType DEF BufferInv
<1>3. CASE UNCHANGED buffer
  BY <1>1, <1>3 DEF IInv, BufferInv, TypeOK
<1>4. UNCHANGED buffer \/ \E p \in Procs, n \in 1..MaxBytes : Output(p, n)
  BY DEF Next, Run, Environment, vars, Validate, StartFails, Start, CancelFires,
     CancelTerminates, ReadEnviron, DelayKillsChild, Reaped, Drained, Look, Probe,
     Terminate, Poll, Kill, Classify, Spawn, Exit, CallerCancels, Timeout, GraceEnds
<1> QED
  BY <1>2, <1>3, <1>4

(* The rest of the invariant, which does not speak of the buffer.            *)
ProcInv == /\ NothingYet
           /\ ScanMissesOnlyLate
           /\ GroupGone
           /\ KillsAfterScan
           /\ ScanInProgress
           /\ OnlyLateSurvives
           /\ TerminatedForAReason
           /\ OutcomeIsVerdict

CoreTypes ==
  /\ pc \in {"validate", "start", "wait", "drain", "probe", "terminate", "reap", "kill",
             "classify", "done"}
  /\ follow \in BOOLEAN /\ cancelled \in BOOLEAN /\ expired \in BOOLEAN
  /\ gaveUp \in BOOLEAN
  /\ proc \in [Procs -> ProcRecord]
  /\ exit \in {"none", "zero", "other"}
  /\ watch \in {"off", "watching", "cancelling", "terminated"}
  /\ grace \in {"none", "running", "over"}
  /\ scanning \in BOOLEAN
  /\ unread \in SUBSET Procs /\ seen \in SUBSET Procs /\ late \in SUBSET Helpers
  /\ outcome \in Outcomes

(* The type invariant is the buffer's type and the types of the rest.        *)
LEMMA TypeParts ==
  TypeOK <=> CoreTypes /\ buffer \in [head : Seq(Nat), tail : Seq(Nat), total : Nat]
BY DEF TypeOK, CoreTypes, ProcRecord

(* Verdict is an outcome.                                                    *)
LEMMA VerdictType == Verdict \in Outcomes
BY DEF Verdict, Outcomes, RunCtxDone

(* Every step keeps the types.                                               *)
LEMMA TypeStep ==
  ASSUME CoreTypes, [Next]_vars
  PROVE  CoreTypes'
<1> USE DEF CoreTypes, looking
<1>1. CASE Validate
  BY <1>1 DEF Validate, Outcomes
<1>2. CASE StartFails
  BY <1>2 DEF StartFails, Outcomes
<1>3. CASE Start
  BY <1>3 DEF Start, ProcRecord, Procs
<1>4. ASSUME NEW p \in Procs, NEW h \in Helpers, Spawn(p, h)
      PROVE  CoreTypes'
  <2>1. PICK stays \in BOOLEAN, inherits \in BOOLEAN, shares \in BOOLEAN, deaf \in BOOLEAN :
          proc' = [proc EXCEPT ![h] =
                     [state |-> "running", group |-> proc[p].group /\ stays,
                      tagged |-> proc[p].tagged /\ inherits,
                      pipe |-> proc[p].pipe /\ shares, deaf |-> deaf]]
    BY <1>4 DEF Spawn
  <2>2. proc' \in [Procs -> ProcRecord]
    <3>1. /\ (proc[p].group /\ stays) \in BOOLEAN
          /\ (proc[p].tagged /\ inherits) \in BOOLEAN
          /\ (proc[p].pipe /\ shares) \in BOOLEAN
      BY Zenon
    <3>2. [state |-> "running", group |-> proc[p].group /\ stays,
           tagged |-> proc[p].tagged /\ inherits,
           pipe |-> proc[p].pipe /\ shares, deaf |-> deaf] \in ProcRecord
      BY <3>1, Zenon DEF ProcRecord
    <3> QED
      BY <2>1, <3>2
  <2>3. late' \in SUBSET Helpers
    BY <1>4 DEF Spawn
  <2> QED
    BY <1>4, <2>2, <2>3 DEF Spawn
<1>5. ASSUME NEW p \in Procs, NEW n \in 1..MaxBytes, Output(p, n)
      PROVE  CoreTypes'
  BY <1>5 DEF Output
<1>6. ASSUME NEW p \in Procs, Exit(p)
      PROVE  CoreTypes'
  BY <1>6, KilledProcs DEF Exit
<1>7. CASE CallerCancels
  BY <1>7 DEF CallerCancels
<1>8. CASE Timeout
  BY <1>8 DEF Timeout
<1>9. CASE GraceEnds
  BY <1>9 DEF GraceEnds
<1>10. CASE CancelFires
  BY <1>10 DEF CancelFires, List, Tagged
<1>11. CASE CancelTerminates
  BY <1>11, KilledProcs DEF CancelTerminates, ExitAfter, Forget
<1>12. CASE DelayKillsChild
  BY <1>12, KilledProcs DEF DelayKillsChild
<1>13. ASSUME NEW p \in Procs, ReadEnviron(p)
       PROVE  CoreTypes'
  BY <1>13 DEF ReadEnviron
<1>14. CASE Reaped
  BY <1>14 DEF Reaped
<1>15. CASE Drained
  BY <1>15 DEF Drained
<1>16. CASE Look
  BY <1>16 DEF Look, List, Tagged
<1>17. CASE Probe
  BY <1>17 DEF Probe, Forget, Conclude
<1>18. CASE Terminate
  BY <1>18, KilledProcs DEF Terminate, Forget
<1>19. CASE Poll
  BY <1>19 DEF Poll, Forget, Conclude
<1>20. CASE Kill
  BY <1>20, KilledProcs DEF Kill, Conclude
<1>21. CASE Classify
  BY <1>21, VerdictType DEF Classify
<1>22. CASE UNCHANGED vars
  BY <1>22 DEF vars
<1> QED
  BY <1>1, <1>2, <1>3, <1>4, <1>5, <1>6, <1>7, <1>8, <1>9, <1>10, <1>11, <1>12, <1>13,
     <1>14, <1>15, <1>16, <1>17, <1>18, <1>19, <1>20, <1>21, <1>22
     DEF Next, Run, Environment

(* Every step keeps what the invariant says of processes and of the verdict. *)
LEMMA ProcStep ==
  ASSUME CoreTypes, ProcInv, [Next]_vars
  PROVE  ProcInv'
<1>0. proc \in [Procs -> ProcRecord] /\ Child \in Procs
  BY DEF CoreTypes, Procs
<1> USE DEF ProcInv, NothingYet, ScanMissesOnlyLate, GroupGone, KillsAfterScan,
        ScanInProgress, OnlyLateSurvives, TerminatedForAReason, OutcomeIsVerdict,
        RunCtxDone, looking
<1>1. CASE Validate
  BY <1>1 DEF Validate, Verdict, Alive
<1>2. CASE StartFails
  BY <1>2 DEF StartFails, Verdict, Alive
<1>3. CASE Start
  <2>1. ~scanning
    BY <1>3 DEF Start
  <2> QED
    BY <1>3, <2>1 DEF Start
<1>4. ASSUME NEW p \in Procs, NEW h \in Helpers, Spawn(p, h)
      PROVE  ProcInv'
  <2>1. PICK stays \in BOOLEAN, inherits \in BOOLEAN, shares \in BOOLEAN, deaf \in BOOLEAN :
          proc' = [proc EXCEPT ![h] =
                     [state |-> "running", group |-> proc[p].group /\ stays,
                      tagged |-> proc[p].tagged /\ inherits,
                      pipe |-> proc[p].pipe /\ shares, deaf |-> deaf]]
    BY <1>4 DEF Spawn
  <2>2. /\ \A q \in Procs : q # h => proc'[q] = proc[q]
        /\ proc'[h].group = (proc[p].group /\ stays)
    BY <1>0, <2>1 DEF Procs
  <2>3. pc \notin {"validate", "start", "done"}
    BY <1>4 DEF Spawn
  <2>4. NothingYet' /\ KillsAfterScan' /\ TerminatedForAReason' /\ OutcomeIsVerdict'
    BY <1>4, <2>3 DEF Spawn
  <2>5. ScanMissesOnlyLate'
    BY <1>4, <2>2 DEF Spawn, Alive
  <2>6. GroupGone'
    BY <1>4, <2>2 DEF Spawn, Alive
  <2>7. OnlyLateSurvives'
    <3>1. ASSUME pc = "classify", NEW q \in Procs, Alive(q)'
          PROVE  ~proc'[q].group /\ (proc'[q].tagged => q \in late')
      <4>1. CASE q = h
        BY <1>4, <2>2, <3>1, <4>1 DEF Spawn
      <4>2. CASE q # h
        BY <1>4, <2>2, <3>1, <4>2 DEF Spawn, Alive
      <4> QED
        BY <4>1, <4>2
    <3> QED
      BY <1>4, <2>3, <3>1 DEF Spawn
  <2>8. ScanInProgress'
    BY <1>4 DEF Spawn
  <2> HIDE DEF NothingYet, ScanMissesOnlyLate, GroupGone, KillsAfterScan, ScanInProgress,
        OnlyLateSurvives, TerminatedForAReason, OutcomeIsVerdict
  <2> QED
    BY <2>4, <2>5, <2>6, <2>7, <2>8
<1>5. ASSUME NEW p \in Procs, NEW n \in 1..MaxBytes, Output(p, n)
      PROVE  ProcInv'
  BY <1>5 DEF Output, Alive
<1>6. ASSUME NEW p \in Procs, Exit(p)
      PROVE  ProcInv'
  <2>1. \A q \in Procs : Alive(q)' => Alive(q) /\ proc'[q] = proc[q]
    BY <1>0, <1>6, KilledProcs DEF Exit, Alive
  <2>2. pc \notin {"validate", "start", "done"}
    BY <1>6 DEF Exit
  <2> QED
    BY <1>6, <2>1, <2>2 DEF Exit
<1>7. CASE CallerCancels
  BY <1>7 DEF CallerCancels, Alive
<1>8. CASE Timeout
  BY <1>8 DEF Timeout, Alive
<1>9. CASE GraceEnds
  BY <1>9 DEF Verdict, GraceEnds, Alive
<1>10. CASE CancelFires
  BY <1>10 DEF CancelFires, List, Tagged, Alive
<1>11. CASE CancelTerminates
  <2>1. /\ scanning /\ pc' = pc /\ scanning' = FALSE
        /\ watch' = "terminated" /\ watch = "cancelling"
        /\ UNCHANGED <<cancelled, expired>>
    BY <1>11 DEF CancelTerminates, Forget, Scanned
  <2>2. pc \in {"wait", "probe", "terminate", "reap", "kill"}
    BY <2>1
  <2>3. TerminatedForAReason'
    BY <2>1
  <2>4. KillsAfterScan'
    BY <1>11, <2>1 DEF CancelTerminates
  <2> QED
    BY <2>1, <2>2, <2>3, <2>4
<1>12. CASE DelayKillsChild
  <2>1. \A q \in Procs : Alive(q)' => Alive(q) /\ proc'[q] = proc[q]
    BY <1>0, <1>12, KilledProcs DEF DelayKillsChild, Alive
  <2> QED
    BY <1>12, <2>1 DEF DelayKillsChild
<1>13. ASSUME NEW p \in Procs, ReadEnviron(p)
       PROVE  ProcInv'
  BY <1>13 DEF ReadEnviron, Alive, Verdict
<1>14. CASE Reaped
  BY <1>14 DEF Reaped, Alive
<1>15. CASE Drained
  BY <1>15 DEF Drained, Alive
<1>16. CASE Look
  BY <1>16 DEF Look, List, Tagged, Group, Alive
<1>17. CASE Probe
  <2>1. CASE pc' \in {"reap", "terminate"}
    BY <1>17, <2>1 DEF Probe, Forget, Conclude
  <2>2. CASE pc' = "classify"
    <3>1. Group = {} /\ seen = {} /\ Scanned
      BY <1>17, <2>2 DEF Probe, OwesReap, Remains
    <3>2. \A p \in Procs : Alive(p) => ~proc[p].group /\ (proc[p].tagged => p \in late)
      BY <3>1 DEF Scanned, Group
    <3> QED
      BY <1>17, <2>2, <3>2 DEF Probe, Conclude, Alive
  <2> QED
    BY <1>17, <2>1, <2>2 DEF Probe
<1>18. CASE Terminate
  BY <1>18 DEF Terminate, Forget
<1>19. CASE Poll
  <2>1. CASE pc' = "reap"
    BY <1>19, <2>1 DEF Poll, Forget, Conclude
  <2>2. CASE pc' = "classify"
    <3>1. seen = {} /\ Group = {} /\ Scanned
      BY <1>19, <2>2 DEF Poll, Remains
    <3>2. \A p \in Procs : Alive(p) => ~proc[p].group /\ (proc[p].tagged => p \in late)
      BY <3>1 DEF Scanned, Group
    <3> QED
      BY <1>19, <2>2, <3>2 DEF Poll, Conclude, Alive
  <2> QED
    BY <1>19, <2>1, <2>2 DEF Poll
<1>20. CASE Kill
  <2>1. \A p \in Procs : p \in Group \/ p \in seen => ~Alive(p)'
    BY <1>0, <1>20, KilledProcs DEF Kill, Alive
  <2>2. \A p \in Procs : p \notin Group /\ p \notin seen => proc'[p] = proc[p]
    BY <1>0, <1>20, KilledProcs DEF Kill
  <2>3. ASSUME NEW p \in Procs, Alive(p)'
        PROVE  ~proc'[p].group /\ (proc'[p].tagged => p \in late')
    BY <1>20, <2>1, <2>2, <2>3 DEF Kill, Scanned, Conclude, Group, Alive
  <2> QED
    BY <1>20, <2>3 DEF Kill, Conclude
<1>21. CASE Classify
  <2>1. OutcomeIsVerdict'
    BY <1>21 DEF Classify, Verdict
  <2> QED
    BY <1>21, <2>1 DEF Classify, Alive
<1>22. CASE UNCHANGED vars
  BY <1>22 DEF vars, Verdict, Alive
<1> QED
  BY <1>1, <1>2, <1>3, <1>4, <1>5, <1>6, <1>7, <1>8, <1>9, <1>10, <1>11, <1>12, <1>13,
     <1>14, <1>15, <1>16, <1>17, <1>18, <1>19, <1>20, <1>21, <1>22
     DEF Next, Run, Environment

(* The invariant holds in every state of Run.                                *)
LEMMA InvProved == Spec => []IInv
<1>1. IInv /\ [Next]_vars => IInv'
  <2> SUFFICES ASSUME IInv, [Next]_vars PROVE IInv'
    OBVIOUS
  <2>1. CoreTypes /\ ProcInv
    BY TypeParts DEF IInv, ProcInv
  <2>2. CoreTypes' /\ ProcInv' /\ BufferInv'
    BY <2>1, TypeStep, ProcStep, BufferStep
  <2>3. TypeOK'
    BY <2>2, BufferStep DEF TypeOK, CoreTypes, ProcRecord
  <2> QED
    BY <2>2, <2>3 DEF IInv, ProcInv
<1> QED
  BY <1>1, InitInv, PTL DEF Spec

-----------------------------------------------------------------------------
(* What the inductive invariant gives.                                       *)

(* Run's variables keep their types, whatever the command and its helpers    *)
(* do.                                                                       *)
THEOREM TypeCorrect == Spec => []TypeOK
<1>1. IInv => TypeOK
  BY DEF IInv
<1> QED
  BY <1>1, InvProved, PTL

(* However many helpers there are, whoever started them and however they     *)
(* come and go while /proc is read: when Run has returned, no process of the *)
(* command's group is alive, and of the processes that carry the run's tag   *)
(* only those that were started after the last listing of /proc.             *)
THEOREM NothingLeft == Spec => []NothingSurvives
<1>1. IInv => NothingSurvives
  BY DEF IInv, OnlyLateSurvives, NothingSurvives
<1> QED
  BY <1>1, InvProved, PTL

(* SUCCEEDED and FAILED are never the answer to Run's own SIGTERM, and       *)
(* SUCCEEDED means exit 0 with neither context done.                         *)
THEOREM OwnVerdict == Spec => []VerdictIsTheCommandsOwn
<1>1. IInv => VerdictIsTheCommandsOwn
  BY DEF IInv, TerminatedForAReason, OutcomeIsVerdict, VerdictIsTheCommandsOwn,
     Verdict, RunCtxDone
<1> QED
  BY <1>1, InvProved, PTL

(* For every limit, odd or even, and every sequence of writes: the buffer    *)
(* holds the whole stream up to the limit, and beyond it the first half and  *)
(* the newest bytes for the other, with the rest counted as dropped.         *)
THEOREM CaptureProved == Spec => []CaptureIsHeadAndTail
<1>1. IInv => CaptureIsHeadAndTail
  BY BufferIsHeadAndTail DEF IInv
<1> QED
  BY <1>1, InvProved, PTL

-----------------------------------------------------------------------------
(* AgentRun: what a backend makes of the stream its agent writes, for       *)
(* streams of any number of lines of any length, cut anywhere.              *)

Line == [says : Meanings, length : Nat \ {0}, whole : BOOLEAN, missing : 0..1]
EndsStep == {"stop", "tool-calls"}
Transcript == [count : Nat, read : Seq(Meanings), reason : EndsStep \cup {"none"},
               oversized : Nat, unknown : Nat]
Scanner == [buf : Seq(Nat \X Nat), skipping : BOOLEAN, result : Transcript]
Endings == {"SUCCEEDED", "FAILED", "TIMED_OUT", "CANCELLED"}

(* Types: where a run is, and what its parts hold.                          *)
AgentTypes ==
  /\ stage \in {"validate", "probe", "database", "list", "sandbox", "start",
                "running", "exited", "done"}
  /\ backend \in {"opencode", "codex"}
  /\ stopped \in BOOLEAN /\ atStart \in BOOLEAN /\ known \in BOOLEAN
  /\ fellBack \in BOOLEAN /\ (backend = "codex" => ~fellBack)
  /\ lines \in Seq(Line)
  /\ at \in [line : Nat \ {0}, byte : Nat]
  /\ scan \in Scanner
  /\ ended \in Endings \cup {"none", "START_FAILED"}
  /\ stage \notin {"exited", "done"} => ended = "none"
  /\ stage = "exited" => ended \in Endings

(* Nothing is written before the command runs.  Only the last line can be   *)
(* cut short, and the reader is in it, or in a line before it, or behind a   *)
(* last line that has ended.                                                *)
Placed ==
  /\ stage \notin {"running", "exited", "done"} => lines = <<>>
  /\ \A k \in DOMAIN lines :
       /\ k < Len(lines) \/ k < at.line => lines[k].whole
       /\ lines[k].whole => lines[k].missing = 0
       /\ lines[k].missing < lines[k].length
  /\ at.line <= Len(lines) + 1
  /\ IF at.line \in DOMAIN lines THEN at.byte <= Written(at.line) ELSE at.byte = 0

(* The scanner holds what has been read of the line, until that is more     *)
(* than it may hold; then it holds nothing and skips.                       *)
Held ==
  IF stage = "done" THEN scan.buf = <<>>
  ELSE /\ scan.skipping = (backend = "opencode" /\ at.byte > MaxEventLine)
       /\ scan.buf = IF scan.skipping THEN <<>> ELSE Bytes(at.line, 1, at.byte)

Good == {k \in Finished : Fits(k) /\ Known(k)}
Noise == {k \in Finished : Fits(k) /\ ~Known(k)}
Long == {k \in DOMAIN lines : Given(k) > MaxEventLine}

(* Every number up to the size of S has its element of S.                   *)
Ranked(S) == \A n \in 1..Cardinality(S) : Nth(S, n) \in S

(* What has been read, and how many lines of each sort.                     *)
Counted ==
  /\ Ranked(Good)
  /\ scan.result.read = Reported
  /\ stage # "done" => scan.result.unknown = Cardinality(Noise)
  /\ backend = "opencode" =>
       /\ scan.result.oversized = Cardinality(Long)
       /\ scan.result.count = Len(scan.result.read)
  /\ scan.result.count > 0 =>
       \E k \in Finished : Fits(k) /\ lines[k].says # "noise"

(* The transcript's reason is the last one that was read.                   *)
IsLastReason(read, reason) ==
  IF reason = "none" THEN \A i \in DOMAIN read : read[i] \notin EndsStep
  ELSE \E i \in DOMAIN read :
         /\ read[i] = reason
         /\ \A j \in DOMAIN read : j > i => read[j] \notin EndsStep

Reasoned == backend = "opencode" => IsLastReason(scan.result.read, scan.result.reason)

(* A run ends before its command has run, or with the verdict drawn from    *)
(* how the command ended and from the transcript.                           *)
Concluded ==
  stage = "done" =>
    \/ /\ ended \in {"none", "START_FAILED"}
       /\ verdict.status \in {"FAILED", "CANCELLED"}
       /\ verdict.kind \in {"STARTUP", "CANCELLED"}
    \/ /\ ended \in Endings
       /\ verdict = IF backend = "codex" THEN ClassifyCodex(ended, scan.result)
                    ELSE ClassifyOpenCode(ended, scan.result)

AgentInv ==
  /\ AgentTypes /\ Placed /\ Held /\ Counted /\ Reasoned /\ Concluded

-----------------------------------------------------------------------------
(* Ranks: what Reported counts off.                                          *)

(* A number larger than all of S comes last in S with it, and the others     *)
(* keep their places.                                                       *)
LEMMA NthOfMore ==
  ASSUME NEW S, NEW c \in Nat, S \subseteq Nat, IsFiniteSet(S), \A k \in S : k < c
  PROVE  /\ IsFiniteSet(S \cup {c}) /\ Cardinality(S) \in Nat
         /\ Cardinality(S \cup {c}) = Cardinality(S) + 1
         /\ \A n \in 1..Cardinality(S) : Nth(S \cup {c}, n) = Nth(S, n)
         /\ Nth(S \cup {c}, Cardinality(S) + 1) = c
<1> DEFINE T == S \cup {c}
           Rank(U, k) == Cardinality({j \in U : j <= k})
           Of(U, n) == {k \in U : Rank(U, k) = n}
<1>1. c \notin S
  OBVIOUS
<1>2. /\ IsFiniteSet(T) /\ Cardinality(S) \in Nat
      /\ Cardinality(T) = Cardinality(S) + 1
  BY <1>1, FS_AddElement, FS_CardinalityType
<1>3. \A k \in S : Rank(T, k) = Rank(S, k) /\ Rank(S, k) \in Nat /\ Rank(S, k) <= Cardinality(S)
  <2> SUFFICES ASSUME NEW k \in S
               PROVE  Rank(T, k) = Rank(S, k) /\ Rank(S, k) \in Nat /\ Rank(S, k) <= Cardinality(S)
    OBVIOUS
  <2>1. {j \in T : j <= k} = {j \in S : j <= k}
    OBVIOUS
  <2>2. {j \in S : j <= k} \subseteq S
    OBVIOUS
  <2> QED
    BY <2>1, <2>2, FS_Subset, FS_CardinalityType
<1>4. Rank(T, c) = Cardinality(S) + 1
  <2>1. \A j \in T : j <= c
    OBVIOUS
  <2>2. {j \in T : j <= c} = T
    BY <2>1
  <2> QED
    BY <2>2, <1>2
<1>5. \A n \in 1..Cardinality(S) : Of(T, n) = Of(S, n)
  <2> SUFFICES ASSUME NEW n \in 1..Cardinality(S) PROVE Of(T, n) = Of(S, n)
    OBVIOUS
  <2>1. Rank(T, c) # n
    BY <1>2, <1>4
  <2> HIDE DEF Rank
  <2> QED
    BY <2>1, <1>3
<1>6. Of(T, Cardinality(S) + 1) = {c}
  <2> HIDE DEF Rank
  <2>1. \A k \in S : Rank(T, k) # Cardinality(S) + 1
    BY <1>2, <1>3
  <2> QED
    BY <2>1, <1>4
<1>7. \A U, n : Nth(U, n) = CHOOSE k \in Of(U, n) : TRUE
  BY DEF Nth
<1>8. \A n \in 1..Cardinality(S) : Nth(T, n) = Nth(S, n)
  BY <1>5, <1>7
<1>9. Nth(T, Cardinality(S) + 1) = c
  <2>1. (CHOOSE k \in {c} : TRUE) = c
    OBVIOUS
  <2> QED
    BY <2>1, <1>6, <1>7
<1> QED
  BY <1>2, <1>8, <1>9

(* So every place stays taken when one is added.                            *)
LEMMA RankedOfMore ==
  ASSUME NEW S, NEW c \in Nat, S \subseteq Nat, IsFiniteSet(S), \A k \in S : k < c,
         Ranked(S)
  PROVE  Ranked(S \cup {c})
<1> SUFFICES ASSUME NEW n \in 1..Cardinality(S \cup {c})
             PROVE  Nth(S \cup {c}, n) \in S \cup {c}
  BY DEF Ranked
<1>1. Cardinality(S) \in Nat /\ Cardinality(S \cup {c}) = Cardinality(S) + 1
  BY NthOfMore
<1>2. n \in 1..Cardinality(S) \/ n = Cardinality(S) + 1
  BY <1>1
<1>3. CASE n \in 1..Cardinality(S)
  <2>1. Nth(S \cup {c}, n) = Nth(S, n)
    BY <1>3, NthOfMore
  <2> QED
    BY <1>3, <2>1 DEF Ranked
<1>4. CASE n = Cardinality(S) + 1
  <2>1. Nth(S \cup {c}, n) = c
    BY <1>4, NthOfMore
  <2> QED
    BY <2>1
<1> QED
  BY <1>2, <1>3, <1>4

-----------------------------------------------------------------------------
(* Bytes of a line.                                                         *)

(* The n bytes after the first o, and the first o.                          *)
LEMMA BytesAfter ==
  ASSUME NEW k \in Nat, NEW o \in Nat, NEW n \in Nat
  PROVE  /\ Bytes(k, o + 1, o + n) \in Seq(Nat \X Nat)
         /\ Len(Bytes(k, o + 1, o + n)) = n
         /\ \A i \in 1..n : Bytes(k, o + 1, o + n)[i] = <<k, o + i>>
<1> DEFINE b == Bytes(k, o + 1, o + n)
<1>1. b = [i \in 1..n |-> <<k, o + i>>]
  BY DEF Bytes
<1> HIDE DEF b
<1>2. Len(b) = n
  BY <1>1
<1>3. b \in Seq(Nat \X Nat)
  BY <1>1
<1>4. \A i \in 1..n : b[i] = <<k, o + i>>
  BY <1>1
<1> QED
  BY <1>2, <1>3, <1>4 DEF b

LEMMA Beginning ==
  ASSUME NEW k \in Nat, NEW o \in Nat
  PROVE  /\ Bytes(k, 1, o) \in Seq(Nat \X Nat)
         /\ Len(Bytes(k, 1, o)) = o
         /\ \A i \in 1..o : Bytes(k, 1, o)[i] = <<k, i>>
<1> DEFINE b == Bytes(k, 1, o)
<1>1. b = [i \in 1..o |-> <<k, i>>]
  BY DEF Bytes
<1> HIDE DEF b
<1>2. Len(b) = o
  BY <1>1
<1>3. b \in Seq(Nat \X Nat)
  BY <1>1
<1>4. \A i \in 1..o : b[i] = <<k, i>>
  BY <1>1
<1> QED
  BY <1>2, <1>3, <1>4 DEF b

(* Two sequences one after the other, and two that are the same.           *)
LEMMA SeqJoin == ASSUME NEW P, NEW a \in Seq(P), NEW b \in Seq(P)
  PROVE  /\ a \o b \in Seq(P) /\ Len(a \o b) = Len(a) + Len(b)
         /\ \A i \in 1..(Len(a) + Len(b)) : (a \o b)[i] = IF i <= Len(a) THEN a[i] ELSE b[i-Len(a)]
OBVIOUS

LEMMA SeqSame == ASSUME NEW P, NEW a \in Seq(P), NEW b \in Seq(P), Len(a) = Len(b), \A i \in 1..Len(a) : a[i] = b[i]
  PROVE  a = b
OBVIOUS

(* What follows the first o bytes continues them.                           *)
LEMMA BytesJoin ==
  ASSUME NEW k \in Nat, NEW o \in Nat, NEW n \in Nat
  PROVE  Bytes(k, 1, o) \o Bytes(k, o + 1, o + n) = Bytes(k, 1, o + n)
<1>1. PICK a : a = Bytes(k, 1, o)
  OBVIOUS
<1>2. PICK b : b = Bytes(k, o + 1, o + n)
  OBVIOUS
<1>3. PICK w : w = Bytes(k, 1, o + n)
  OBVIOUS
<1>4. /\ a \in Seq(Nat \X Nat) /\ Len(a) = o /\ \A i \in 1..o : a[i] = <<k, i>>
  BY <1>1, Beginning
<1>5. /\ b \in Seq(Nat \X Nat) /\ Len(b) = n /\ \A i \in 1..n : b[i] = <<k, o + i>>
  <2>2. /\ Bytes(k, o + 1, o + n) \in Seq(Nat \X Nat)
        /\ Len(Bytes(k, o + 1, o + n)) = n
        /\ \A i \in 1..n : Bytes(k, o + 1, o + n)[i] = <<k, o + i>>
    BY BytesAfter
  <2> QED
    BY <1>2, <2>2
<1>6. /\ w \in Seq(Nat \X Nat) /\ Len(w) = o + n /\ \A i \in 1..(o + n) : w[i] = <<k, i>>
  <2>1. o + n \in Nat
    OBVIOUS
  <2> QED
    BY <1>3, <2>1, Beginning
<1>7. /\ a \o b \in Seq(Nat \X Nat) /\ Len(a \o b) = o + n
      /\ \A i \in 1..(o + n) : (a \o b)[i] = IF i <= o THEN a[i] ELSE b[i - o]
  BY <1>4, <1>5, SeqJoin
<1>8. \A i \in 1..(o + n) : (a \o b)[i] = w[i]
  <2> SUFFICES ASSUME NEW i \in 1..(o + n) PROVE (a \o b)[i] = w[i]
    OBVIOUS
  <2>1. w[i] = <<k, i>>
    BY <1>6
  <2>2. CASE i <= o
    <3>1. i \in 1..o
      BY <2>2
    <3>2. (a \o b)[i] = a[i]
      BY <2>2, <1>7
    <3>3. a[i] = <<k, i>>
      BY <3>1, <1>4
    <3> QED
      BY <2>1, <3>2, <3>3
  <2>3. CASE i > o
    <3>1. i - o \in 1..n /\ o + (i - o) = i
      BY <2>3
    <3>2. ~(i <= o)
      BY <2>3
    <3>3. (a \o b)[i] = b[i - o]
      BY <1>7, <3>2
    <3>4. b[i - o] = <<k, o + (i - o)>>
      BY <3>1, <1>5
    <3>5. <<k, o + (i - o)>> = <<k, i>>
      BY <3>1
    <3>6. b[i - o] = <<k, i>>
      BY <3>4, <3>5
    <3> QED
      BY <2>1, <3>3, <3>6
  <2>4. i <= o \/ i > o
    OBVIOUS
  <2> QED
    BY <2>2, <2>3, <2>4, Zenon
<1>9. a \o b = w
  BY <1>6, <1>7, <1>8, SeqSame
<1> QED
  BY <1>1, <1>2, <1>3, <1>9

(* Only a whole line says something; the beginning of one cannot be parsed. *)
LEMMA ParseBeginning ==
  ASSUME lines \in Seq(Line), NEW c \in DOMAIN lines, NEW o \in Nat \ {0}
  PROVE  Parse(Bytes(c, 1, o)) = IF o = lines[c].length THEN lines[c].says ELSE "noise"
<1> DEFINE b == Bytes(c, 1, o)
           whole == {k \in DOMAIN lines : Bytes(k, 1, lines[k].length) = b}
<1>2. \A k \in DOMAIN lines : k \in Nat /\ lines[k].length \in Nat \ {0}
  <2>1. \A k \in DOMAIN lines : k \in Nat /\ lines[k] \in Line
    OBVIOUS
  <2> QED
    BY <2>1 DEF Line
<1>0. \A k \in Nat, n \in Nat \ {0} :
        Len(Bytes(k, 1, n)) = n /\ Bytes(k, 1, n)[1] = <<k, 1>>
  <2> SUFFICES ASSUME NEW k \in Nat, NEW n \in Nat \ {0}
               PROVE  Len(Bytes(k, 1, n)) = n /\ Bytes(k, 1, n)[1] = <<k, 1>>
    OBVIOUS
  <2>1. n \in Nat /\ 1 \in 1..n
    OBVIOUS
  <2> QED
    BY <2>1, Beginning
<1>1. c \in Nat /\ Len(b) = o /\ b[1] = <<c, 1>>
  BY <1>0, <1>2
<1>3. \A k \in DOMAIN lines :
        LET w == Bytes(k, 1, lines[k].length)
        IN Len(w) = lines[k].length /\ w[1] = <<k, 1>>
  BY <1>0, <1>2
<1>4. whole = IF o = lines[c].length THEN {c} ELSE {}
  <2>1. \A k \in whole : k = c /\ o = lines[c].length
    <3> SUFFICES ASSUME NEW k \in whole PROVE k = c /\ o = lines[c].length
      OBVIOUS
    <3>1. Len(b) = lines[k].length /\ b[1] = <<k, 1>>
      BY <1>3
    <3> QED
      BY <3>1, <1>1
  <2>2. o = lines[c].length => c \in whole
    OBVIOUS
  <2> HIDE DEF whole
  <2> QED
    BY <2>1, <2>2
<1>5. Parse(b) = IF whole = {} THEN "noise" ELSE lines[CHOOSE k \in whole : TRUE].says
  BY DEF Parse
<1> HIDE DEF whole
<1>6. (CHOOSE k \in {c} : TRUE) = c
  OBVIOUS
<1> QED
  BY <1>4, <1>5, <1>6

-----------------------------------------------------------------------------
(* One piece of the stream.                                                 *)

LEMMA SeqAppend ==
  ASSUME NEW P, NEW s \in Seq(P), NEW e \in P
  PROVE  /\ Append(s, e) \in Seq(P) /\ Len(Append(s, e)) = Len(s) + 1
         /\ \A i \in 1..Len(s) : Append(s, e)[i] = s[i]
         /\ Append(s, e)[Len(s) + 1] = e
OBVIOUS

(* The lines and the place, as the lemmas use them.                         *)
LEMMA LineTypes ==
  ASSUME AgentTypes
  PROVE  /\ Len(lines) \in Nat /\ DOMAIN lines = 1..Len(lines)
         /\ \A k \in DOMAIN lines :
              /\ k \in Nat /\ lines[k].says \in Meanings /\ lines[k].length \in Nat \ {0}
              /\ lines[k].whole \in BOOLEAN /\ lines[k].missing \in 0..1
              /\ Written(k) \in Nat
         /\ at.line \in Nat \ {0} /\ at.byte \in Nat
         /\ scan.buf \in Seq(Nat \X Nat) /\ scan.skipping \in BOOLEAN
         /\ scan.result \in Transcript
         /\ MaxEventLine \in Nat \ {0}
<1>1. lines \in Seq(Line)
  BY DEF AgentTypes
<1>2. Len(lines) \in Nat /\ DOMAIN lines = 1..Len(lines) /\ \A k \in DOMAIN lines : lines[k] \in Line
  BY <1>1
<1>3. \A k \in DOMAIN lines :
        /\ k \in Nat /\ lines[k].says \in Meanings /\ lines[k].length \in Nat \ {0}
        /\ lines[k].whole \in BOOLEAN /\ lines[k].missing \in 0..1
  BY <1>2 DEF Line
<1>4. \A k \in DOMAIN lines : Written(k) \in Nat
  BY <1>3 DEF Written
<1> QED
  BY <1>2, <1>3, <1>4, AgentRunAssumption DEF AgentTypes, Scanner

(* The finished lines are those before the one being read, as long as the    *)
(* scanner is open, and they are finite; so are their parts.                *)
LEMMA FinishedLines ==
  ASSUME AgentTypes, Placed
  PROVE  /\ stage # "done" => Finished = {k \in DOMAIN lines : k < at.line}
         /\ Good \subseteq Finished /\ Noise \subseteq Finished
         /\ IsFiniteSet(Good) /\ IsFiniteSet(Noise)
         /\ \A k \in Finished : k \in Nat
         /\ stage # "done" => \A k \in Finished : k < at.line
         /\ Long \subseteq DOMAIN lines /\ IsFiniteSet(Long)
         /\ Cardinality(Good) \in Nat /\ Cardinality(Noise) \in Nat
         /\ Cardinality(Long) \in Nat
<1>1. Finished \subseteq DOMAIN lines
  BY DEF Finished
<1>2. 1 \in Int /\ Len(lines) \in Int /\ DOMAIN lines = 1..Len(lines)
  BY LineTypes
<1>3. IsFiniteSet(Finished) /\ IsFiniteSet(DOMAIN lines)
  BY <1>1, <1>2, FS_Interval, FS_Subset
<1>4. Good \subseteq Finished /\ Noise \subseteq Finished /\ Long \subseteq DOMAIN lines
  BY DEF Good, Noise, Long
<1>5. IsFiniteSet(Good) /\ IsFiniteSet(Noise) /\ IsFiniteSet(Long)
  BY <1>3, <1>4, FS_Subset
<1>6. \A k \in Finished : k \in Nat
  BY <1>1, LineTypes
<1>7. stage # "done" => Finished = {k \in DOMAIN lines : k < at.line}
  BY DEF Finished
<1> QED
  BY <1>4, <1>5, <1>6, <1>7, FS_CardinalityType

(* How a step that reads up to byte m of the line changes these sets.       *)
LEMMA TeeSets ==
  ASSUME AgentTypes, Placed, NEW n \in Nat, NEW nl \in BOOLEAN, Tee(n, nl)
  PROVE  /\ Good' = IF nl /\ Fits(at.line) /\ Known(at.line) THEN Good \cup {at.line} ELSE Good
         /\ Noise' = IF nl /\ Fits(at.line) /\ ~Known(at.line)
                     THEN Noise \cup {at.line} ELSE Noise
         /\ Long' = IF at.byte + n > MaxEventLine THEN Long \cup {at.line} ELSE Long
         /\ at.line \in Long <=> at.byte > MaxEventLine
         /\ Finished' = IF nl THEN Finished \cup {at.line} ELSE Finished
<1>1. /\ lines' = lines /\ backend' = backend /\ at.line \in DOMAIN lines
      /\ stage # "done" /\ stage' # "done"
      /\ at.byte + n <= Written(at.line)
      /\ nl => at.byte + n = Written(at.line)
      /\ at' = IF nl THEN [line |-> at.line + 1, byte |-> 0] ELSE [at EXCEPT !.byte = @ + n]
  BY DEF Tee
<1>2. /\ nl => at'.line = at.line + 1 /\ at'.byte = 0
      /\ ~nl => at'.line = at.line /\ at'.byte = at.byte + n
  BY <1>1 DEF AgentTypes
<1>3. Finished' = IF nl THEN Finished \cup {at.line} ELSE Finished
  <2>1. Finished' = {k \in DOMAIN lines : k < at'.line}
    BY <1>1 DEF Finished
  <2>2. CASE nl
    <3>1. \A k \in DOMAIN lines : k < at.line + 1 <=> k < at.line \/ k = at.line
      BY LineTypes
    <3> QED
      BY <2>1, <2>2, <3>1, <1>1, <1>2 DEF Finished
  <2>3. CASE ~nl
    BY <2>1, <2>3, <1>1, <1>2 DEF Finished
  <2> QED
    BY <2>2, <2>3
<1>4. \A k \in DOMAIN lines : Fits(k)' = Fits(k) /\ Known(k)' = Known(k)
  BY <1>1 DEF Fits, Known
<1>5. Finished' \subseteq DOMAIN lines
  BY <1>1 DEF Finished
<1>6. Good' = IF nl /\ Fits(at.line) /\ Known(at.line) THEN Good \cup {at.line} ELSE Good
  <2>1. Good' = {k \in Finished' : Fits(k) /\ Known(k)}
    BY <1>1 DEF Good, Fits, Known
  <2> QED
    BY <2>1, <1>3 DEF Good
<1>7. Noise' = IF nl /\ Fits(at.line) /\ ~Known(at.line) THEN Noise \cup {at.line} ELSE Noise
  <2>1. Noise' = {k \in Finished' : Fits(k) /\ ~Known(k)}
    BY <1>1 DEF Noise, Fits, Known
  <2> QED
    BY <2>1, <1>3 DEF Noise
<1>8. \A k \in DOMAIN lines :
        Given(k)' = IF k = at.line THEN at.byte + n ELSE Given(k)
  <2> SUFFICES ASSUME NEW k \in DOMAIN lines
               PROVE  Given(k)' = IF k = at.line THEN at.byte + n ELSE Given(k)
    OBVIOUS
  <2>1. Written(k)' = Written(k)
    BY <1>1 DEF Written
  <2>2. Given(k)' = IF k < at'.line THEN Written(k)
                    ELSE IF k = at'.line THEN at'.byte ELSE 0
    BY <2>1 DEF Given
  <2>3. CASE nl
    BY <2>2, <2>3, <1>1, <1>2, LineTypes DEF Given
  <2>4. CASE ~nl
    BY <2>2, <2>4, <1>1, <1>2, LineTypes DEF Given
  <2> QED
    BY <2>3, <2>4
<1>9. Given(at.line) = at.byte
  BY LineTypes DEF Given
<1>10. at.line \in Long <=> at.byte > MaxEventLine
  BY <1>1, <1>9 DEF Long
<1>11. Long' = {k \in DOMAIN lines : Given(k)' > MaxEventLine}
  BY <1>1 DEF Long
<1>12. Long' = IF at.byte + n > MaxEventLine THEN Long \cup {at.line} ELSE Long
  <2>1. at.byte > MaxEventLine => at.byte + n > MaxEventLine
    BY LineTypes
  <2> QED
    BY <1>1, <1>8, <1>10, <1>11, <2>1 DEF Long
<1> QED
  BY <1>3, <1>6, <1>7, <1>10, <1>12

(* A good line more is reported after the others.                           *)
LEMMA ReportedGrows ==
  ASSUME AgentTypes, Placed, Ranked(Good), at.line \in DOMAIN lines,
         stage # "done", lines' = lines, Good' = Good \cup {at.line}
  PROVE  /\ Ranked(Good)'
         /\ Reported \in Seq(Meanings)
         /\ Reported' = Append(Reported, lines[at.line].says)
<1> DEFINE c == at.line
           N == Cardinality(Good)
           e == lines[c].says
           r == Reported
           q == Reported'
<1>1. /\ Good \subseteq Nat /\ IsFiniteSet(Good) /\ c \in Nat
      /\ \A k \in Good : k < c /\ k \in DOMAIN lines
  BY FinishedLines, LineTypes DEF Finished
<1>2. /\ N \in Nat /\ Cardinality(Good \cup {c}) = N + 1
      /\ \A n \in 1..N : Nth(Good \cup {c}, n) = Nth(Good, n)
      /\ Nth(Good \cup {c}, N + 1) = c
  BY <1>1, NthOfMore
<1>3. Ranked(Good \cup {c})
  BY <1>1, RankedOfMore
<1>4. Ranked(Good)'
  BY <1>3 DEF Ranked
<1>5. r = [n \in 1..N |-> lines[Nth(Good, n)].says]
  BY DEF Reported, Good
<1>6. q = [n \in 1..(N + 1) |-> lines[Nth(Good \cup {c}, n)].says]
  <2>1. q = [n \in 1..Cardinality(Good') |-> lines'[Nth(Good', n)].says]
    BY DEF Reported, Good, Nth
  <2> QED
    BY <2>1, <1>2
<1>7. e \in Meanings /\ \A n \in 1..N : lines[Nth(Good, n)].says \in Meanings
  BY <1>1, LineTypes DEF Ranked
<1>8. r \in Seq(Meanings) /\ Len(r) = N /\ \A n \in 1..N : r[n] = lines[Nth(Good, n)].says
  <2> HIDE DEF r, N
  <2>1. r \in [1..N -> Meanings]
    BY <1>5, <1>7
  <2> QED
    BY <2>1, <1>2, <1>5
<1>9. /\ q \in Seq(Meanings) /\ Len(q) = N + 1
      /\ \A n \in 1..N : q[n] = lines[Nth(Good, n)].says
      /\ q[N + 1] = e
  <2>1. \A n \in 1..(N + 1) : lines[Nth(Good \cup {c}, n)].says \in Meanings
    <3>1. \A n \in 1..(N + 1) : n \in 1..N \/ n = N + 1
      BY <1>2
    <3> QED
      BY <3>1, <1>2, <1>7
  <2> HIDE DEF q, N, e
  <2>2. q \in [1..(N + 1) -> Meanings]
    BY <1>6, <2>1
  <2>3. \A n \in 1..N : n \in 1..(N + 1)
    BY <1>2
  <2>4. N + 1 \in 1..(N + 1)
    BY <1>2
  <2>5. \A n \in 1..(N + 1) : q[n] = lines[Nth(Good \cup {c}, n)].says
    BY <1>6
  <2>6. q \in Seq(Meanings) /\ Len(q) = N + 1
    BY <2>2, <1>2
  <2>7. \A n \in 1..N : q[n] = lines[Nth(Good, n)].says
    BY <2>3, <2>5, <1>2
  <2>8. q[N + 1] = e
    BY <2>4, <2>5, <1>2 DEF e
  <2> QED
    BY <2>6, <2>7, <2>8
<1>10. /\ Append(r, e) \in Seq(Meanings) /\ Len(Append(r, e)) = N + 1
       /\ \A n \in 1..N : Append(r, e)[n] = r[n]
       /\ Append(r, e)[N + 1] = e
  <2> HIDE DEF r, e, N
  <2> QED
    BY <1>7, <1>8, SeqAppend
<1>11. \A n \in 1..(N + 1) : q[n] = Append(r, e)[n]
  <2> HIDE DEF q, r, e, N
  <2>1. \A n \in 1..(N + 1) : n \in 1..N \/ n = N + 1
    BY <1>2
  <2> QED
    BY <2>1, <1>8, <1>9, <1>10
<1>12. q = Append(r, e)
  <2> HIDE DEF q, r, e, N
  <2> QED
    BY <1>9, <1>10, <1>11, SeqSame
<1> QED
  BY <1>4, <1>8, <1>12

(* What is made of a line that has come to its newline.                     *)
LEMMA LineConsumed ==
  ASSUME AgentTypes, NEW c \in DOMAIN lines, NEW r \in Transcript, NEW q,
         q = IF backend = "codex" THEN ConsumeCodex(r, Bytes(c, 1, lines[c].length))
             ELSE Consume(r, Bytes(c, 1, lines[c].length))
  PROVE  /\ q \in Transcript
         /\ q.read = IF Known(c) THEN Append(r.read, lines[c].says) ELSE r.read
         /\ q.unknown = IF Known(c) THEN r.unknown ELSE r.unknown + 1
         /\ q.oversized = r.oversized
         /\ q.count = IF lines[c].says = "noise" THEN r.count ELSE r.count + 1
         /\ q.reason = IF Known(c) /\ backend = "opencode"
                       THEN EndsFor(lines[c].says, r.reason) ELSE r.reason
<1> DEFINE b == Bytes(c, 1, lines[c].length)
           e == lines[c].says
<1>1. e \in Meanings /\ lines[c].length \in Nat \ {0} /\ c \in Nat
  BY LineTypes
<1>2. b # <<>>
  <2>1. Len(b) = lines[c].length
    BY <1>1, Beginning
  <2> QED
    BY <1>1, <2>1
<1>3. Parse(b) = e
  BY <1>1, ParseBeginning DEF AgentTypes
<1>4. /\ r.count \in Nat /\ r.read \in Seq(Meanings) /\ r.reason \in EndsStep \cup {"none"}
      /\ r.oversized \in Nat /\ r.unknown \in Nat
  BY DEF Transcript
<1>5. EndsFor(e, r.reason) \in EndsStep \cup {"none"}
  BY <1>4 DEF EndsFor, EndsStep
<1>6. Append(r.read, e) \in Seq(Meanings)
  BY <1>1, <1>4, SeqAppend
<1>7. r = [count |-> r.count, read |-> r.read, reason |-> r.reason,
           oversized |-> r.oversized, unknown |-> r.unknown]
  BY DEF Transcript
<1> HIDE DEF b, e
<1>8. Known(c) <=> IF backend = "codex" THEN e \in CodexKnows ELSE e # "noise"
  BY DEF Known, e
<1>9. CASE e = "noise"
  <2>1. q = [r EXCEPT !.unknown = @ + 1] /\ ~Known(c)
    BY <1>2, <1>3, <1>8, <1>9 DEF Consume, ConsumeCodex, CodexKnows, b
  <2>2. q = [count |-> r.count, read |-> r.read, reason |-> r.reason,
             oversized |-> r.oversized, unknown |-> r.unknown + 1]
    BY <2>1, <1>7
  <2>3. /\ q.count = r.count
        /\ q.read = r.read
        /\ q.reason = r.reason
        /\ q.oversized = r.oversized
        /\ q.unknown = r.unknown + 1
    BY <2>2
  <2>5. r.count + 1 \in Nat /\ r.unknown + 1 \in Nat
    BY <1>4
  <2>4. q \in Transcript
    BY <2>2, <2>5, <1>4 DEF Transcript
  <2> QED
    BY <2>1, <2>3, <2>4, <1>9 DEF e
<1>10. CASE e # "noise" /\ ~Known(c)
  <2>1. q = [r EXCEPT !.count = @ + 1, !.unknown = @ + 1]
    BY <1>2, <1>3, <1>8, <1>10 DEF Consume, ConsumeCodex, b
  <2>2. q = [count |-> r.count + 1, read |-> r.read, reason |-> r.reason,
             oversized |-> r.oversized, unknown |-> r.unknown + 1]
    BY <2>1, <1>7
  <2>3. /\ q.count = r.count + 1
        /\ q.read = r.read
        /\ q.reason = r.reason
        /\ q.oversized = r.oversized
        /\ q.unknown = r.unknown + 1
    BY <2>2
  <2>5. r.count + 1 \in Nat /\ r.unknown + 1 \in Nat
    BY <1>4
  <2>4. q \in Transcript
    BY <2>2, <2>5, <1>4 DEF Transcript
  <2> QED
    BY <2>1, <2>3, <2>4, <1>10 DEF e
<1>11. CASE Known(c) /\ backend = "codex"
  <2>1. /\ q = [r EXCEPT !.count = @ + 1, !.read = Append(@, e)]
        /\ e # "noise"
    BY <1>2, <1>3, <1>8, <1>11 DEF ConsumeCodex, CodexKnows, b
  <2>2. q = [count |-> r.count + 1, read |-> Append(r.read, e), reason |-> r.reason,
             oversized |-> r.oversized, unknown |-> r.unknown]
    BY <2>1, <1>7
  <2>3. /\ q.count = r.count + 1
        /\ q.read = Append(r.read, e)
        /\ q.reason = r.reason
        /\ q.oversized = r.oversized
        /\ q.unknown = r.unknown
    BY <2>2
  <2>5. r.count + 1 \in Nat /\ r.unknown + 1 \in Nat
    BY <1>4
  <2>4. q \in Transcript
    <3>1. PICK w \in Seq(Meanings) : w = Append(r.read, e)
      BY <1>6
    <3>2. q = [count |-> r.count + 1, read |-> w, reason |-> r.reason,
               oversized |-> r.oversized, unknown |-> r.unknown]
      BY <2>2, <3>1
    <3> QED
      BY <3>2, <2>5, <1>4 DEF Transcript
  <2> QED
    BY <2>1, <2>3, <2>4, <1>11 DEF e
<1>12. CASE Known(c) /\ backend # "codex"
  <2>1. /\ q = [r EXCEPT !.count = @ + 1, !.read = Append(@, e), !.reason = EndsFor(e, @)]
        /\ e # "noise" /\ backend = "opencode"
    BY <1>2, <1>3, <1>8, <1>12 DEF Consume, b, AgentTypes
  <2>2. q = [count |-> r.count + 1, read |-> Append(r.read, e),
             reason |-> EndsFor(e, r.reason),
             oversized |-> r.oversized, unknown |-> r.unknown]
    BY <2>1, <1>7
  <2>3. /\ q.count = r.count + 1
        /\ q.read = Append(r.read, e)
        /\ q.reason = EndsFor(e, r.reason)
        /\ q.oversized = r.oversized
        /\ q.unknown = r.unknown
    BY <2>2
  <2>5. r.count + 1 \in Nat /\ r.unknown + 1 \in Nat
    BY <1>4
  <2>4. q \in Transcript
    <3>1. PICK w \in Seq(Meanings) : w = Append(r.read, e)
      BY <1>6
    <3>2. q = [count |-> r.count + 1, read |-> w, reason |-> EndsFor(e, r.reason),
               oversized |-> r.oversized, unknown |-> r.unknown]
      BY <2>2, <3>1
    <3> QED
      BY <3>2, <2>5, <1>4, <1>5 DEF Transcript
  <2> QED
    BY <2>1, <2>3, <2>4, <1>12 DEF e
<1> QED
  BY <1>8, <1>9, <1>10, <1>11, <1>12

LEMMA NoBytes == ASSUME NEW k \in Nat PROVE Bytes(k, 1, 0) = <<>>
BY DEF Bytes

(* What one piece does to the scanner: m is how much of the line has been    *)
(* read after it.  A line that has come to its newline and fits is consumed, *)
(* one that grows too long is counted, once, and otherwise nothing is read.  *)
LEMMA PieceWritten ==
  ASSUME AgentTypes, Placed, Held, NEW n \in Nat, NEW nl \in BOOLEAN, Tee(n, nl),
         NEW m, m = at.byte + n
  PROVE  LET c == at.line
             b == Bytes(c, 1, lines[c].length)
         IN /\ c \in DOMAIN lines
            /\ scan'.skipping = (~nl /\ backend = "opencode" /\ m > MaxEventLine)
            /\ scan'.buf = IF nl \/ scan'.skipping THEN <<>> ELSE Bytes(c, 1, m)
            /\ scan' = [buf |-> scan'.buf, skipping |-> scan'.skipping, result |-> scan'.result]
            /\ nl /\ Fits(c) =>
                 scan'.result = IF backend = "codex" THEN ConsumeCodex(scan.result, b)
                                ELSE Consume(scan.result, b)
            /\ ~nl /\ (backend = "codex" \/ m <= MaxEventLine) => scan'.result = scan.result
            /\ backend = "opencode" /\ m > MaxEventLine =>
                 scan'.result = IF at.byte > MaxEventLine THEN scan.result
                                ELSE [scan.result EXCEPT !.oversized = @ + 1]
            /\ nl => m = lines[c].length
<1> DEFINE c == at.line
           o == at.byte
           text == Bytes(c, o + 1, o + n)
           L == lines[c].length
           r == scan.result
<1>1. /\ stage # "done" /\ c \in DOMAIN lines /\ c \in Nat /\ o \in Nat /\ m \in Nat
      /\ L \in Nat \ {0} /\ MaxEventLine \in Nat
      /\ nl => m = L
      /\ scan' = WritePiece(scan, text, nl)
  <2>1. /\ stage # "done" /\ c \in DOMAIN lines /\ c \in Nat /\ o \in Nat /\ m \in Nat
        /\ L \in Nat \ {0} /\ MaxEventLine \in Nat
        /\ nl => lines[c].whole /\ m = Written(c)
        /\ scan' = WritePiece(scan, text, nl)
    BY LineTypes DEF Tee
  <2>2. lines[c].whole => lines[c].missing = 0
    BY <2>1 DEF Placed
  <2>3. lines[c].whole => Written(c) = L
    BY <2>1, <2>2 DEF Written
  <2> QED
    BY <2>1, <2>3
<1>2. scan = [buf |-> scan.buf, skipping |-> scan.skipping, result |-> r]
  BY DEF AgentTypes, Scanner
<1>3. /\ scan.skipping = (backend = "opencode" /\ o > MaxEventLine)
      /\ scan.buf = IF scan.skipping THEN <<>> ELSE Bytes(c, 1, o)
  BY <1>1 DEF Held
<1>4. Len(text) = n /\ Len(Bytes(c, 1, o)) = o
  <2>1. c \in Nat /\ o \in Nat
    BY <1>1
  <2> HIDE DEF c, o
  <2>2. Len(Bytes(c, o + 1, o + n)) = n /\ Len(Bytes(c, 1, o)) = o
    BY <2>1, BytesAfter, Beginning
  <2> QED
    BY <2>2 DEF o
<1>5. Bytes(c, 1, o) \o text = Bytes(c, 1, m)
  <2>1. c \in Nat /\ o \in Nat
    BY <1>1
  <2>2. m = o + n
    OBVIOUS
  <2> HIDE DEF c, o
  <2>3. Bytes(c, 1, o) \o Bytes(c, o + 1, o + n) = Bytes(c, 1, o + n)
    BY <2>1, BytesJoin
  <2> QED
    BY <2>2, <2>3 DEF o
<1>6. backend \in {"opencode", "codex"}
  BY DEF AgentTypes
<1>7. nl /\ backend = "opencode" => (Fits(c) <=> m <= MaxEventLine)
  BY <1>1 DEF Fits
<1> HIDE DEF text, L
<1>8. CASE backend = "codex"
  <2>1. scan.buf \o text = Bytes(c, 1, m) /\ scan.skipping = FALSE
    BY <1>3, <1>5, <1>8
  <2>2. CASE nl
    <3>1. scan' = [scan EXCEPT !.buf = <<>>, !.result = ConsumeCodex(@, Bytes(c, 1, m))]
      BY <1>1, <1>8, <2>1, <2>2 DEF WritePiece, WriteCodex
    <3>2. scan' = [buf |-> <<>>, skipping |-> FALSE,
                   result |-> ConsumeCodex(r, Bytes(c, 1, m))]
      BY <1>2, <2>1, <3>1
    <3>3. /\ scan'.buf = <<>> /\ scan'.skipping = FALSE
          /\ scan'.result = ConsumeCodex(r, Bytes(c, 1, m))
      BY <3>2
    <3> QED
      BY <1>1, <1>8, <2>1, <2>2, <3>2, <3>3 DEF L
  <2>3. CASE ~nl
    <3>1. scan' = [scan EXCEPT !.buf = Bytes(c, 1, m)]
      BY <1>1, <1>8, <2>1, <2>3 DEF WritePiece, WriteCodex
    <3>2. scan' = [buf |-> Bytes(c, 1, m), skipping |-> FALSE, result |-> r]
      BY <1>2, <2>1, <3>1
    <3>3. /\ scan'.buf = Bytes(c, 1, m) /\ scan'.skipping = FALSE
          /\ scan'.result = r
      BY <3>2
    <3> QED
      BY <1>1, <1>8, <2>1, <2>3, <3>2, <3>3
  <2> QED
    BY <2>2, <2>3
<1>9. CASE backend = "opencode" /\ o > MaxEventLine
  <2>1. scan' = [scan EXCEPT !.skipping = ~nl]
    BY <1>1, <1>3, <1>9 DEF WritePiece, WriteBounded
  <2>2. scan' = [buf |-> <<>>, skipping |-> ~nl, result |-> r]
    BY <1>2, <1>3, <1>9, <2>1
  <2>3. scan'.buf = <<>> /\ scan'.skipping = ~nl /\ scan'.result = r
    BY <2>2
  <2>4. m > MaxEventLine /\ ~(m <= MaxEventLine)
    BY <1>1, <1>9
  <2> QED
    BY <1>1, <1>7, <1>9, <2>2, <2>3, <2>4 DEF L
<1>10. CASE backend = "opencode" /\ ~(o > MaxEventLine) /\ m > MaxEventLine
  <2>1. scan' = [scan EXCEPT !.buf = <<>>, !.result.oversized = @ + 1, !.skipping = ~nl]
    BY <1>1, <1>3, <1>4, <1>10 DEF WritePiece, WriteBounded, DropLine
  <2>2. scan' = [buf |-> <<>>, skipping |-> ~nl,
                 result |-> [r EXCEPT !.oversized = @ + 1]]
    BY <1>2, <2>1
  <2>3. /\ scan'.buf = <<>> /\ scan'.skipping = ~nl
        /\ scan'.result = [r EXCEPT !.oversized = @ + 1]
    BY <2>2
  <2>4. ~(m <= MaxEventLine)
    BY <1>1, <1>10
  <2> QED
    BY <1>1, <1>7, <1>10, <2>2, <2>3, <2>4 DEF L
<1>11. CASE backend = "opencode" /\ ~(m > MaxEventLine)
  <2>1. ~(o > MaxEventLine)
    BY <1>1, <1>11
  <2>2. scan.buf = Bytes(c, 1, o) /\ scan.skipping = FALSE
    BY <1>3, <2>1
  <2>3. scan.buf \o text = Bytes(c, 1, m) /\ ~(Len(scan.buf) + Len(text) > MaxEventLine)
    BY <1>1, <1>4, <1>5, <1>11, <2>2
  <2>4. scan' = Keep(scan, text, nl)
    BY <1>1, <1>11, <2>2, <2>3 DEF WritePiece, WriteBounded
  <2>5. CASE nl
    <3>1. scan' = [scan EXCEPT !.buf = <<>>, !.result = Consume(@, Bytes(c, 1, m))]
      BY <2>3, <2>4, <2>5 DEF Keep
    <3>2. scan' = [buf |-> <<>>, skipping |-> FALSE,
                   result |-> Consume(r, Bytes(c, 1, m))]
      BY <1>2, <2>2, <3>1
    <3>3. /\ scan'.buf = <<>> /\ scan'.skipping = FALSE
          /\ scan'.result = Consume(r, Bytes(c, 1, m))
      BY <3>2
    <3> QED
      BY <1>1, <1>11, <2>2, <2>5, <3>2, <3>3 DEF L
  <2>6. CASE ~nl
    <3>1. scan' = [scan EXCEPT !.buf = Bytes(c, 1, m)]
      BY <2>3, <2>4, <2>6 DEF Keep
    <3>2. scan' = [buf |-> Bytes(c, 1, m), skipping |-> FALSE, result |-> r]
      BY <1>2, <2>2, <3>1
    <3>3. /\ scan'.buf = Bytes(c, 1, m) /\ scan'.skipping = FALSE
          /\ scan'.result = r
      BY <3>2
    <3> QED
      BY <1>1, <1>11, <2>2, <2>6, <3>2, <3>3
  <2> QED
    BY <2>5, <2>6
<1> QED
  BY <1>6, <1>8, <1>9, <1>10, <1>11

(* Appending the reason of a step that ends makes it the last one.          *)
LEMMA ReasonOfMore ==
  ASSUME NEW read \in Seq(Meanings), NEW reason \in EndsStep \cup {"none"},
         NEW e \in Meanings, IsLastReason(read, reason)
  PROVE  IsLastReason(Append(read, e), EndsFor(e, reason))
<1> DEFINE w == Append(read, e)
           N == Len(read)
<1>1. /\ N \in Nat /\ DOMAIN read = 1..N /\ DOMAIN w = 1..(N + 1)
      /\ \A i \in 1..N : w[i] = read[i]
      /\ w[N + 1] = e
  BY SeqAppend
<1>2. \A i \in 1..(N + 1) : i \in 1..N \/ i = N + 1
  BY <1>1
<1>3. "none" \notin EndsStep
  BY DEF EndsStep
<1> HIDE DEF w, N
<1>4. CASE e \in EndsStep
  <2>1. EndsFor(e, reason) = e /\ e # "none"
    BY <1>3, <1>4 DEF EndsFor, EndsStep
  <2>2. N + 1 \in DOMAIN w /\ \A j \in DOMAIN w : ~(j > N + 1)
    BY <1>1
  <2> QED
    BY <2>1, <2>2, <1>1 DEF IsLastReason, w
<1>5. CASE e \notin EndsStep
  <2>1. EndsFor(e, reason) = reason
    BY <1>5 DEF EndsFor, EndsStep
  <2>2. CASE reason = "none"
    <3>1. \A i \in DOMAIN w : w[i] \notin EndsStep
      BY <1>1, <1>2, <1>5, <2>2 DEF IsLastReason, N
    <3> QED
      BY <2>1, <2>2, <3>1 DEF IsLastReason, w
  <2>3. CASE reason # "none"
    <3>1. PICK i \in DOMAIN read : /\ read[i] = reason
                                   /\ \A j \in DOMAIN read : j > i => read[j] \notin EndsStep
      BY <2>3 DEF IsLastReason
    <3>2. i \in DOMAIN w /\ w[i] = reason
      BY <1>1, <3>1
    <3>3. \A j \in DOMAIN w : j > i => w[j] \notin EndsStep
      BY <1>1, <1>2, <1>5, <3>1
    <3> QED
      BY <2>1, <2>3, <3>2, <3>3 DEF IsLastReason, w
  <2> QED
    BY <2>2, <2>3
<1> QED
  BY <1>4, <1>5

(* What stays as it is when no good line is added.                          *)
LEMMA ReportedStays ==
  ASSUME lines' = lines, Good' = Good
  PROVE  Reported' = Reported /\ (Ranked(Good) => Ranked(Good)')
<1>1. /\ Reported = [n \in 1..Cardinality(Good) |-> lines[Nth(Good, n)].says]
      /\ Reported' = [n \in 1..Cardinality(Good') |-> lines'[Nth(Good', n)].says]
  BY DEF Reported, Good
<1>2. Ranked(Good)' <=> Ranked(Good')
  BY DEF Ranked
<1> QED
  BY <1>1, <1>2

(* A line that has been given is still given after another step.            *)
LEMMA StillGiven ==
  ASSUME lines' = lines, backend' = backend, Finished \subseteq Finished',
         \E k \in Finished : Fits(k) /\ lines[k].says # "noise"
  PROVE  (\E k \in Finished : Fits(k) /\ lines[k].says # "noise")'
BY DEF Fits

(* The three ways a piece changes what has been read: a line that fits has   *)
(* come to its newline, ...                                                 *)
LEMMA WholeLineCounted ==
  ASSUME AgentInv, NEW n \in Nat, Tee(n, TRUE), Fits(at.line)
  PROVE  scan'.result \in Transcript /\ Counted' /\ Reasoned'
<1> DEFINE c == at.line
           r == scan.result
           q == scan'.result
           e == lines[c].says
<1>1. /\ lines' = lines /\ backend' = backend /\ stage' = stage /\ stage # "done"
      /\ c \in DOMAIN lines
  BY DEF Tee
<1>2. AgentTypes /\ Placed /\ Held /\ Counted /\ Reasoned
  BY DEF AgentInv
<1>3. /\ r \in Transcript /\ e \in Meanings /\ c \in Nat /\ MaxEventLine \in Nat
      /\ lines[c].length \in Nat
  BY <1>1, <1>2, LineTypes
<1>4. /\ q = IF backend = "codex" THEN ConsumeCodex(r, Bytes(c, 1, lines[c].length))
             ELSE Consume(r, Bytes(c, 1, lines[c].length))
      /\ at.byte + n = lines[c].length
  BY <1>2, PieceWritten
<1>5. /\ q \in Transcript
      /\ q.read = IF Known(c) THEN Append(r.read, e) ELSE r.read
      /\ q.unknown = IF Known(c) THEN r.unknown ELSE r.unknown + 1
      /\ q.oversized = r.oversized
      /\ q.count = IF e = "noise" THEN r.count ELSE r.count + 1
      /\ q.reason = IF Known(c) /\ backend = "opencode" THEN EndsFor(e, r.reason)
                    ELSE r.reason
  BY <1>1, <1>2, <1>3, <1>4, LineConsumed
<1>6. /\ Good' = IF Known(c) THEN Good \cup {c} ELSE Good
      /\ Noise' = IF ~Known(c) THEN Noise \cup {c} ELSE Noise
      /\ Long' = IF at.byte + n > MaxEventLine THEN Long \cup {c} ELSE Long
      /\ Finished' = Finished \cup {c}
  BY <1>2, TeeSets
<1>7. /\ r.read = Reported /\ r.unknown = Cardinality(Noise) /\ Ranked(Good)
      /\ r.count \in Nat /\ r.read \in Seq(Meanings) /\ r.reason \in EndsStep \cup {"none"}
  BY <1>1, <1>2, <1>3 DEF Counted, Transcript
<1>8. Ranked(Good)' /\ q.read = Reported'
  <2>1. CASE Known(c)
    BY <2>1, <1>1, <1>2, <1>5, <1>6, <1>7, ReportedGrows
  <2>2. CASE ~Known(c)
    BY <2>2, <1>1, <1>5, <1>6, <1>7, ReportedStays
  <2> QED
    BY <2>1, <2>2
<1>9. q.unknown = Cardinality(Noise')
  <2>1. IsFiniteSet(Noise) /\ c \notin Noise /\ Cardinality(Noise) \in Nat
    BY <1>1, <1>2, <1>3, FinishedLines
  <2>2. Cardinality(Noise \cup {c}) = Cardinality(Noise) + 1
    BY <2>1, FS_AddElement
  <2> QED
    BY <2>2, <1>5, <1>6, <1>7
<1>10. backend = "opencode" =>
         /\ q.oversized = Cardinality(Long')
         /\ q.count = Len(q.read)
  <2> SUFFICES ASSUME backend = "opencode"
               PROVE  q.oversized = Cardinality(Long') /\ q.count = Len(q.read)
    OBVIOUS
  <2>1. r.oversized = Cardinality(Long) /\ r.count = Len(r.read)
    BY <1>2 DEF Counted
  <2>2. lines[c].length <= MaxEventLine
    BY DEF Fits
  <2>3. Long' = Long
    BY <2>2, <1>3, <1>4, <1>6
  <2>4. Known(c) <=> e # "noise"
    BY DEF Known
  <2>5. Len(Append(r.read, e)) = Len(r.read) + 1
    BY <1>3, <1>7, SeqAppend
  <2> QED
    BY <2>1, <2>3, <2>4, <2>5, <1>5
<1>11. q.count > 0 => (\E k \in Finished : Fits(k) /\ lines[k].says # "noise")'
  <2>1. CASE e # "noise"
    <3>1. c \in Finished'
      BY <1>6
    <3>2. /\ backend' = "codex" \/ lines'[c].length <= MaxEventLine
          /\ lines'[c].says # "noise"
      BY <2>1, <1>1 DEF Fits
    <3> HIDE DEF c, e, q, r
    <3> QED
      BY <3>1, <3>2 DEF Fits
  <2>2. CASE e = "noise" /\ q.count > 0
    <3>1. \E k \in Finished : Fits(k) /\ lines[k].says # "noise"
      BY <2>2, <1>2, <1>5 DEF Counted
    <3> QED
      BY <3>1, <1>1, <1>6, StillGiven
  <2> QED
    BY <2>1, <2>2
<1>12. Counted'
  BY <1>1, <1>8, <1>9, <1>10, <1>11 DEF Counted
<1>13. Reasoned'
  <2> SUFFICES ASSUME backend = "opencode"
               PROVE  IsLastReason(q.read, q.reason)
    BY <1>1 DEF Reasoned, IsLastReason
  <2>1. IsLastReason(r.read, r.reason)
    BY <1>2 DEF Reasoned
  <2>2. CASE Known(c)
    BY <2>1, <2>2, <1>3, <1>5, <1>7, ReasonOfMore
  <2>3. CASE ~Known(c)
    BY <2>1, <2>3, <1>5
  <2> QED
    BY <2>2, <2>3
<1> QED
  BY <1>5, <1>12, <1>13

(* ... or a part of a line that fits so far, ...                            *)
LEMMA PartCounted ==
  ASSUME AgentInv, NEW n \in Nat, Tee(n, FALSE),
         backend = "codex" \/ at.byte + n <= MaxEventLine
  PROVE  scan'.result \in Transcript /\ Counted' /\ Reasoned'
<1>1. /\ lines' = lines /\ backend' = backend /\ stage' = stage
  BY DEF Tee
<1>2. AgentTypes /\ Placed /\ Held /\ Counted /\ Reasoned
  BY DEF AgentInv
<1>3. scan'.result = scan.result /\ scan.result \in Transcript
  BY <1>2, PieceWritten, LineTypes
<1>4. /\ Good' = Good /\ Noise' = Noise /\ Finished' = Finished
      /\ backend = "codex" \/ Long' = Long
  <2>1. /\ Good' = Good /\ Noise' = Noise /\ Finished' = Finished
        /\ Long' = IF at.byte + n > MaxEventLine THEN Long \cup {at.line} ELSE Long
    BY <1>2, TeeSets
  <2>2. at.byte + n <= MaxEventLine => ~(at.byte + n > MaxEventLine)
    BY <1>2, LineTypes
  <2> QED
    BY <2>1, <2>2
<1>5. Reported' = Reported /\ Ranked(Good)'
  BY <1>1, <1>2, <1>4, ReportedStays DEF Counted
<1>6. scan.result.count > 0 => (\E k \in Finished : Fits(k) /\ lines[k].says # "noise")'
  BY <1>1, <1>2, <1>4, StillGiven DEF Counted
<1>7. Counted'
  BY <1>1, <1>2, <1>3, <1>4, <1>5, <1>6 DEF Counted
<1>8. Reasoned'
  BY <1>1, <1>2, <1>3 DEF Reasoned, IsLastReason
<1> QED
  BY <1>3, <1>7, <1>8

(* ... or a part of a line that is, or has just become, too long.           *)
LEMMA LongLineCounted ==
  ASSUME AgentInv, NEW n \in Nat, NEW nl \in BOOLEAN, Tee(n, nl),
         backend = "opencode", at.byte + n > MaxEventLine
  PROVE  scan'.result \in Transcript /\ Counted' /\ Reasoned'
<1> DEFINE c == at.line
           r == scan.result
           q == scan'.result
<1>1. /\ lines' = lines /\ backend' = backend /\ stage' = stage /\ stage # "done"
      /\ c \in DOMAIN lines
  BY DEF Tee
<1>2. AgentTypes /\ Placed /\ Held /\ Counted /\ Reasoned
  BY DEF AgentInv
<1>3. /\ r \in Transcript /\ c \in Nat /\ MaxEventLine \in Nat /\ at.byte \in Nat
      /\ lines[c].length \in Nat
  BY <1>1, <1>2, LineTypes
<1>4. /\ q = IF at.byte > MaxEventLine THEN r ELSE [r EXCEPT !.oversized = @ + 1]
      /\ nl => at.byte + n = lines[c].length
  BY <1>2, PieceWritten
<1>5. nl => ~Fits(c)
  BY <1>3, <1>4 DEF Fits
<1>6. /\ Good' = Good /\ Noise' = Noise /\ Finished \subseteq Finished'
      /\ Long' = Long \cup {c} /\ (c \in Long <=> at.byte > MaxEventLine)
  BY <1>2, <1>5, TeeSets
<1>7. /\ r = [count |-> r.count, read |-> r.read, reason |-> r.reason,
              oversized |-> r.oversized, unknown |-> r.unknown]
      /\ r.count \in Nat /\ r.read \in Seq(Meanings) /\ r.reason \in EndsStep \cup {"none"}
      /\ r.oversized \in Nat /\ r.unknown \in Nat
  BY <1>3 DEF Transcript
<1>8. /\ q = [count |-> r.count, read |-> r.read, reason |-> r.reason,
              oversized |-> q.oversized, unknown |-> r.unknown]
      /\ q.oversized = IF c \in Long THEN r.oversized ELSE r.oversized + 1
  <2>1. CASE at.byte > MaxEventLine
    BY <2>1, <1>4, <1>6, <1>7
  <2>2. CASE ~(at.byte > MaxEventLine)
    <3>1. q = [r EXCEPT !.oversized = @ + 1]
      BY <2>2, <1>4
    <3>2. q = [count |-> r.count, read |-> r.read, reason |-> r.reason,
               oversized |-> r.oversized + 1, unknown |-> r.unknown]
      BY <3>1, <1>7
    <3>3. q.oversized = r.oversized + 1
      BY <3>2
    <3> QED
      BY <2>2, <3>2, <3>3, <1>6
  <2> QED
    BY <2>1, <2>2
<1>9. q.oversized \in Nat
  BY <1>7, <1>8
<1>10. /\ q.count = r.count /\ q.read = r.read /\ q.reason = r.reason
       /\ q.unknown = r.unknown
  BY <1>8
<1>11. q \in Transcript
  BY <1>7, <1>8, <1>9 DEF Transcript
<1>12. q.oversized = Cardinality(Long')
  <2>1. /\ IsFiniteSet(Long) /\ Cardinality(Long) \in Nat
        /\ r.oversized = Cardinality(Long)
    BY <1>2, FinishedLines DEF Counted
  <2>2. CASE c \in Long
    <3>1. Long \cup {c} = Long
      BY <2>2
    <3> QED
      BY <2>1, <2>2, <3>1, <1>6, <1>8
  <2>3. CASE c \notin Long
    <3>1. Cardinality(Long \cup {c}) = Cardinality(Long) + 1
      BY <2>1, <2>3, FS_AddElement
    <3> QED
      BY <2>1, <2>3, <3>1, <1>6, <1>8
  <2> QED
    BY <2>2, <2>3
<1>13. Reported' = Reported /\ Ranked(Good)'
  BY <1>1, <1>2, <1>6, ReportedStays DEF Counted
<1>14. r.count > 0 => (\E k \in Finished : Fits(k) /\ lines[k].says # "noise")'
  BY <1>1, <1>2, <1>6, StillGiven DEF Counted
<1>15. Counted'
  BY <1>1, <1>2, <1>6, <1>10, <1>12, <1>13, <1>14 DEF Counted
<1>16. Reasoned'
  BY <1>1, <1>2, <1>10 DEF Reasoned, IsLastReason
<1> QED
  BY <1>11, <1>15, <1>16

LEMMA TeeKeepsInv ==
  ASSUME AgentInv, NEW n \in Nat, NEW nl \in BOOLEAN, Tee(n, nl)
  PROVE  AgentInv'
<1> DEFINE c == at.line
           m == at.byte + n
<1>1. AgentTypes /\ Placed /\ Held
  BY DEF AgentInv
<1>2. /\ lines' = lines /\ backend' = backend /\ stage' = stage
      /\ stage \in {"running", "exited"} /\ c \in DOMAIN lines
      /\ m <= Written(c)
      /\ nl => lines[c].whole /\ m = Written(c)
      /\ at' = IF nl THEN [line |-> c + 1, byte |-> 0] ELSE [at EXCEPT !.byte = m]
      /\ UNCHANGED <<stopped, atStart, known, ended, fellBack, verdict>>
  BY DEF Tee
<1>3. /\ c \in Nat \ {0} /\ at.byte \in Nat /\ m \in Nat /\ MaxEventLine \in Nat
      /\ Len(lines) \in Nat /\ DOMAIN lines = 1..Len(lines)
      /\ \A k \in DOMAIN lines : k \in Nat /\ Written(k) \in Nat
  BY <1>1, LineTypes
<1>4. /\ nl => at'.line = c + 1 /\ at'.byte = 0
      /\ ~nl => at'.line = c /\ at'.byte = m
      /\ at' \in [line : Nat \ {0}, byte : Nat]
  <2>1. at = [line |-> c, byte |-> at.byte]
    BY <1>1 DEF AgentTypes
  <2>2. ~nl => at' = [line |-> c, byte |-> m]
    BY <1>2, <2>1
  <2> HIDE DEF c, m
  <2> QED
    BY <1>2, <1>3, <2>2
<1>5. /\ scan'.skipping = (~nl /\ backend = "opencode" /\ m > MaxEventLine)
      /\ scan'.buf = IF nl \/ scan'.skipping THEN <<>> ELSE Bytes(c, 1, m)
      /\ scan' = [buf |-> scan'.buf, skipping |-> scan'.skipping, result |-> scan'.result]
      /\ nl => m = lines[c].length
  BY <1>1, PieceWritten
<1>6. scan'.result \in Transcript /\ Counted' /\ Reasoned'
  <2>1. CASE nl /\ Fits(c)
    BY <2>1, WholeLineCounted
  <2>2. CASE ~nl /\ (backend = "codex" \/ m <= MaxEventLine)
    BY <2>2, PartCounted
  <2>3. CASE backend = "opencode" /\ m > MaxEventLine
    BY <2>3, LongLineCounted
  <2>4. \/ nl /\ Fits(c)
        \/ ~nl /\ (backend = "codex" \/ m <= MaxEventLine)
        \/ backend = "opencode" /\ m > MaxEventLine
    BY <1>1, <1>3, <1>5 DEF Fits, AgentTypes
  <2> QED
    BY <2>1, <2>2, <2>3, <2>4
<1>7. scan' \in Scanner
  <2>1. scan'.buf \in Seq(Nat \X Nat)
    <3>1. Bytes(c, 1, m) \in Seq(Nat \X Nat)
      BY <1>3, Beginning
    <3>2. <<>> \in Seq(Nat \X Nat)
      OBVIOUS
    <3> QED
      BY <1>5, <3>1, <3>2
  <2>2. scan'.skipping \in BOOLEAN
    BY <1>5
  <2> QED
    BY <1>5, <1>6, <2>1, <2>2 DEF Scanner
<1>8. AgentTypes'
  BY <1>1, <1>2, <1>4, <1>7 DEF AgentTypes
<1>9. \A k \in DOMAIN lines : Written(k)' = Written(k)
  BY <1>2 DEF Written
<1>10. Placed'
  <2>1. CASE nl
    <3>1. at'.line = c + 1 /\ at'.byte = 0
      BY <2>1, <1>4
    <3>2. \A k \in DOMAIN lines : k < c + 1 <=> k < c \/ k = c
      BY <1>3
    <3>3. \A k \in DOMAIN lines : /\ k < Len(lines) \/ k < at'.line => lines[k].whole
                                  /\ lines[k].whole => lines[k].missing = 0
                                  /\ lines[k].missing < lines[k].length
      BY <3>1, <3>2, <2>1, <1>1, <1>2 DEF Placed
    <3>4. at'.line <= Len(lines) + 1
      BY <3>1, <1>2, <1>3
    <3> QED
      BY <3>1, <3>3, <3>4, <1>1, <1>2, <1>3, <1>9 DEF Placed
  <2>2. CASE ~nl
    BY <2>2, <1>1, <1>2, <1>4, <1>9 DEF Placed
  <2> QED
    BY <2>1, <2>2
<1>11. Held'
  <2>1. stage' # "done"
    BY <1>2
  <2>2. CASE nl
    <3>1. scan'.skipping = FALSE /\ scan'.buf = <<>> /\ at'.byte = 0 /\ at'.line = c + 1
      BY <2>2, <1>4, <1>5
    <3>2. Bytes(c + 1, 1, 0) = <<>>
      BY <1>3, NoBytes
    <3>3. ~(0 > MaxEventLine)
      BY <1>3
    <3> QED
      BY <2>1, <3>1, <3>2, <3>3, <1>2 DEF Held, Bytes
  <2>3. CASE ~nl
    <3>1. /\ scan'.skipping = (backend = "opencode" /\ m > MaxEventLine)
          /\ scan'.buf = IF scan'.skipping THEN <<>> ELSE Bytes(c, 1, m)
          /\ at'.byte = m /\ at'.line = c
      BY <2>3, <1>4, <1>5
    <3> HIDE DEF c, m
    <3> QED
      BY <2>1, <3>1, <1>2 DEF Held, Bytes
  <2> QED
    BY <2>2, <2>3
<1>12. Concluded'
  BY <1>2 DEF Concluded
<1> QED
  BY <1>6, <1>8, <1>10, <1>11, <1>12 DEF AgentInv

-----------------------------------------------------------------------------
(* The other steps.                                                         *)

(* A line more changes nothing of what has been read.                       *)
LEMMA AgentWritesKeepsInv ==
  ASSUME AgentInv, NEW says \in Meanings, NEW length \in Nat \ {0},
         NEW whole \in BOOLEAN, NEW missing \in 0..1,
         AgentWrites(says, length, whole, missing)
  PROVE  AgentInv'
<1> DEFINE new == [says |-> says, length |-> length, whole |-> whole, missing |-> missing]
<1>0. PICK N : N = Len(lines)
  OBVIOUS
<1>1. AgentTypes /\ Placed /\ Held /\ Counted /\ Reasoned /\ Concluded
  BY DEF AgentInv
<1>2. /\ stage = "running" /\ (\A k \in DOMAIN lines : lines[k].whole)
      /\ missing < length /\ (whole => missing = 0)
      /\ lines' = Append(lines, new)
      /\ UNCHANGED <<stage, backend, stopped, atStart, known, at, scan, ended,
                     fellBack, verdict>>
  BY DEF AgentWrites
<1>3. /\ new \in Line /\ new.whole = whole /\ new.length = length
      /\ new.missing = missing
  BY DEF Line
<1>4. lines \in Seq(Line)
  BY <1>1 DEF AgentTypes
<1> HIDE DEF new
<1>5. /\ N \in Nat /\ DOMAIN lines = 1..N /\ DOMAIN lines' = 1..(N + 1)
      /\ lines' \in Seq(Line) /\ Len(lines') = N + 1
      /\ \A k \in 1..N : lines'[k] = lines[k]
      /\ lines'[N + 1] = new
  BY <1>0, <1>2, <1>3, <1>4, SeqAppend
<1>6. \A k \in 1..(N + 1) : k \in 1..N \/ k = N + 1
  BY <1>5
<1>7. /\ at.line \in Nat \ {0} /\ at.byte \in Nat /\ MaxEventLine \in Nat \ {0}
      /\ at.line <= N + 1
      /\ at.line = N + 1 => at.byte = 0
  BY <1>0, <1>1, <1>5, LineTypes DEF Placed
<1>8. \A k \in 1..N : Written(k)' = Written(k)
  BY <1>5 DEF Written
<1>9. AgentTypes'
  BY <1>1, <1>2, <1>5 DEF AgentTypes
<1>10. Placed'
  <2>1. \A k \in DOMAIN lines' : /\ k < N + 1 \/ k < at.line => lines'[k].whole
                                 /\ lines'[k].whole => lines'[k].missing = 0
                                 /\ lines'[k].missing < lines'[k].length
    <3> SUFFICES ASSUME NEW k \in 1..(N + 1)
                 PROVE  /\ k < N + 1 \/ k < at.line => lines'[k].whole
                        /\ lines'[k].whole => lines'[k].missing = 0
                        /\ lines'[k].missing < lines'[k].length
      BY <1>5
    <3>1. CASE k \in 1..N
      BY <3>1, <1>1, <1>2, <1>5 DEF Placed
    <3>2. CASE k = N + 1
      BY <3>2, <1>2, <1>3, <1>5, <1>7
    <3> QED
      BY <3>1, <3>2, <1>6
  <2>2. \A k \in 1..(N + 1) : k = at.line => at.byte <= Written(k)'
    <3>1. ASSUME NEW k \in 1..N, k = at.line
          PROVE  at.byte <= Written(k)'
      BY <3>1, <1>1, <1>5, <1>8 DEF Placed
    <3>2. Written(N + 1)' \in Nat
      <4>1. Written(N + 1)' = length - missing
        BY <1>3, <1>5 DEF Written
      <4> QED
        BY <4>1, <1>2
    <3>3. at.line = N + 1 => at.byte <= Written(N + 1)'
      BY <3>2, <1>7
    <3> QED
      BY <3>1, <3>3, <1>6
  <2>3. at.line \in 1..(N + 1)
    BY <1>5, <1>7
  <2> QED
    BY <2>1, <2>2, <2>3, <1>2, <1>5, <1>7 DEF Placed, Written
<1>11. Held'
  BY <1>1, <1>2 DEF Held, Bytes
<1>12. Finished' = Finished
  BY <1>2, <1>5, <1>6, <1>7 DEF Finished
<1>13. /\ \A k \in 1..N : (Fits(k)' <=> Fits(k)) /\ (Known(k)' <=> Known(k))
       /\ Finished \subseteq 1..N
  BY <1>2, <1>5 DEF Fits, Known, Finished
<1>14. Good' = Good /\ Noise' = Noise
  <2>1. /\ Good' = {k \in Finished' : Fits(k)' /\ Known(k)'}
        /\ Noise' = {k \in Finished' : Fits(k)' /\ ~Known(k)'}
    BY DEF Good, Noise
  <2> QED
    BY <2>1, <1>12, <1>13 DEF Good, Noise
<1>15. Long' = Long
  <2>1. \A k \in 1..N : Given(k)' = Given(k)
    BY <1>2, <1>8 DEF Given
  <2>2. Given(N + 1)' = 0
    <3>1. ~(N + 1 < at.line) /\ (N + 1 = at.line => at.byte = 0)
      BY <1>5, <1>7
    <3> QED
      BY <3>1, <1>2 DEF Given
  <2>3. Long' = {k \in 1..(N + 1) : Given(k)' > MaxEventLine}
    BY <1>5 DEF Long
  <2>4. Long = {k \in 1..N : Given(k) > MaxEventLine}
    BY <1>5 DEF Long
  <2>5. ~(0 > MaxEventLine) /\ 1..N \subseteq 1..(N + 1)
    BY <1>5, <1>7
  <2> QED
    BY <2>1, <2>2, <2>3, <2>4, <2>5, <1>6
<1>16. Reported' = Reported /\ Ranked(Good)'
  <2>1. /\ Reported = [i \in 1..Cardinality(Good) |-> lines[Nth(Good, i)].says]
        /\ Reported' = [i \in 1..Cardinality(Good) |-> lines'[Nth(Good, i)].says]
    BY <1>14 DEF Reported, Good
  <2>2. \A i \in 1..Cardinality(Good) : Nth(Good, i) \in 1..N
    BY <1>1, <1>13 DEF Counted, Ranked, Good
  <2>3. \A i \in 1..Cardinality(Good) : lines'[Nth(Good, i)].says = lines[Nth(Good, i)].says
    BY <2>2, <1>5
  <2>4. Ranked(Good)'
    BY <1>1, <1>14 DEF Counted, Ranked
  <2> QED
    BY <2>1, <2>3, <2>4
<1>17. scan.result.count > 0 => (\E k \in Finished : Fits(k) /\ lines[k].says # "noise")'
  <2> SUFFICES ASSUME scan.result.count > 0
               PROVE  (\E k \in Finished : Fits(k) /\ lines[k].says # "noise")'
    OBVIOUS
  <2>1. PICK k \in Finished : Fits(k) /\ lines[k].says # "noise"
    BY <1>1 DEF Counted
  <2>2. k \in Finished' /\ k \in 1..N /\ lines'[k] = lines[k] /\ Fits(k)'
    BY <2>1, <1>5, <1>12, <1>13
  <2> QED
    BY <2>1, <2>2 DEF Fits
<1>18. Counted'
  BY <1>1, <1>2, <1>14, <1>15, <1>16, <1>17 DEF Counted
<1>19. Reasoned' /\ Concluded'
  BY <1>1, <1>2 DEF Reasoned, IsLastReason, Concluded
<1> QED
  BY <1>9, <1>10, <1>11, <1>18, <1>19 DEF AgentInv

(* What a step that leaves the stream alone, and does not close it, cannot   *)
(* disturb.                                                                 *)
LEMMA StreamUntouched ==
  ASSUME AgentInv, UNCHANGED streamVars, backend' = backend,
         \/ stage' = stage
         \/ stage # "done" /\ stage' # "done"
         \/ stage \in {"validate", "probe", "database", "list", "sandbox", "start"}
  PROVE  /\ (\/ stage' = stage \/ stage' = "done" \/ stage' = "exited"
             \/ stage \in {"validate", "probe", "database", "list", "sandbox", "start"})
            => Placed'
         /\ stage # "done" \/ stage' = "done" => Counted'
         /\ stage # "done" /\ stage' # "done" => Held'
         /\ stage \in {"validate", "probe", "database", "list", "sandbox", "start"}
            => Held'
         /\ Reasoned'
<1>1. AgentTypes /\ Placed /\ Held /\ Counted /\ Reasoned
  BY DEF AgentInv
<1>2. lines' = lines /\ at' = at /\ scan' = scan
  BY DEF streamVars
<1>3. \A k \in DOMAIN lines : Written(k)' = Written(k)
  BY <1>2 DEF Written
<1>4. (\/ stage' = stage \/ stage' = "done" \/ stage' = "exited"
       \/ stage \in {"validate", "probe", "database", "list", "sandbox", "start"})
      => Placed'
  BY <1>1, <1>2, <1>3 DEF Placed
<1>5. /\ Finished' = Finished /\ Good' = Good /\ Noise' = Noise /\ Long' = Long
  <2>1. Finished' = Finished
    <3>1. CASE stage' = stage
      BY <3>1, <1>2 DEF Finished
    <3>2. CASE stage # "done" /\ stage' # "done"
      BY <3>2, <1>2 DEF Finished
    <3>3. CASE stage \in {"validate", "probe", "database", "list", "sandbox", "start"}
      <4>1. lines = <<>>
        BY <3>3, <1>1 DEF Placed
      <4> QED
        BY <4>1, <1>2 DEF Finished
    <3> QED
      BY <3>1, <3>2, <3>3
  <2> QED
    BY <2>1, <1>2 DEF Good, Noise, Long, Fits, Known, Given, Written
<1>6. Reported' = Reported /\ Ranked(Good)'
  BY <1>1, <1>2, <1>5, ReportedStays DEF Counted
<1>7. scan.result.count > 0 => (\E k \in Finished : Fits(k) /\ lines[k].says # "noise")'
  BY <1>1, <1>2, <1>5, StillGiven DEF Counted
<1>8. stage # "done" \/ stage' = "done" => Counted'
  BY <1>1, <1>2, <1>5, <1>6, <1>7 DEF Counted
<1>9. stage # "done" /\ stage' # "done" => Held'
  BY <1>1, <1>2 DEF Held, Bytes
<1>10. stage \in {"validate", "probe", "database", "list", "sandbox", "start"} => Held'
  <2> SUFFICES ASSUME stage \in {"validate", "probe", "database", "list", "sandbox", "start"}
               PROVE  Held'
    OBVIOUS
  <2>1. lines = <<>>
    BY <1>1 DEF Placed
  <2>2. at.byte = 0
    BY <1>1, <2>1, LineTypes DEF Placed
  <2>3. scan.buf = <<>>
    BY <1>1, <2>2, LineTypes, NoBytes DEF Held
  <2> QED
    BY <1>1, <1>2, <2>3 DEF Held, Bytes
<1>11. Reasoned'
  BY <1>1, <1>2 DEF Reasoned, IsLastReason
<1> QED
  BY <1>4, <1>8, <1>9, <1>10, <1>11

(* Before the command: a step goes on, or ends the run without a command.   *)
LEMMA PreparationKeepsInv ==
  ASSUME AgentInv, NEW ok \in BOOLEAN, NEW v2 \in BOOLEAN,
         \/ ValidateRequest(ok) \/ ProbeVersion(ok) \/ ListMCPServers(ok) \/ Sandbox(ok)
         \/ TaskDB(ok, v2) \/ StartCommand(ok, v2) \/ StartCodex(ok)
  PROVE  AgentInv'
<1> DEFINE Before == {"validate", "probe", "database", "list", "sandbox", "start"}
<1>1. AgentTypes /\ Concluded
  BY DEF AgentInv
<1>2. /\ stage \in Before
      /\ UNCHANGED <<backend, stopped, streamVars>>
      /\ stage' \in Before \cup {"running", "done"}
      /\ atStart' \in BOOLEAN /\ known' \in BOOLEAN
      /\ fellBack' \in BOOLEAN /\ (backend = "codex" => ~fellBack')
      /\ IF stage' = "done"
         THEN /\ ended' \in {"none", "START_FAILED"}
              /\ verdict'.status \in {"FAILED", "CANCELLED"}
              /\ verdict'.kind \in {"STARTUP", "CANCELLED"}
         ELSE ended' = "none"
  <2>1. ended = "none" \/ stage \notin Before
    BY <1>1 DEF AgentTypes
  <2>2. ASSUME NEW kind \in {"STARTUP", "CANCELLED"}, Fails(kind)
        PROVE  /\ stage' = "done"
               /\ verdict'.status \in {"FAILED", "CANCELLED"}
               /\ verdict'.kind \in {"STARTUP", "CANCELLED"}
    BY <2>2 DEF Fails, NoVerdict
  <2>3. ASSUME Starts(ok)
        PROVE  /\ stage = "start" /\ UNCHANGED <<backend, stopped, known, streamVars>>
               /\ stage' \in {"running", "done"} /\ atStart' \in BOOLEAN
               /\ IF stage' = "done"
                  THEN /\ ended' \in {"none", "START_FAILED"}
                       /\ verdict'.status \in {"FAILED", "CANCELLED"}
                       /\ verdict'.kind \in {"STARTUP", "CANCELLED"}
                  ELSE ended' = "none"
    BY <2>1, <2>2, <2>3, <1>1 DEF Starts, AgentTypes
  <2>4. CASE ValidateRequest(ok)
    BY <2>1, <2>2, <2>4, <1>1 DEF ValidateRequest, AgentTypes
  <2>5. CASE ProbeVersion(ok)
    BY <2>1, <2>2, <2>5, <1>1 DEF ProbeVersion, AgentTypes
  <2>6. CASE ListMCPServers(ok)
    BY <2>1, <2>2, <2>6, <1>1 DEF ListMCPServers, AgentTypes
  <2>7. CASE Sandbox(ok)
    BY <2>1, <2>2, <2>7, <1>1 DEF Sandbox, AgentTypes
  <2>8. CASE TaskDB(ok, v2)
    BY <2>1, <2>2, <2>8, <1>1 DEF TaskDB, AgentTypes
  <2>9. CASE StartCommand(ok, v2)
    BY <2>3, <2>9, <1>1 DEF StartCommand, AgentTypes
  <2>10. CASE StartCodex(ok)
    BY <2>3, <2>10, <1>1 DEF StartCodex, AgentTypes
  <2> QED
    BY <2>4, <2>5, <2>6, <2>7, <2>8, <2>9, <2>10
<1>3. Placed' /\ Counted' /\ Held' /\ Reasoned'
  BY <1>2, StreamUntouched
<1>4. AgentTypes'
  BY <1>1, <1>2 DEF AgentTypes, streamVars
<1>5. Concluded'
  BY <1>2 DEF Concluded
<1> QED
  BY <1>3, <1>4, <1>5 DEF AgentInv

LEMMA CommandEndsKeepsInv ==
  ASSUME AgentInv, NEW how \in {"SUCCEEDED", "FAILED", "TIMED_OUT"}, CommandEnds(how)
  PROVE  AgentInv'
<1>1. /\ stage = "running" /\ stage' = "exited" /\ ended' \in Endings
      /\ UNCHANGED <<backend, stopped, atStart, known, streamVars, fellBack>>
  BY DEF CommandEnds, Endings
<1>2. Placed' /\ Counted' /\ Held' /\ Reasoned'
  BY <1>1, StreamUntouched
<1>3. AgentTypes'
  BY <1>1 DEF AgentInv, AgentTypes, streamVars
<1>4. Concluded'
  BY <1>1 DEF Concluded
<1> QED
  BY <1>2, <1>3, <1>4 DEF AgentInv

LEMMA CancelKeepsInv ==
  ASSUME AgentInv, Cancel
  PROVE  AgentInv'
<1>1. /\ stage # "done" /\ stage' = stage /\ stopped' = TRUE
      /\ UNCHANGED <<backend, atStart, known, streamVars, ended, fellBack>>
  BY DEF Cancel
<1>2. Placed' /\ Counted' /\ Held' /\ Reasoned'
  BY <1>1, StreamUntouched
<1>3. AgentTypes'
  BY <1>1 DEF AgentInv, AgentTypes, streamVars
<1>4. Concluded'
  BY <1>1 DEF Concluded
<1> QED
  BY <1>2, <1>3, <1>4 DEF AgentInv

(* Closing the scanner reads at most what it holds of the last line: as     *)
(* noise, if the line was cut short, ...                                    *)
LEMMA ScannerClosed ==
  ASSUME AgentInv, stage = "exited", PipeEmpty,
         at.line \in DOMAIN lines /\ lines[at.line].missing = 0 => ~Fits(at.line),
         NEW q, q = IF backend = "codex" THEN ConsumeCodex(scan.result, scan.buf)
                    ELSE IF scan.skipping THEN scan.result
                    ELSE Consume(scan.result, scan.buf)
  PROVE  /\ q \in Transcript
         /\ q.read = scan.result.read /\ q.count = scan.result.count
         /\ q.oversized = scan.result.oversized /\ q.reason = scan.result.reason
<1> DEFINE c == at.line
           o == at.byte
           r == scan.result
<1>1. AgentTypes /\ Placed /\ Held
  BY DEF AgentInv
<1>2. /\ c \in Nat \ {0} /\ o \in Nat /\ r \in Transcript /\ MaxEventLine \in Nat
      /\ backend \in {"opencode", "codex"}
      /\ Len(lines) \in Nat /\ DOMAIN lines = 1..Len(lines)
      /\ \A k \in DOMAIN lines : k \in Nat /\ lines[k].length \in Nat
  BY <1>1, LineTypes DEF AgentTypes
<1>3. /\ r = [count |-> r.count, read |-> r.read, reason |-> r.reason,
              oversized |-> r.oversized, unknown |-> r.unknown]
      /\ r.count \in Nat /\ r.read \in Seq(Meanings) /\ r.reason \in EndsStep \cup {"none"}
      /\ r.oversized \in Nat /\ r.unknown \in Nat
  BY <1>2 DEF Transcript
<1>4. /\ scan.skipping = (backend = "opencode" /\ o > MaxEventLine)
      /\ scan.buf = IF scan.skipping THEN <<>> ELSE Bytes(c, 1, o)
  BY <1>1 DEF Held
<1>5. q = r \/ q = [r EXCEPT !.unknown = @ + 1]
  <2>1. CASE scan.buf = <<>>
    BY <2>1 DEF Consume, ConsumeCodex
  <2>2. CASE c \notin DOMAIN lines
    <3>1. o = 0
      BY <2>2, <1>1 DEF Placed
    <3>2. scan.buf = <<>>
      BY <3>1, <1>2, <1>4, NoBytes
    <3> QED
      BY <2>1, <3>2
  <2>3. CASE c \in DOMAIN lines /\ scan.buf # <<>>
    <3>1. o = lines[c].length - lines[c].missing
      BY <2>3, <1>2 DEF PipeEmpty, Written
    <3>2. o # 0 /\ o # lines[c].length
      <4>1. lines[c].missing \in 0..1 /\ lines[c].missing < lines[c].length
        BY <2>3, <1>1, LineTypes DEF Placed
      <4>2. CASE lines[c].missing = 0
        <5>1. backend = "opencode" /\ lines[c].length > MaxEventLine
          BY <2>3, <4>2, <1>2 DEF Fits
        <5>2. scan.skipping
          <6>1. o = lines[c].length
            BY <3>1, <4>2, <1>2, <2>3
          <6> QED
            BY <5>1, <6>1, <1>4
        <5> QED
          BY <5>2, <1>4, <2>3
      <4>3. CASE lines[c].missing = 1
        BY <3>1, <4>1, <4>3, <1>2, <2>3
      <4> QED
        BY <4>1, <4>2, <4>3
    <3>3. scan.buf = Bytes(c, 1, o)
      BY <2>3, <1>4
    <3>4. lines \in Seq(Line) /\ o \in Nat \ {0}
      BY <3>2, <1>1, <1>2 DEF AgentTypes
    <3> HIDE DEF c, o
    <3>5. Parse(Bytes(c, 1, o)) = "noise"
      BY <2>3, <3>2, <3>4, ParseBeginning
    <3> QED
      BY <2>3, <3>3, <3>5 DEF Consume, ConsumeCodex
  <2> QED
    BY <2>1, <2>2, <2>3
<1>6. CASE q = r
  BY <1>2, <1>6
<1>7. CASE q = [r EXCEPT !.unknown = @ + 1]
  <2>1. q = [count |-> r.count, read |-> r.read, reason |-> r.reason,
             oversized |-> r.oversized, unknown |-> r.unknown + 1]
    BY <1>3, <1>7
  <2>2. /\ q.read = r.read /\ q.count = r.count
        /\ q.oversized = r.oversized /\ q.reason = r.reason
    BY <2>1
  <2>3. r.unknown + 1 \in Nat
    BY <1>3
  <2>4. q \in Transcript
    BY <2>1, <2>3, <1>3 DEF Transcript
  <2> QED
    BY <2>2, <2>4
<1> QED
  BY <1>5, <1>6, <1>7

(* ... or as the event it is, if it lacks nothing but its newline.          *)
LEMMA LastLineClosed ==
  ASSUME AgentInv, stage = "exited", PipeEmpty,
         at.line \in DOMAIN lines, lines[at.line].missing = 0, Fits(at.line),
         NEW q, q = IF backend = "codex" THEN ConsumeCodex(scan.result, scan.buf)
                    ELSE IF scan.skipping THEN scan.result
                    ELSE Consume(scan.result, scan.buf)
  PROVE  /\ q \in Transcript
         /\ q.read = IF Known(at.line) THEN Append(scan.result.read, lines[at.line].says)
                     ELSE scan.result.read
         /\ q.count = IF lines[at.line].says = "noise" THEN scan.result.count
                      ELSE scan.result.count + 1
         /\ q.oversized = scan.result.oversized
         /\ q.reason = IF Known(at.line) /\ backend = "opencode"
                       THEN EndsFor(lines[at.line].says, scan.result.reason)
                       ELSE scan.result.reason
<1> DEFINE c == at.line
<1>1. AgentTypes /\ Placed /\ Held
  BY DEF AgentInv
<1>2. /\ c \in Nat \ {0} /\ at.byte \in Nat /\ MaxEventLine \in Nat
      /\ lines[c].length \in Nat \ {0} /\ scan.result \in Transcript
  BY <1>1, LineTypes
<1>3. at.byte = lines[c].length
  BY <1>2 DEF PipeEmpty, Written
<1>4. scan.skipping = FALSE /\ scan.buf = Bytes(c, 1, lines[c].length)
  <2>1. backend = "opencode" => ~(at.byte > MaxEventLine)
    BY <1>2, <1>3 DEF Fits
  <2>2. backend \in {"opencode", "codex"}
    BY <1>1 DEF AgentTypes
  <2> QED
    BY <1>1, <1>3, <2>1, <2>2 DEF Held
<1>5. q = IF backend = "codex" THEN ConsumeCodex(scan.result, Bytes(c, 1, lines[c].length))
          ELSE Consume(scan.result, Bytes(c, 1, lines[c].length))
  BY <1>4
<1> QED
  BY <1>1, <1>2, <1>5, LineConsumed

(* What the closing of the scanner adds to what has been read.              *)
LEMMA ClosingCounted ==
  ASSUME AgentInv, stage = "exited", PipeEmpty, stage' = "done",
         UNCHANGED <<backend, lines, at>>,
         NEW q, q = IF backend = "codex" THEN ConsumeCodex(scan.result, scan.buf)
                    ELSE IF scan.skipping THEN scan.result
                    ELSE Consume(scan.result, scan.buf),
         scan'.result = q
  PROVE  q \in Transcript /\ Counted' /\ Reasoned'
<1> DEFINE c == at.line
           e == lines[c].says
           r == scan.result
           lastEvent == c \in DOMAIN lines /\ lines[c].missing = 0
<1>1. AgentTypes /\ Placed /\ Held /\ Counted /\ Reasoned
  BY DEF AgentInv
<1>2. /\ Finished' = {k \in DOMAIN lines : k < c \/ (k = c /\ lines[k].missing = 0)}
      /\ Finished = {k \in DOMAIN lines : k < c}
  BY DEF Finished
<1>3. Finished' = IF lastEvent THEN Finished \cup {c} ELSE Finished
  BY <1>2
<1>4. \A k \in DOMAIN lines : (Fits(k)' <=> Fits(k)) /\ (Known(k)' <=> Known(k))
  BY DEF Fits, Known
<1>5. Good' = IF lastEvent /\ Fits(c) /\ Known(c) THEN Good \cup {c} ELSE Good
  <2>1. Good' = {k \in Finished' : Fits(k) /\ Known(k)}
    BY DEF Good, Fits, Known
  <2> QED
    BY <2>1, <1>3 DEF Good
<1>6. Long' = Long
  BY DEF Long, Given, Written
<1>7. /\ r \in Transcript /\ r.read \in Seq(Meanings) /\ r.count \in Nat
      /\ r.reason \in EndsStep \cup {"none"}
      /\ r.read = Reported /\ Ranked(Good)
      /\ backend = "opencode" => r.oversized = Cardinality(Long) /\ r.count = Len(r.read)
      /\ r.count > 0 => \E k \in Finished : Fits(k) /\ lines[k].says # "noise"
      /\ backend = "opencode" => IsLastReason(r.read, r.reason)
  BY <1>1, LineTypes DEF Counted, Reasoned, Transcript
<1>8. CASE lastEvent /\ Fits(c)
  <2>1. /\ q \in Transcript
        /\ q.read = IF Known(c) THEN Append(r.read, e) ELSE r.read
        /\ q.count = IF e = "noise" THEN r.count ELSE r.count + 1
        /\ q.oversized = r.oversized
        /\ q.reason = IF Known(c) /\ backend = "opencode" THEN EndsFor(e, r.reason)
                      ELSE r.reason
    BY <1>8, LastLineClosed
  <2>2. e \in Meanings
    BY <1>1, <1>8, LineTypes
  <2>3. Ranked(Good)' /\ q.read = Reported'
    <3>1. CASE Known(c)
      BY <3>1, <1>1, <1>5, <1>7, <1>8, <2>1, ReportedGrows
    <3>2. CASE ~Known(c)
      BY <3>2, <1>5, <1>7, <1>8, <2>1, ReportedStays
    <3> QED
      BY <3>1, <3>2
  <2>4. backend = "opencode" => q.oversized = Cardinality(Long') /\ q.count = Len(q.read)
    <3> SUFFICES ASSUME backend = "opencode"
                 PROVE  q.oversized = Cardinality(Long') /\ q.count = Len(q.read)
      OBVIOUS
    <3>1. Known(c) <=> e # "noise"
      BY DEF Known
    <3>2. Len(Append(r.read, e)) = Len(r.read) + 1
      BY <1>7, <2>2, SeqAppend
    <3> QED
      BY <3>1, <3>2, <1>6, <1>7, <2>1
  <2>5. q.count > 0 => (\E k \in Finished : Fits(k) /\ lines[k].says # "noise")'
    <3>1. CASE e # "noise"
      <4>1. c \in Finished'
        BY <1>3, <1>8
      <4>2. /\ backend' = "codex" \/ lines'[c].length <= MaxEventLine
            /\ lines'[c].says # "noise"
        BY <3>1, <1>8 DEF Fits
      <4> HIDE DEF c, e, r
      <4> QED
        BY <4>1, <4>2 DEF Fits
    <3>2. CASE e = "noise" /\ q.count > 0
      <4>1. \E k \in Finished : Fits(k) /\ lines[k].says # "noise"
        BY <3>2, <1>7, <2>1
      <4> QED
        BY <4>1, <1>3, StillGiven
    <3> QED
      BY <3>1, <3>2
  <2>6. Counted'
    BY <1>6, <2>3, <2>4, <2>5 DEF Counted
  <2>7. Reasoned'
    <3> SUFFICES ASSUME backend = "opencode" PROVE IsLastReason(q.read, q.reason)
      BY DEF Reasoned, IsLastReason
    <3>1. CASE Known(c)
      BY <3>1, <1>7, <2>1, <2>2, ReasonOfMore
    <3>2. CASE ~Known(c)
      BY <3>2, <1>7, <2>1
    <3> QED
      BY <3>1, <3>2
  <2> QED
    BY <2>1, <2>6, <2>7
<1>9. CASE ~(lastEvent /\ Fits(c))
  <2>1. /\ q \in Transcript /\ q.read = r.read /\ q.count = r.count
        /\ q.oversized = r.oversized /\ q.reason = r.reason
    BY <1>9, ScannerClosed
  <2>2. Good' = Good /\ Finished \subseteq Finished'
    BY <1>3, <1>5, <1>9
  <2>3. Reported' = Reported /\ Ranked(Good)'
    BY <2>2, <1>7, ReportedStays
  <2>4. r.count > 0 => (\E k \in Finished : Fits(k) /\ lines[k].says # "noise")'
    BY <2>2, <1>7, StillGiven
  <2>5. Counted'
    BY <1>6, <1>7, <2>1, <2>3, <2>4 DEF Counted
  <2>6. Reasoned'
    BY <1>7, <2>1 DEF Reasoned, IsLastReason
  <2> QED
    BY <2>1, <2>5, <2>6
<1> QED
  BY <1>8, <1>9

LEMMA ConclusionKeepsInv ==
  ASSUME AgentInv, Return \/ ReturnCodex
  PROVE  AgentInv'
<1> DEFINE q == scan'.result
<1>1. AgentTypes /\ Placed /\ Held /\ Counted /\ Reasoned
  BY DEF AgentInv
<1>2. /\ stage = "exited" /\ PipeEmpty /\ stage' = "done"
      /\ UNCHANGED <<backend, stopped, atStart, known, lines, at, ended, fellBack>>
  BY DEF Return, ReturnCodex, Concludes
<1>3. scan = [buf |-> scan.buf, skipping |-> scan.skipping, result |-> scan.result]
      /\ scan.skipping \in BOOLEAN
  BY <1>1 DEF AgentTypes, Scanner
<1>4. /\ scan'.buf = <<>> /\ scan'.skipping \in BOOLEAN
      /\ scan' = [buf |-> scan'.buf, skipping |-> scan'.skipping, result |-> q]
      /\ q = IF backend = "codex" THEN ConsumeCodex(scan.result, scan.buf)
             ELSE IF scan.skipping THEN scan.result
             ELSE Consume(scan.result, scan.buf)
      /\ verdict' = IF backend = "codex" THEN ClassifyCodex(ended, q)
                    ELSE ClassifyOpenCode(ended, q)
  <2>1. CASE Return
    <3>1. /\ scan' = Close(scan) /\ backend = "opencode"
          /\ verdict' = ClassifyOpenCode(ended, Close(scan).result)
      BY <2>1 DEF Return, Concludes
    <3>2. Close(scan) = [buf |-> <<>>, skipping |-> FALSE,
                         result |-> IF scan.skipping THEN scan.result
                                    ELSE Consume(scan.result, scan.buf)]
      <4>1. PICK z : z = IF scan.skipping THEN scan.result
                         ELSE Consume(scan.result, scan.buf)
        OBVIOUS
      <4>2. Close(scan) = [NewEventScanner EXCEPT !.result = z]
        BY <4>1 DEF Close
      <4>3. Close(scan) = [buf |-> <<>>, skipping |-> FALSE, result |-> z]
        BY <4>2 DEF NewEventScanner
      <4> QED
        BY <4>1, <4>3
    <3>3. /\ scan'.buf = <<>> /\ scan'.skipping = FALSE
          /\ q = IF scan.skipping THEN scan.result ELSE Consume(scan.result, scan.buf)
      BY <3>1, <3>2
    <3> QED
      BY <3>1, <3>2, <3>3
  <2>2. CASE ReturnCodex
    <3>1. /\ scan' = CloseCodex(scan) /\ backend = "codex"
          /\ verdict' = ClassifyCodex(ended, CloseCodex(scan).result)
      BY <2>2 DEF ReturnCodex, Concludes
    <3>2. CloseCodex(scan) = [buf |-> <<>>, skipping |-> scan.skipping,
                              result |-> ConsumeCodex(scan.result, scan.buf)]
      <4>1. PICK z : z = ConsumeCodex(scan.result, scan.buf)
        OBVIOUS
      <4>2. CloseCodex(scan) = [scan EXCEPT !.buf = <<>>, !.result = z]
        BY <4>1 DEF CloseCodex
      <4>3. CloseCodex(scan) = [buf |-> <<>>, skipping |-> scan.skipping, result |-> z]
        BY <1>3, <4>2
      <4> QED
        BY <4>1, <4>3
    <3>3. /\ scan'.buf = <<>> /\ scan'.skipping = scan.skipping
          /\ q = ConsumeCodex(scan.result, scan.buf)
      BY <3>1, <3>2
    <3> QED
      BY <1>3, <3>1, <3>2, <3>3
  <2> QED
    BY <2>1, <2>2
<1>5. q \in Transcript /\ Counted' /\ Reasoned'
  BY <1>2, <1>4, ClosingCounted
<1>6. scan' \in Scanner
  <2>1. <<>> \in Seq(Nat \X Nat)
    OBVIOUS
  <2> QED
    BY <2>1, <1>4, <1>5 DEF Scanner
<1>7. AgentTypes'
  BY <1>1, <1>2, <1>6 DEF AgentTypes
<1>8. Placed'
  BY <1>1, <1>2 DEF Placed, Written
<1>9. Held'
  BY <1>2, <1>4 DEF Held
<1>10. Concluded'
  <2>1. ended' \in Endings
    BY <1>1, <1>2 DEF AgentTypes
  <2>2. ClassifyOpenCode(ended, scan.result)' = ClassifyOpenCode(ended, q)
    BY <1>2 DEF ClassifyOpenCode
  <2>3. ClassifyCodex(ended, scan.result)' = ClassifyCodex(ended, q)
    BY <1>2 DEF ClassifyCodex
  <2>4. verdict' = IF backend' = "codex" THEN ClassifyCodex(ended, scan.result)'
                   ELSE ClassifyOpenCode(ended, scan.result)'
    BY <2>2, <2>3, <1>2, <1>4
  <2> QED
    BY <2>1, <2>4 DEF Concluded
<1> QED
  BY <1>5, <1>7, <1>8, <1>9, <1>10 DEF AgentInv

LEMMA AgentInitInv == AgentInit => AgentInv
<1> SUFFICES ASSUME AgentInit PROVE AgentInv
  OBVIOUS
<1>1. /\ stage = "validate" /\ backend \in {"opencode", "codex"}
      /\ stopped = FALSE /\ atStart = FALSE /\ known \in BOOLEAN
      /\ lines = <<>> /\ at = [line |-> 1, byte |-> 0]
      /\ scan = [buf |-> <<>>, skipping |-> FALSE, result |-> EmptyTranscript]
      /\ ended = "none" /\ fellBack = FALSE
  BY AgentRunAssumption DEF AgentInit, NewEventScanner
<1>2. lines \in Seq(Line) /\ DOMAIN lines = {} /\ Len(lines) = 0
  BY <1>1
<1>3. EmptyTranscript \in Transcript
  BY DEF EmptyTranscript, Transcript
<1>4. scan \in Scanner
  BY <1>1, <1>3 DEF Scanner
<1>5. at.line = 1 /\ at.byte = 0 /\ at \in [line : Nat \ {0}, byte : Nat]
  BY <1>1
<1>6. AgentTypes
  BY <1>1, <1>2, <1>4, <1>5 DEF AgentTypes
<1>7. Placed
  BY <1>1, <1>2, <1>5 DEF Placed
<1>8. Held
  <2>1. ~(0 > MaxEventLine) /\ Bytes(1, 1, 0) = <<>>
    BY <1>6, LineTypes, NoBytes
  <2> QED
    BY <1>1, <1>5, <2>1 DEF Held
<1>9. /\ Good = {} /\ Noise = {} /\ Long = {}
  BY <1>2 DEF Good, Noise, Long, Finished
<1>10. Cardinality({}) = 0
  BY FS_EmptySet
<1>11. Reported = <<>> /\ Ranked(Good)
  <2>1. Reported = [i \in 1..Cardinality(Good) |-> lines[Nth(Good, i)].says]
    BY DEF Reported, Good
  <2>2. 1..Cardinality(Good) = {}
    BY <1>9, <1>10
  <2> QED
    BY <2>1, <2>2 DEF Ranked
<1>12. /\ scan.result.read = <<>> /\ scan.result.unknown = 0 /\ scan.result.oversized = 0
       /\ scan.result.count = 0 /\ scan.result.reason = "none"
  BY <1>1 DEF EmptyTranscript
<1>13. Counted
  BY <1>9, <1>10, <1>11, <1>12 DEF Counted
<1>14. Reasoned
  BY <1>12 DEF Reasoned, IsLastReason
<1>15. Concluded
  BY <1>1 DEF Concluded
<1> QED
  BY <1>6, <1>7, <1>8, <1>13, <1>14, <1>15 DEF AgentInv

LEMMA AgentStepInv == AgentInv /\ [AgentNext]_agentVars => AgentInv'
<1> SUFFICES ASSUME AgentInv, [AgentNext]_agentVars PROVE AgentInv'
  OBVIOUS
<1>1. ASSUME NEW ok \in BOOLEAN,
             ValidateRequest(ok) \/ ProbeVersion(ok) \/ ListMCPServers(ok) \/ Sandbox(ok)
             \/ StartCodex(ok)
      PROVE  AgentInv'
  BY <1>1, PreparationKeepsInv
<1>2. ASSUME NEW ok \in BOOLEAN, NEW v2 \in BOOLEAN,
             TaskDB(ok, v2) \/ StartCommand(ok, v2)
      PROVE  AgentInv'
  BY <1>2, PreparationKeepsInv
<1>3. ASSUME NEW says \in Meanings, NEW length \in 1..MaxLength,
             NEW whole \in BOOLEAN, NEW missing \in 0..1,
             AgentWrites(says, length, whole, missing)
      PROVE  AgentInv'
  <2>1. length \in Nat \ {0}
    OBVIOUS
  <2> QED
    BY <1>3, <2>1, AgentWritesKeepsInv
<1>4. ASSUME NEW n \in 0..MaxLength, NEW nl \in BOOLEAN, Tee(n, nl)
      PROVE  AgentInv'
  <2>1. n \in Nat
    BY AgentRunAssumption
  <2> QED
    BY <1>4, <2>1, TeeKeepsInv
<1>5. ASSUME NEW how \in {"SUCCEEDED", "FAILED", "TIMED_OUT"}, CommandEnds(how)
      PROVE  AgentInv'
  BY <1>5, CommandEndsKeepsInv
<1>6. CASE Cancel
  BY <1>6, CancelKeepsInv
<1>7. CASE Return \/ ReturnCodex
  BY <1>7, ConclusionKeepsInv
<1>8. CASE UNCHANGED agentVars
  <2>1. /\ UNCHANGED <<stage, backend, stopped, atStart, known, streamVars, ended,
                       fellBack, verdict>>
    BY <1>8 DEF agentVars, streamVars
  <2>2. Placed' /\ Reasoned' /\ Counted'
    BY <2>1, StreamUntouched
  <2>3. Held'
    <3>1. CASE stage # "done"
      BY <2>1, <3>1, StreamUntouched
    <3>2. CASE stage = "done"
      BY <2>1, <3>2 DEF AgentInv, Held, streamVars
    <3> QED
      BY <3>1, <3>2
  <2>4. AgentTypes'
    BY <2>1 DEF AgentInv, AgentTypes, streamVars
  <2>5. /\ ClassifyOpenCode(ended, scan.result)' = ClassifyOpenCode(ended, scan.result)
        /\ ClassifyCodex(ended, scan.result)' = ClassifyCodex(ended, scan.result)
    BY <2>1 DEF ClassifyOpenCode, ClassifyCodex, streamVars
  <2>6. Concluded'
    BY <2>1, <2>5 DEF AgentInv, Concluded
  <2> QED
    BY <2>2, <2>3, <2>4, <2>6 DEF AgentInv
<1> QED
  BY <1>1, <1>2, <1>3, <1>4, <1>5, <1>6, <1>7, <1>8 DEF AgentNext

(* The invariant: types, the place of the reader in the stream, what the      *)
(* scanner holds, what it has counted, its last reason, and the verdict.     *)
THEOREM AgentInvProved == AgentSpec => []AgentInv
<1> QED
  BY AgentInitInv, AgentStepInv, PTL DEF AgentSpec

-----------------------------------------------------------------------------
(* What the transcript's reason says of the stream.                         *)
LEMMA CutShortSaysSo ==
  ASSUME NEW read \in Seq(Meanings), NEW reason \in EndsStep \cup {"none"},
         IsLastReason(read, reason), NEW R, R = {i \in DOMAIN read : read[i] \in EndsStep}
  PROVE  reason = "tool-calls" <=>
           \E i \in R : read[i] = "tool-calls" /\ \A j \in R : j <= i
<1>1. \A i \in DOMAIN read : i \in Nat
  OBVIOUS
<1>2. CASE reason = "none"
  BY <1>2 DEF IsLastReason, EndsStep
<1>3. CASE reason # "none"
  <2>1. PICK i \in DOMAIN read : /\ read[i] = reason
                                 /\ \A j \in DOMAIN read : j > i => read[j] \notin EndsStep
    BY <1>3 DEF IsLastReason
  <2>2. reason \in EndsStep
    BY <1>3
  <2>3. i \in R /\ \A j \in R : j <= i
    BY <1>1, <2>1, <2>2
  <2>4. \A k \in R : (\A j \in R : j <= k) => k = i
    BY <1>1, <2>3
  <2> QED
    BY <2>1, <2>3, <2>4
<1> QED
  BY <1>2, <1>3

(* However the stream is cut, at every length of line and limit of the       *)
(* scanner: every finished line that fits has been read once and in order,  *)
(* every line that does not fit is counted once, and what is held is        *)
(* bounded (eventScanner.Write, codexScanner.Write, Close).                 *)
THEOREM StreamRead == AgentSpec => []StreamIsReadWhole
<1>1. ASSUME AgentInv PROVE StreamIsReadWhole
  <2>1. AgentTypes /\ Held /\ Counted
    BY <1>1 DEF AgentInv
  <2>2. backend = "opencode" => Len(scan.buf) <= MaxEventLine
    <3> SUFFICES ASSUME backend = "opencode" PROVE Len(scan.buf) <= MaxEventLine
      OBVIOUS
    <3>1. at.line \in Nat /\ at.byte \in Nat /\ MaxEventLine \in Nat
      BY <2>1, LineTypes
    <3>2. Len(<<>>) <= MaxEventLine
      BY <3>1
    <3>3. CASE scan.buf = <<>>
      BY <3>2, <3>3
    <3>4. CASE scan.buf # <<>>
      <4>1. scan.buf = Bytes(at.line, 1, at.byte) /\ ~(at.byte > MaxEventLine)
        BY <2>1, <3>4 DEF Held
      <4>2. Len(Bytes(at.line, 1, at.byte)) = at.byte
        BY <3>1, Beginning
      <4> QED
        BY <3>1, <4>1, <4>2
    <3> QED
      BY <3>3, <3>4
  <2> QED
    BY <2>1, <2>2 DEF StreamIsReadWhole, Counted, Noise, Long
<1> QED
  BY <1>1, AgentInvProved, PTL

(* A codex transcript names only what its scanner knows.                    *)
LEMMA CodexSaysWhatItKnows ==
  ASSUME AgentInv, backend = "codex"
  PROVE  \A i \in DOMAIN Reported : Reported[i] \in CodexKnows
<1>1. Reported = [n \in 1..Cardinality(Good) |-> lines[Nth(Good, n)].says]
  BY DEF Reported, Good
<1>2. \A n \in 1..Cardinality(Good) : Nth(Good, n) \in Good
  BY DEF AgentInv, Counted, Ranked
<1>3. \A k \in Good : lines[k].says \in CodexKnows
  BY DEF Good, Known
<1> QED
  BY <1>1, <1>2, <1>3

(* Success is earned, whatever the agent writes and however its process     *)
(* ends: exit 0 by itself, with the agent that was asked for, something      *)
(* read, no error among the finished lines that the scanner could hold, and  *)
(* no last step among them that was cut short; and what no retry can help,   *)
(* as those lines say it, is never put down as the agent's failure           *)
(* (classify, classifyCodex, willRetry).                                    *)
THEOREM EarnedProved == AgentSpec => []SuccessIsEarned
<1>1. ASSUME AgentInv PROVE SuccessIsEarned
  <2> DEFINE said == Reported
             has(what) == \E i \in DOMAIN said : said[i] = what
             R == {i \in DOMAIN said : said[i] \in {"stop", "tool-calls"}}
             unfinished == \E i \in R : said[i] = "tool-calls" /\ \A j \in R : j <= i
             T == scan.result
  <2> SUFFICES ASSUME stage = "done"
               PROVE  /\ verdict.status = "SUCCEEDED" =>
                           /\ ended = "SUCCEEDED" /\ ~fellBack
                           /\ backend = "opencode" => said # <<>>
                           /\ \E k \in Finished : Fits(k) /\ lines[k].says # "noise"
                           /\ ~has("error") /\ ~has("no-route")
                           /\ backend = "opencode" /\ unfinished =>
                                ~has("refused") /\ said[Len(said)] = "text"
                      /\ verdict.kind \in {"AGENT_EXIT", "AGENT_ERROR"} /\ ~verdict.refused =>
                           /\ ~(backend = "opencode" /\ has("no-route"))
                           /\ ~(backend = "opencode" /\ ended = "SUCCEEDED" /\ ~has("error")
                                /\ unfinished /\ has("refused"))
    BY DEF SuccessIsEarned
  <2>1. AgentTypes /\ Counted /\ Reasoned /\ Concluded
    BY <1>1 DEF AgentInv
  <2>2. /\ T.read = said /\ T.read \in Seq(Meanings) /\ T.count \in Nat
        /\ T.reason \in EndsStep \cup {"none"}
    BY <2>1, LineTypes DEF Counted, Transcript
  <2>3. T.count # 0 => \E k \in Finished : Fits(k) /\ lines[k].says # "noise"
    BY <2>1, <2>2 DEF Counted
  <2>4. \A S : Says(T, S) <=> \E i \in DOMAIN said : said[i] \in S
    BY <2>2 DEF Says
  <2>5. /\ Says(T, {"error", "no-route"}) <=> has("error") \/ has("no-route")
        /\ Says(T, {"error"}) <=> has("error")
        /\ Says(T, {"no-route"}) <=> has("no-route")
        /\ Says(T, {"refused"}) <=> has("refused")
    BY <2>4
  <2>6. LastEvent(T) = said[Len(said)]
    BY <2>2 DEF LastEvent
  <2>7. CASE ended \in {"none", "START_FAILED"}
    BY <2>1, <2>7 DEF Concluded, Endings
  <2>8. CASE ended \in Endings /\ backend = "opencode"
    <3>1. verdict = ClassifyOpenCode(ended, T)
      BY <2>1, <2>8 DEF Concluded, Endings
    <3>2. CutShort(T) <=> unfinished
      <4>1. IsLastReason(T.read, T.reason)
        BY <2>1, <2>8 DEF Reasoned
      <4>2. R = {i \in DOMAIN T.read : T.read[i] \in EndsStep}
        BY <2>2 DEF EndsStep
      <4>3. T.reason = "tool-calls" <=>
              \E i \in R : T.read[i] = "tool-calls" /\ \A j \in R : j <= i
        BY <2>2, <4>1, <4>2, CutShortSaysSo
      <4> QED
        BY <2>2, <4>3 DEF CutShort
    <3>3. T.count # 0 => said # <<>>
      <4>1. T.count = Len(said)
        BY <2>1, <2>2, <2>8 DEF Counted
      <4> QED
        BY <4>1
    <3> HIDE DEF said, has, R, unfinished, T
    <3>5. CASE ended = "CANCELLED"
      BY <3>1, <3>5 DEF ClassifyOpenCode, Judged
    <3>6. CASE ended = "TIMED_OUT"
      <4>1. verdict = Judged("TIMED_OUT", "TIMEOUT", FALSE)
        BY <3>1, <3>6 DEF ClassifyOpenCode
      <4> QED
        BY <4>1 DEF Judged
    <3>7. CASE ended = "FAILED"
      <4>1. verdict =
              IF fellBack THEN Judged("FAILED", "STARTUP", FALSE)
              ELSE IF Says(T, {"error", "no-route"})
              THEN Judged("FAILED", IF Says(T, {"no-route"}) THEN "STARTUP"
                                    ELSE "AGENT_ERROR", FALSE)
              ELSE Judged("FAILED", "AGENT_EXIT", FALSE)
        BY <3>1, <3>7 DEF ClassifyOpenCode
      <4>2. verdict.status = "FAILED"
        BY <4>1 DEF Judged
      <4>3. verdict.kind \in {"AGENT_EXIT", "AGENT_ERROR"} => ~Says(T, {"no-route"})
        <5>1. CASE fellBack
          BY <4>1, <5>1 DEF Judged
        <5>2. CASE ~fellBack /\ Says(T, {"error", "no-route"})
          BY <4>1, <5>2 DEF Judged
        <5>3. CASE ~fellBack /\ ~Says(T, {"error", "no-route"})
          BY <2>5, <5>3
        <5> QED
          BY <5>1, <5>2, <5>3
      <4> QED
        BY <2>5, <3>7, <4>2, <4>3
    <3>8. CASE ended = "SUCCEEDED"
      <4>1. verdict =
              IF fellBack THEN Judged("FAILED", "STARTUP", FALSE)
              ELSE IF Says(T, {"error", "no-route"})
              THEN Judged("FAILED", IF Says(T, {"no-route"}) THEN "STARTUP"
                                    ELSE "AGENT_ERROR", FALSE)
              ELSE IF T.count = 0 THEN Judged("FAILED", "UNKNOWN", FALSE)
              ELSE IF ~CutShort(T) THEN Judged("SUCCEEDED", "NONE", FALSE)
              ELSE IF Says(T, {"refused"}) THEN Judged("FAILED", "AGENT_ERROR", TRUE)
              ELSE IF LastEvent(T) = "text" THEN Judged("SUCCEEDED", "NONE", FALSE)
              ELSE Judged("FAILED", "AGENT_ERROR", FALSE)
        BY <3>1, <3>8 DEF ClassifyOpenCode
      <4>2. verdict.status = "SUCCEEDED" =>
              /\ ~fellBack /\ ~Says(T, {"error", "no-route"}) /\ T.count # 0
              /\ CutShort(T) => ~Says(T, {"refused"}) /\ LastEvent(T) = "text"
        BY <4>1 DEF Judged
      <4>3. verdict.kind \in {"AGENT_EXIT", "AGENT_ERROR"} /\ ~verdict.refused =>
              /\ ~Says(T, {"no-route"}) \/ ~Says(T, {"error", "no-route"})
              /\ Says(T, {"error", "no-route"}) \/ ~CutShort(T) \/ ~Says(T, {"refused"})
        BY <4>1 DEF Judged
      <4>4. verdict.status = "SUCCEEDED" =>
              /\ ended = "SUCCEEDED" /\ ~fellBack
              /\ backend = "opencode" => said # <<>>
              /\ \E k \in Finished : Fits(k) /\ lines[k].says # "noise"
              /\ ~has("error") /\ ~has("no-route")
              /\ backend = "opencode" /\ unfinished =>
                   ~has("refused") /\ said[Len(said)] = "text"
        BY <2>3, <2>5, <2>6, <3>2, <3>3, <3>8, <4>2
      <4>5. verdict.kind \in {"AGENT_EXIT", "AGENT_ERROR"} /\ ~verdict.refused =>
              /\ ~has("no-route")
              /\ ~(~has("error") /\ unfinished /\ has("refused"))
        BY <2>5, <3>2, <4>3
      <4> QED
        BY <4>4, <4>5
    <3> QED
      BY <2>8, <3>5, <3>6, <3>7, <3>8 DEF Endings
  <2>9. CASE ended \in Endings /\ backend = "codex"
    <3>1. verdict = ClassifyCodex(ended, T) /\ ~fellBack
      BY <2>1, <2>9 DEF Concluded, Endings, AgentTypes
    <3>2. ~has("no-route")
      <4>1. \A i \in DOMAIN said : said[i] \in CodexKnows
        BY <1>1, <2>9, CodexSaysWhatItKnows
      <4> QED
        BY <4>1 DEF CodexKnows
    <3> HIDE DEF said, has, R, unfinished, T
    <3>5. CASE ended = "CANCELLED"
      BY <2>9, <3>1, <3>5 DEF ClassifyCodex, Judged
    <3>6. CASE ended = "TIMED_OUT"
      BY <2>9, <3>1, <3>6 DEF ClassifyCodex, Judged
    <3>7. CASE ended = "FAILED"
      BY <2>5, <2>9, <3>1, <3>2, <3>7 DEF ClassifyCodex, Judged
    <3>8. CASE ended = "SUCCEEDED"
      <4>1. verdict = IF Says(T, {"error"}) THEN Judged("FAILED", "AGENT_ERROR", FALSE)
                      ELSE IF T.count = 0 THEN Judged("FAILED", "UNKNOWN", FALSE)
                      ELSE Judged("SUCCEEDED", "NONE", FALSE)
        BY <3>1, <3>8 DEF ClassifyCodex
      <4>2. verdict.status = "SUCCEEDED" => ~Says(T, {"error"}) /\ T.count # 0
        BY <4>1 DEF Judged
      <4>3. backend # "opencode"
        BY <2>9
      <4>4. verdict.status = "SUCCEEDED" =>
              /\ \E k \in Finished : Fits(k) /\ lines[k].says # "noise"
              /\ ~has("error")
        BY <2>3, <2>5, <4>2
      <4> QED
        BY <3>1, <3>2, <3>8, <4>3, <4>4
    <3> QED
      BY <2>9, <3>5, <3>6, <3>7, <3>8 DEF Endings
  <2> QED
    BY <2>1, <2>7, <2>8, <2>9 DEF AgentTypes
<1> QED
  BY <1>1, AgentInvProved, PTL

=============================================================================
