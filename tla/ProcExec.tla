------------------------------ MODULE ProcExec ------------------------------
(***************************************************************************)
(* One call of procexec.Run: a command in its own process group, its       *)
(* deadline, the caller's cancellation, the grace period after SIGTERM,    *)
(* the helpers that outlive the command, and the captured output.          *)
(*                                                                         *)
(* A process is in the command's group or has left it (a new session); it  *)
(* holds the output pipe or not; it dies of SIGTERM or is deaf to it.  A   *)
(* deaf process may still exit, which covers a handler that cleans up and  *)
(* exits 0.  Time is reduced to the grace period running and being over.   *)
(*                                                                         *)
(* A process may also carry the tag of a run that follows sessions, as     *)
(* long as nobody between it and the command cleared its environment.      *)
(* taggedProcesses lists /proc first and then reads one environ after the  *)
(* other; the listing is one instant, and processes come and go between    *)
(* it and each read.  A read fails only when its process is gone: one that *)
(* aidev's user may not read counts as one without the tag.  The signals   *)
(* that follow a scan are one step, since what is started between two of   *)
(* them might as well have been started before both.                       *)
(***************************************************************************)
EXTENDS Integers, Sequences, FiniteSets

CONSTANTS
    Child,      \* the command itself
    Helpers,    \* the processes it may start
    Limit,      \* Spec.MaxOutputBytes
    MaxBytes    \* bound: how much is written

ASSUME ProcExecAssumption ==
    /\ Child \notin Helpers
    /\ IsFiniteSet(Helpers)
    /\ Limit \in Nat \ {0}
    /\ MaxBytes \in Nat

VARIABLES
    pc,         \* where Run is
    follow,     \* Spec.FollowSessions
    proc,       \* the processes
    exit,       \* how the child ended: with 0, or with another code or a signal
    cancelled,  \* ctx.Err() # nil
    expired,    \* the spec's own deadline has passed
    watch,      \* exec's goroutine that waits for the context, and cmd.Cancel
    grace,      \* the grace period in force
    gaveUp,     \* Wait returned exec.ErrWaitDelay
    scanning,   \* taggedProcesses is running
    unread,     \* the processes it listed whose environ it has not read yet
    seen,       \* the processes it found
    late,       \* history: processes started after its listing
    buffer,     \* the boundedBuffer of the output
    outcome     \* Result.Outcome

looking == <<scanning, unread, seen, late>>

vars == <<pc, follow, proc, exit, cancelled, expired, watch, grace, gaveUp, looking,
          buffer, outcome>>

Procs == Helpers \cup {Child}

Outcomes == {"none", "SUCCEEDED", "FAILED", "TIMED_OUT", "CANCELLED", "START_FAILED"}

Unborn ==
    [state |-> "unborn", group |-> FALSE, tagged |-> FALSE, pipe |-> FALSE, deaf |-> FALSE]

-----------------------------------------------------------------------------
(* boundedBuffer.  The byte at position i of the stream is the number i.   *)

HeadRoom == Limit \div 2

EmptyBuffer == [head |-> <<>>, tail |-> <<>>, total |-> 0]

\* Mistake: both halves are rounded down, so an odd limit loses a byte.
TailRoomRoundedDown == Limit \div 2

TailRoom == Limit - Limit \div 2

\* The newest bytes of s that fit in n.
Newest(s, n) == IF Len(s) > n THEN SubSeq(s, Len(s) - n + 1, Len(s)) ELSE s

\* Write(p): the head takes what it has room for, the rest goes to the tail.
Write(b, p) ==
    LET room == HeadRoom - Len(b.head)
        taken == IF room <= 0 THEN 0 ELSE IF Len(p) <= room THEN Len(p) ELSE room
        rest == SubSeq(p, taken + 1, Len(p))
    IN  [head  |-> b.head \o SubSeq(p, 1, taken),
         tail  |-> Newest(b.tail \o rest, TailRoom),
         total |-> b.total + Len(p)]

Dropped(b) == b.total - Len(b.head) - Len(b.tail)

Truncated(b) == b.total > Len(b.head) + Len(b.tail)

-----------------------------------------------------------------------------
(* The processes.                                                          *)

Alive(p) == proc[p].state = "running"

Group == {p \in Procs : Alive(p) /\ proc[p].group}

Tagged == {p \in Procs : Alive(p) /\ proc[p].tagged}

\* taggedProcesses begins: os.ReadDir("/proc").
List ==
    /\ scanning' = TRUE
    /\ unread' = Tagged
    /\ seen' = {}
    /\ late' = {}

\* taggedProcesses has returned, and its caller is done with what it found.
Forget ==
    /\ scanning' = FALSE
    /\ seen' = {}
    /\ late' = {}
    /\ UNCHANGED unread

\* The same, when it was the last scan of the run: late stays, as history.
Conclude ==
    /\ scanning' = FALSE
    /\ seen' = {}
    /\ UNCHANGED <<unread, late>>

Scanned == scanning /\ unread = {}

Killed(S) == [p \in Procs |-> IF p \in S THEN [Unborn EXCEPT !.state = "gone"] ELSE proc[p]]

\* How the child has ended once the processes of S are killed.
ExitAfter(S) == IF Child \in S /\ Alive(Child) THEN "other" ELSE exit

\* terminateGroup: SIGTERM to what the scan found, and to the group.
Terminable == {p \in seen \cup Group : ~proc[p].deaf}

RunCtxDone == cancelled \/ expired

Init ==
    /\ pc = "validate"
    /\ follow \in BOOLEAN
    /\ proc = [p \in Procs |-> Unborn]
    /\ exit = "none"
    /\ cancelled \in BOOLEAN
    /\ expired = FALSE
    /\ watch = "off"
    /\ grace = "none"
    /\ gaveUp = FALSE
    /\ scanning = FALSE
    /\ unread = {}
    /\ seen = {}
    /\ late = {}
    /\ buffer = EmptyBuffer
    /\ outcome = "none"

\* Spec.Validate: a spec that cannot be run is refused before anything starts.
Validate ==
    /\ pc = "validate"
    /\ \/ pc' = "start" /\ UNCHANGED outcome
       \/ pc' = "done" /\ outcome' = "START_FAILED"
    /\ UNCHANGED <<follow, proc, exit, cancelled, expired, watch, grace, gaveUp,
                   looking, buffer>>

\* cmd.Start fails: a missing executable, or a context that is done already.
StartFails ==
    /\ pc = "start"
    /\ pc' = "done"
    /\ outcome' = "START_FAILED"
    /\ UNCHANGED <<follow, proc, exit, cancelled, expired, watch, grace, gaveUp,
                   looking, buffer>>

\* cmd.Start: it refuses a context that is already done.
Start ==
    /\ pc = "start"
    /\ ~RunCtxDone
    /\ \E deaf \in BOOLEAN :
          proc' = [proc EXCEPT ![Child] =
                     [state |-> "running", group |-> TRUE, tagged |-> follow, pipe |-> TRUE,
                      deaf |-> deaf]]
    /\ watch' = "watching"
    /\ pc' = "wait"
    /\ UNCHANGED <<follow, exit, cancelled, expired, grace, gaveUp, looking, buffer,
                   outcome>>

\* Helpers are told apart by what they do, so the names are given in one order.
NextHelper == CHOOSE h \in Helpers : proc[h].state = "unborn"

\* A process of the run starts a helper, which may leave the group, may have
\* its environment cleared or its output elsewhere, and may ignore SIGTERM.
Spawn(p, h) ==
    /\ pc # "done"
    /\ Alive(p)
    /\ proc[h].state = "unborn" /\ h = NextHelper
    /\ \E stays, inherits, shares, deaf \in BOOLEAN :
          proc' = [proc EXCEPT ![h] =
                     [state |-> "running", group |-> proc[p].group /\ stays,
                      tagged |-> proc[p].tagged /\ inherits,
                      pipe |-> proc[p].pipe /\ shares, deaf |-> deaf]]
    /\ late' = IF scanning \/ pc = "classify" THEN late \cup {h} ELSE late
    /\ UNCHANGED <<pc, follow, exit, cancelled, expired, watch, grace, gaveUp,
                   scanning, unread, seen, buffer, outcome>>

\* A process that holds the pipe writes n bytes; the copying goroutine passes
\* them to the buffer as long as Wait has not closed the pipe.
Output(p, n) ==
    /\ pc \in {"wait", "drain"}
    /\ Alive(p)
    /\ proc[p].pipe
    /\ buffer.total + n <= MaxBytes
    /\ buffer' = Write(buffer, [i \in 1 .. n |-> buffer.total + i])
    /\ UNCHANGED <<pc, follow, proc, exit, cancelled, expired, watch, grace, gaveUp,
                   looking, outcome>>

\* A process exits by itself, or something other than Run kills it.
Exit(p) ==
    /\ Alive(p)
    /\ pc # "done"
    /\ proc' = Killed({p})
    /\ \/ p = Child /\ exit' \in {"zero", "other"}
       \/ p # Child /\ UNCHANGED exit
    /\ UNCHANGED <<pc, follow, cancelled, expired, watch, grace, gaveUp, looking,
                   buffer, outcome>>

\* The caller cancels its context.
CallerCancels ==
    /\ pc # "done"
    /\ ~cancelled
    /\ cancelled' = TRUE
    /\ UNCHANGED <<pc, follow, proc, exit, expired, watch, grace, gaveUp, looking,
                   buffer, outcome>>

\* The deadline of the spec passes.
Timeout ==
    /\ pc \notin {"validate", "done"}
    /\ ~expired
    /\ expired' = TRUE
    /\ UNCHANGED <<pc, follow, proc, exit, cancelled, watch, grace, gaveUp, looking,
                   buffer, outcome>>

GraceEnds ==
    /\ grace = "running"
    /\ grace' = "over"
    /\ UNCHANGED <<pc, follow, proc, exit, cancelled, expired, watch, gaveUp,
                   looking, buffer, outcome>>

-----------------------------------------------------------------------------
(* Start, Wait and what follows them.                                      *)

\* exec sees the context done before it sees the child reaped: cmd.Cancel,
\* whose terminateGroup first looks for the tagged processes ...
CancelFires ==
    /\ pc = "wait"
    /\ watch = "watching"
    /\ RunCtxDone
    /\ watch' = "cancelling"
    /\ List
    /\ UNCHANGED <<pc, follow, proc, exit, cancelled, expired, grace, gaveUp, buffer,
                   outcome>>

\* ... and then sends SIGTERM.  WaitDelay runs from here.
CancelTerminates ==
    /\ watch = "cancelling"
    /\ Scanned
    /\ watch' = "terminated"
    /\ grace' = "running"
    /\ proc' = Killed(Terminable)
    /\ exit' = ExitAfter(Terminable)
    /\ Forget
    /\ UNCHANGED <<pc, follow, cancelled, expired, gaveUp, buffer, outcome>>

\* taggedProcesses reads the environ of a process it listed.
ReadEnviron(p) ==
    /\ scanning
    /\ p \in unread
    /\ unread' = unread \ {p}
    /\ seen' = IF Alive(p) THEN seen \cup {p} ELSE seen
    /\ UNCHANGED <<pc, follow, proc, exit, cancelled, expired, watch, grace, gaveUp,
                   scanning, late, buffer, outcome>>

\* WaitDelay after cmd.Cancel: exec kills the child, and only the child.
DelayKillsChild ==
    /\ pc = "wait"
    /\ watch = "terminated"
    /\ grace = "over"
    /\ Alive(Child)
    /\ proc' = Killed({Child})
    /\ exit' = "other"
    /\ UNCHANGED <<pc, follow, cancelled, expired, watch, grace, gaveUp, looking,
                   buffer, outcome>>

\* The child is reaped, and Wait has waited for a cmd.Cancel that had begun.
\* Without a cancellation, WaitDelay starts here.
Reaped ==
    /\ pc = "wait"
    /\ proc[Child].state = "gone"
    /\ pc' = "drain"
    /\ \/ watch = "terminated" /\ UNCHANGED <<watch, grace>>
       \/ watch = "watching" /\ watch' = "off" /\ grace' = "running"
    /\ UNCHANGED <<follow, proc, exit, cancelled, expired, gaveUp, looking, buffer,
                   outcome>>

PipeHeld == \E p \in Procs : Alive(p) /\ proc[p].pipe

\* Mistake: no cmd.WaitDelay, so Wait reads until the last helper is gone.
NoWaitDelay == FALSE

\* WaitDelay is over: the pipes are closed under whoever holds them.
WaitDelayOver == grace = "over"

\* Wait returns: at the end of the output, or with ErrWaitDelay.
Drained ==
    /\ pc = "drain"
    /\ \/ ~PipeHeld /\ gaveUp' = FALSE
       \/ PipeHeld /\ WaitDelayOver /\ gaveUp' = TRUE
    /\ pc' = "probe"
    /\ UNCHANGED <<follow, proc, exit, cancelled, expired, watch, grace, looking,
                   buffer, outcome>>

\* Who is left, in groupAlive and in the poll of killGroupAfter: the group is
\* asked first, and /proc is read only when the group is gone.
Remains == Group # {} \/ seen # {}

\* Mistake: only a wait that gave up looks for helpers.
OwesReapIfGaveUp == gaveUp /\ Remains

\* Whether Run owes a reap although nobody cancelled: groupAlive.
OwesReap == Remains

\* taggedProcesses begins, for whom it is asked.
Look ==
    /\ ~scanning
    /\ \/ pc = "probe" /\ Group = {} /\ pc' = pc
       \/ pc = "terminate" /\ pc' = pc
       \/ pc = "reap" /\ grace = "running" /\ Group = {} /\ pc' = pc
       \/ pc = "reap" /\ grace = "over" /\ pc' = "kill"
    /\ List
    /\ UNCHANGED <<follow, proc, exit, cancelled, expired, watch, grace, gaveUp,
                   buffer, outcome>>

\* groupAlive answers; a group that was not asked to stop yet is asked now.
Probe ==
    /\ pc = "probe"
    /\ Group # {} \/ Scanned
    /\ \/ watch = "terminated" /\ pc' = "reap" /\ Forget
       \/ watch # "terminated" /\ OwesReap /\ pc' = "terminate" /\ Forget
       \/ watch # "terminated" /\ ~OwesReap /\ pc' = "classify" /\ Conclude
    /\ UNCHANGED <<follow, proc, exit, cancelled, expired, watch, grace, gaveUp,
                   buffer, outcome>>

\* terminateGroup, for helpers that outlived a child nobody stopped.
Terminate ==
    /\ pc = "terminate"
    /\ Scanned
    /\ proc' = Killed(Terminable)
    /\ grace' = "running"
    /\ pc' = "reap"
    /\ Forget
    /\ UNCHANGED <<follow, exit, cancelled, expired, watch, gaveUp, buffer, outcome>>

\* killGroupAfter, before the deadline: done once nobody is found, and another
\* look after a pause otherwise.
Poll ==
    /\ pc = "reap"
    /\ Scanned
    /\ \/ ~Remains /\ pc' = "classify" /\ Conclude
       \/ Remains /\ pc' = pc /\ Forget
    /\ UNCHANGED <<follow, proc, exit, cancelled, expired, watch, grace, gaveUp,
                   buffer, outcome>>

\* killGroupAfter, at the deadline: SIGKILL to what the scan found and to the
\* group.
Kill ==
    /\ pc = "kill"
    /\ Scanned
    /\ proc' = Killed(seen \cup Group)
    /\ pc' = "classify"
    /\ Conclude
    /\ UNCHANGED <<follow, exit, cancelled, expired, watch, grace, gaveUp, buffer,
                   outcome>>

\* Mistake: the exit code is asked before the contexts.
VerdictByExitCode ==
    CASE exit = "zero" -> "SUCCEEDED"
      [] exit # "zero" /\ cancelled -> "CANCELLED"
      [] exit # "zero" /\ ~cancelled /\ expired -> "TIMED_OUT"
      [] OTHER -> "FAILED"

\* The switch at the end of Run.
Verdict ==
    CASE cancelled -> "CANCELLED"
      [] ~cancelled /\ expired -> "TIMED_OUT"
      [] ~RunCtxDone /\ exit = "zero" -> "SUCCEEDED"
      [] OTHER -> "FAILED"

Classify ==
    /\ pc = "classify"
    /\ outcome' = Verdict
    /\ pc' = "done"
    /\ UNCHANGED <<follow, proc, exit, cancelled, expired, watch, grace, gaveUp,
                   looking, buffer>>

Run ==
    \/ Validate \/ StartFails \/ Start
    \/ CancelFires \/ CancelTerminates \/ DelayKillsChild
    \/ \E p \in Procs : ReadEnviron(p)
    \/ Reaped \/ Drained \/ Look \/ Probe \/ Terminate \/ Poll \/ Kill \/ Classify

Environment ==
    \/ \E p \in Procs, h \in Helpers : Spawn(p, h)
    \/ \E p \in Procs, n \in 1 .. MaxBytes : Output(p, n)
    \/ \E p \in Procs : Exit(p)
    \/ CallerCancels

Next == Run \/ Environment \/ Timeout \/ GraceEnds

Spec == Init /\ [][Next]_vars

\* Run's goroutines are scheduled and clocks advance.  No process is assumed
\* to exit, no caller to cancel.
FairSpec == Spec /\ WF_vars(Run) /\ WF_vars(Timeout) /\ WF_vars(GraceEnds)
-----------------------------------------------------------------------------
(* Properties.                                                             *)

\* Every variable of Run stays within its type.
TypeOK ==
    /\ pc \in {"validate", "start", "wait", "drain", "probe", "terminate", "reap", "kill",
               "classify", "done"}
    /\ follow \in BOOLEAN /\ cancelled \in BOOLEAN /\ expired \in BOOLEAN
    /\ gaveUp \in BOOLEAN
    /\ proc \in [Procs -> [state : {"unborn", "running", "gone"}, group : BOOLEAN,
                           tagged : BOOLEAN, pipe : BOOLEAN, deaf : BOOLEAN]]
    /\ exit \in {"none", "zero", "other"}
    /\ watch \in {"off", "watching", "cancelling", "terminated"}
    /\ grace \in {"none", "running", "over"}
    /\ scanning \in BOOLEAN
    /\ unread \in SUBSET Procs /\ seen \in SUBSET Procs /\ late \in SUBSET Helpers
    /\ buffer \in [head : Seq(Nat), tail : Seq(Nat), total : Nat]
    /\ outcome \in Outcomes

\* "Invariant 6 has no exception for commands that succeeded": when Run
\* returns, no process of the command's group is left, however the command
\* ended and whoever ignored SIGTERM.  Of the processes that carry the tag of a
\* run that follows sessions, only those are left that were started after the
\* last scan had listed /proc: neither an empty look in groupAlive or
\* killGroupAfter nor the last SIGKILL knows of them.
NothingSurvives ==
    pc = "done" => \A p \in Procs :
                      Alive(p) => ~proc[p].group /\ (proc[p].tagged => p \in late)

\* A result that speaks of the command's own ending is about a command Run did
\* not stop: SUCCEEDED and FAILED are never the answer to Run's own SIGTERM or
\* SIGKILL, although a stopped command may well exit 0; and a command that
\* exited 0 before anyone wanted it stopped is a success whatever its helpers
\* did with the pipes.
VerdictIsTheCommandsOwn ==
    pc = "done" =>
      /\ outcome \in {"SUCCEEDED", "FAILED"} => watch # "terminated"
      /\ outcome = "SUCCEEDED" <=> exit = "zero" /\ ~RunCtxDone

\* What boundedBuffer keeps, whatever the sizes of the writes: everything up to
\* the limit, and beyond it the first half of the limit and the newest bytes
\* for the other half, with the rest counted as dropped.
CaptureIsHeadAndTail ==
    LET all == [i \in 1 .. buffer.total |-> i]
        kept == buffer.head \o buffer.tail
    IN  IF buffer.total <= Limit
        THEN kept = all /\ ~Truncated(buffer)
        ELSE /\ buffer.head = SubSeq(all, 1, HeadRoom)
             /\ buffer.tail = SubSeq(all, buffer.total - (Limit - HeadRoom) + 1, buffer.total)
             /\ Truncated(buffer) /\ Dropped(buffer) = buffer.total - Limit

\* A command that was started does not keep Run for ever: not by ignoring
\* SIGTERM, not through a helper that holds its output open.
RunReturns == pc = "wait" ~> pc = "done"
=============================================================================
