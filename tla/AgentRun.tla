------------------------------ MODULE AgentRun ------------------------------
(***************************************************************************)
(* One call of Backend.Run: what is checked and prepared before the agent  *)
(* is started, the stream of events it writes while it runs, and the       *)
(* verdict drawn from how the process ended and from what the stream said  *)
(* (agent/opencode.go, agent/opencode_events.go, agent/codex.go).          *)
(*                                                                         *)
(* The agent writes lines; the pipe hands them over in chunks cut          *)
(* anywhere.  A line is known by its number: `lines[k]` says what it means *)
(* and how long it is, and <<k, i>> is its i-th byte.  The pipe loses and  *)
(* reorders nothing, so what is in it is what was written and not yet      *)
(* read: `at` is the place the reader has come to.  The process itself,    *)
(* its timeout and its orphans are ProcExec's.                             *)
(***************************************************************************)
EXTENDS Integers, Sequences, FiniteSets

CONSTANTS
  Backends,      \* the backends a run may use
  MaxEventLine,  \* maxEventLine
  LongSays,      \* bound: what a line of more than one byte says
  MaxLength,     \* bound: the bytes of a line
  MaxLines       \* bound: the lines an agent writes

ASSUME AgentRunAssumption ==
  /\ Backends \subseteq {"opencode", "codex"}
  /\ MaxEventLine \in Nat \ {0}
  /\ MaxLength \in Nat \ {0} /\ MaxLines \in Nat \ {0}

(* What a line can say: the agent's text, a tool call, a tool call that    *)
(* was refused, a step that ended with reason "stop" or "tool-calls", an   *)
(* error, an error that says that no provider can be reached, something    *)
(* that is not JSON.                                                       *)
Meanings == {"text", "tool", "refused", "stop", "tool-calls", "error",
             "no-route", "noise"}

VARIABLES
  stage,      \* where Run is
  backend,    \* the backend
  stopped,    \* the caller's context was cancelled
  atStart,    \* whether it was, when the command was to be started
  known,      \* OpenCode.versionKnown
  lines,      \* the lines the agent has begun
  at,         \* the line being read, and how many bytes of it have been read
  scan,       \* the scanner: buf, skipping, result
  ended,      \* how the process ended
  fellBack,   \* the agent name was not recognised
  verdict     \* status, FailureKind and whether the error is ErrToolRefused

agentVars == <<stage, backend, stopped, atStart, known, lines, at, scan, ended,
               fellBack, verdict>>
streamVars == <<lines, at, scan>>

NoVerdict == [status |-> "NONE", kind |-> "NONE", refused |-> FALSE]

EmptyTranscript ==
  [count |-> 0, read |-> <<>>, reason |-> "none", oversized |-> 0, unknown |-> 0]

NewEventScanner == [buf |-> <<>>, skipping |-> FALSE, result |-> EmptyTranscript]

AgentInit ==
  /\ stage = "validate" /\ backend \in Backends
  /\ stopped = FALSE /\ atStart = FALSE /\ known \in BOOLEAN
  /\ lines = <<>> /\ at = [line |-> 1, byte |-> 0]
  /\ scan = NewEventScanner
  /\ ended = "none" /\ fellBack = FALSE
  /\ verdict = NoVerdict

-----------------------------------------------------------------------------
(* The stream. *)

(* The bytes of line k between byte i and byte j. *)
Bytes(k, i, j) == [n \in 1..(j - i + 1) |-> <<k, i + n - 1>>]

(* How much of line k is written, its newline apart: all of a whole line,  *)
(* and of the last one, after which or in the middle of which an agent     *)
(* stopped, all of it or all but a byte.                                   *)
Written(k) == lines[k].length - lines[k].missing

(* Everything written has been read. *)
PipeEmpty ==
  \A k \in DOMAIN lines :
    at.line > k \/ (at.line = k /\ ~lines[k].whole /\ at.byte = Written(k))

(* What a run of bytes says: a line, or nothing that can be parsed. *)
Parse(bytes) ==
  LET whole == {k \in DOMAIN lines : Bytes(k, 1, lines[k].length) = bytes}
  IN IF whole = {} THEN "noise" ELSE lines[CHOOSE k \in whole : TRUE].says

(* The reason of a step that has just ended, which replaces the one before. *)
EndsFor(says, reason) == IF says \in {"stop", "tool-calls"} THEN says ELSE reason

(* consume: a line that is not JSON is counted and otherwise ignored. *)
Consume(result, bytes) ==
  IF bytes = <<>> THEN result
  ELSE IF Parse(bytes) = "noise" THEN [result EXCEPT !.unknown = @ + 1]
  ELSE [result EXCEPT !.count = @ + 1, !.read = Append(@, Parse(bytes)),
                      !.reason = EndsFor(Parse(bytes), @)]

(* codexScanner.consume: only texts, commands and failed turns say          *)
(* something; an event of another type is counted as unknown too.          *)
CodexKnows == {"text", "tool", "error"}
ConsumeCodex(result, bytes) ==
  IF bytes = <<>> THEN result
  ELSE IF Parse(bytes) = "noise" THEN [result EXCEPT !.unknown = @ + 1]
  ELSE IF Parse(bytes) \in CodexKnows
  THEN [result EXCEPT !.count = @ + 1, !.read = Append(@, Parse(bytes))]
  ELSE [result EXCEPT !.count = @ + 1, !.unknown = @ + 1]

(* A piece of what Write is given: the bytes up to a newline (`nl`), or to *)
(* the end of the chunk.  One turn of Write's loop takes one piece, and    *)
(* nobody else reads the scanner between two turns.                        *)

(* codexScanner.Write: whatever has no newline yet is held. *)
WriteCodex(s, bytes, nl) ==
  IF nl THEN [s EXCEPT !.buf = <<>>, !.result = ConsumeCodex(@, s.buf \o bytes)]
  ELSE [s EXCEPT !.buf = @ \o bytes]

(* The part of eventScanner.Write that keeps a line. *)
Keep(s, bytes, nl) ==
  IF nl THEN [s EXCEPT !.buf = <<>>, !.result = Consume(@, s.buf \o bytes)]
  ELSE [s EXCEPT !.buf = @ \o bytes]

(* Mistake: the rest of an oversized line is taken for a line. *)
DropLineSoFar(s, nl) ==
  [s EXCEPT !.buf = <<>>, !.result.oversized = @ + 1]

(* dropLine, and the skipping of what is still to come of the line. *)
DropLine(s, nl) ==
  [s EXCEPT !.buf = <<>>, !.result.oversized = @ + 1, !.skipping = ~nl]

(* eventScanner.Write, on one piece. *)
WriteBounded(s, bytes, nl) ==
  IF s.skipping THEN [s EXCEPT !.skipping = ~nl]
  ELSE IF Len(s.buf) + Len(bytes) > MaxEventLine THEN DropLine(s, nl)
  ELSE Keep(s, bytes, nl)

WritePiece(s, bytes, nl) ==
  IF backend = "codex" THEN WriteCodex(s, bytes, nl) ELSE WriteBounded(s, bytes, nl)

(* Close: a trailing line with no newline, unless it is the rest of a      *)
(* dropped one.                                                            *)
Close(s) ==
  [NewEventScanner EXCEPT !.result =
     IF s.skipping THEN s.result ELSE Consume(s.result, s.buf)]

CloseCodex(s) == [s EXCEPT !.buf = <<>>, !.result = ConsumeCodex(@, s.buf)]

-----------------------------------------------------------------------------
(* Before the command. *)

Fails(kind) ==
  /\ verdict' = [NoVerdict EXCEPT
       !.status = IF kind = "CANCELLED" THEN "CANCELLED" ELSE "FAILED", !.kind = kind]
  /\ stage' = "done"

(* Request.Validate; codex then makes the file of the last message. *)
ValidateRequest(ok) ==
  /\ stage = "validate"
  /\ IF ok THEN /\ stage' = IF backend = "codex" THEN "start" ELSE "probe"
               /\ UNCHANGED verdict
     ELSE Fails("STARTUP")
  /\ UNCHANGED <<backend, stopped, atStart, known, streamVars, ended, fellBack>>

(* isV2: a successful probe is remembered, a failed one is not and counts  *)
(* as version 2.                                                           *)
ProbeVersion(answered) ==
  /\ stage = "probe" /\ (known => answered)
  /\ known' = answered
  /\ IF stopped THEN Fails("CANCELLED")
     ELSE stage' = "database" /\ UNCHANGED verdict
  /\ UNCHANGED <<backend, stopped, atStart, streamVars, ended, fellBack>>

(* taskDB; version 1 has no MCP servers to list. *)
TaskDB(ok, v2) ==
  /\ stage = "database" /\ (~known => v2)
  /\ IF ok THEN stage' = (IF v2 THEN "list" ELSE "sandbox") /\ UNCHANGED verdict
     ELSE Fails("STARTUP")
  /\ UNCHANGED <<backend, stopped, atStart, known, streamVars, ended, fellBack>>

(* listMCPServers: a cancelled listing fails, and is not a startup failure. *)
ListMCPServers(ok) ==
  /\ stage = "list" /\ (stopped => ~ok)
  /\ IF ok THEN stage' = "sandbox" /\ UNCHANGED verdict
     ELSE Fails(IF stopped THEN "CANCELLED" ELSE "STARTUP")
  /\ UNCHANGED <<backend, stopped, atStart, known, streamVars, ended, fellBack>>

(* sandboxDirs, if there is a sandbox. *)
Sandbox(ok) ==
  /\ stage = "sandbox"
  /\ IF ok THEN stage' = "start" /\ UNCHANGED verdict ELSE Fails("STARTUP")
  /\ UNCHANGED <<backend, stopped, atStart, known, streamVars, ended, fellBack>>

(* procexec.Run: a command is not started once the context is cancelled,   *)
(* and that too is a failure to start.                                     *)
Starts(ok) ==
  /\ stage = "start" /\ (stopped => ~ok)
  /\ atStart' = stopped
  /\ IF ok THEN stage' = "running" /\ UNCHANGED <<ended, verdict>>
     ELSE ended' = "START_FAILED" /\ Fails("STARTUP")
  /\ UNCHANGED <<backend, stopped, known, streamVars>>

(* opencode that does not know the agent it is asked for says so, and runs *)
(* another one.                                                            *)
StartCommand(ok, recognised) ==
  /\ backend = "opencode" /\ Starts(ok)
  /\ fellBack' = (ok /\ ~recognised)

StartCodex(ok) ==
  /\ backend = "codex" /\ Starts(ok)
  /\ UNCHANGED fellBack

-----------------------------------------------------------------------------
(* The agent runs. *)

(* The agent writes a line; one that ends or is killed may leave out the   *)
(* newline, or stop in the middle of the line.                             *)
AgentWrites(says, length, whole, missing) ==
  /\ stage = "running" /\ Len(lines) < MaxLines
  /\ \A k \in DOMAIN lines : lines[k].whole
  /\ length > 1 => says \in LongSays
  /\ missing < length /\ (whole => missing = 0)
  /\ lines' = Append(lines, [says |-> says, length |-> length, whole |-> whole,
                             missing |-> missing])
  /\ UNCHANGED <<stage, backend, stopped, atStart, known, at, scan, ended, fellBack,
                 verdict>>

(* procexec passes what it reads on to the scanner: n bytes of a line, and *)
(* the newline after them.                                                 *)
Tee(n, nl) ==
  /\ stage \in {"running", "exited"} /\ at.line \in DOMAIN lines
  /\ at.byte + n <= Written(at.line)
  /\ IF nl THEN lines[at.line].whole /\ at.byte + n = Written(at.line) ELSE n > 0
  /\ scan' = WritePiece(scan, Bytes(at.line, at.byte + 1, at.byte + n), nl)
  /\ at' = IF nl THEN [line |-> at.line + 1, byte |-> 0] ELSE [at EXCEPT !.byte = @ + n]
  /\ UNCHANGED <<stage, backend, stopped, atStart, known, lines, ended, fellBack, verdict>>

(* The process ends by itself, or is stopped. *)
CommandEnds(how) ==
  /\ stage = "running"
  /\ ended' = IF stopped THEN "CANCELLED" ELSE how
  /\ stage' = "exited"
  /\ UNCHANGED <<backend, stopped, atStart, known, streamVars, fellBack, verdict>>

Cancel ==
  /\ stage # "done" /\ ended = "none" /\ ~stopped
  /\ stopped' = TRUE
  /\ UNCHANGED <<stage, backend, atStart, known, streamVars, ended, fellBack, verdict>>

-----------------------------------------------------------------------------
(* classify and classifyCodex. *)

Says(events, what) == \E i \in DOMAIN events.read : events.read[i] \in what

(* cutShort: the last step ended for tool calls. *)
CutShort(events) == events.reason = "tool-calls"

LastEvent(events) == events.read[Len(events.read)]

Judged(status, kind, refused) ==
  [status |-> status, kind |-> kind, refused |-> refused]

(* Mistake: a process that exits 0 is believed. *)
ClassifyByExitCode(how, events) ==
  CASE how = "CANCELLED" -> Judged("CANCELLED", "CANCELLED", FALSE)
    [] how = "TIMED_OUT" -> Judged("TIMED_OUT", "TIMEOUT", FALSE)
    [] how = "FAILED" -> Judged("FAILED", "AGENT_EXIT", FALSE)
    [] how = "SUCCEEDED" -> Judged("SUCCEEDED", "NONE", FALSE)

ClassifyOpenCode(how, events) ==
  LET errors == Says(events, {"error", "no-route"})
  IN CASE how = "CANCELLED" -> Judged("CANCELLED", "CANCELLED", FALSE)
       [] how = "TIMED_OUT" -> Judged("TIMED_OUT", "TIMEOUT", FALSE)
       [] how \in {"FAILED", "SUCCEEDED"} /\ fellBack ->
            Judged("FAILED", "STARTUP", FALSE)
       [] how \in {"FAILED", "SUCCEEDED"} /\ ~fellBack /\ errors ->
            Judged("FAILED", IF Says(events, {"no-route"}) THEN "STARTUP"
                              ELSE "AGENT_ERROR", FALSE)
       [] how = "FAILED" /\ ~fellBack /\ ~errors ->
            Judged("FAILED", "AGENT_EXIT", FALSE)
       [] how = "SUCCEEDED" /\ ~fellBack /\ ~errors ->
            IF events.count = 0 THEN Judged("FAILED", "UNKNOWN", FALSE)
            ELSE IF ~CutShort(events) THEN Judged("SUCCEEDED", "NONE", FALSE)
            ELSE IF Says(events, {"refused"}) THEN Judged("FAILED", "AGENT_ERROR", TRUE)
            ELSE IF LastEvent(events) = "text" THEN Judged("SUCCEEDED", "NONE", FALSE)
            ELSE Judged("FAILED", "AGENT_ERROR", FALSE)

(* classifyCodex: a turn that failed is an error; a codex stream knows no  *)
(* refusals and no steps that end for a reason.                            *)
ClassifyCodex(how, events) ==
  LET errors == Says(events, {"error"})
  IN CASE how = "CANCELLED" -> Judged("CANCELLED", "CANCELLED", FALSE)
       [] how = "TIMED_OUT" -> Judged("TIMED_OUT", "TIMEOUT", FALSE)
       [] how \in {"FAILED", "SUCCEEDED"} /\ errors -> Judged("FAILED", "AGENT_ERROR", FALSE)
       [] how = "FAILED" /\ ~errors -> Judged("FAILED", "AGENT_EXIT", FALSE)
       [] how = "SUCCEEDED" /\ ~errors ->
            IF events.count = 0 THEN Judged("FAILED", "UNKNOWN", FALSE)
            ELSE Judged("SUCCEEDED", "NONE", FALSE)

(* procexec has returned, so everything written has been read: the scanner *)
(* is closed and the verdict drawn.                                        *)
Concludes(closed, judgement) ==
  /\ stage = "exited" /\ PipeEmpty
  /\ scan' = closed /\ verdict' = judgement
  /\ stage' = "done"
  /\ UNCHANGED <<backend, stopped, atStart, known, lines, at, ended, fellBack>>

Return ==
  /\ backend = "opencode"
  /\ Concludes(Close(scan), ClassifyOpenCode(ended, Close(scan).result))

ReturnCodex ==
  /\ backend = "codex"
  /\ Concludes(CloseCodex(scan), ClassifyCodex(ended, CloseCodex(scan).result))

AgentNext ==
  \/ \E ok \in BOOLEAN : ValidateRequest(ok) \/ ProbeVersion(ok) \/ ListMCPServers(ok)
                        \/ Sandbox(ok)
  \/ \E ok, v2 \in BOOLEAN : TaskDB(ok, v2)
  \/ \E ok, recognised \in BOOLEAN : StartCommand(ok, recognised)
  \/ \E ok \in BOOLEAN : StartCodex(ok)
  \/ \E says \in Meanings, length \in 1..MaxLength, whole \in BOOLEAN, missing \in 0..1 :
       AgentWrites(says, length, whole, missing)
  \/ \E n \in 0..MaxLength, nl \in BOOLEAN : Tee(n, nl)
  \/ \E how \in {"SUCCEEDED", "FAILED", "TIMED_OUT"} : CommandEnds(how)
  \/ Cancel
  \/ Return
  \/ ReturnCodex

AgentSpec == AgentInit /\ [][AgentNext]_agentVars

-----------------------------------------------------------------------------
(* Reading the stream as a whole: what its finished lines say, and how many *)
(* of its lines, finished or not, are longer than the scanner holds.  A    *)
(* last line that lacks only its newline is finished by Close.             *)
Finished ==
  {k \in DOMAIN lines :
     k < at.line \/ (stage = "done" /\ k = at.line /\ lines[k].missing = 0)}
Fits(k) == backend = "codex" \/ lines[k].length <= MaxEventLine
Given(k) == IF k < at.line THEN Written(k) ELSE IF k = at.line THEN at.byte ELSE 0
Known(k) == IF backend = "codex" THEN lines[k].says \in CodexKnows ELSE lines[k].says # "noise"

(* The n-th smallest number of S. *)
Nth(S, n) == CHOOSE k \in {x \in S : Cardinality({j \in S : j <= x}) = n} : TRUE

Reported ==
  LET good == {k \in Finished : Fits(k) /\ Known(k)}
  IN [n \in 1..Cardinality(good) |-> lines[Nth(good, n)].says]

(* However the pipe cuts the stream, every finished line that fits is read *)
(* once and in order, a line that does not fit is counted once and nothing *)
(* of it is read, not even as noise, and what is held is bounded           *)
(* (eventScanner.Write, Close).                                            *)
StreamIsReadWhole ==
  /\ scan.result.read = Reported
  /\ stage # "done" => scan.result.unknown =
       Cardinality({k \in Finished : Fits(k) /\ ~Known(k)})
  /\ backend = "opencode" =>
       /\ scan.result.oversized =
            Cardinality({k \in DOMAIN lines : Given(k) > MaxEventLine})
       /\ Len(scan.buf) <= MaxEventLine

(* An agent run counts as a success only if it ran as asked and to its own *)
(* end: the process ended by itself with exit code 0, the agent that was   *)
(* asked for ran, it wrote something, no finished line that the scanner    *)
(* could hold was an error, and its last step that the scanner could hold  *)
(* was not cut short by a refusal or in the middle of its tool calls.  And *)
(* a run whose model cannot be reached, or that a refusal ended with exit  *)
(* code 0, is never one to retry, if those lines could be held (classify,  *)
(* classifyCodex, willRetry).  An error on a line of more than             *)
(* MaxEventLine bytes is dropped with the line, and the run may succeed.   *)
SuccessIsEarned ==
  LET said == Reported
      has(what) == \E i \in DOMAIN said : said[i] = what
      lastReason == {i \in DOMAIN said : said[i] \in {"stop", "tool-calls"}}
      unfinished == \E i \in lastReason :
                      said[i] = "tool-calls" /\ \A j \in lastReason : j <= i
  IN stage = "done" =>
       /\ verdict.status = "SUCCEEDED" =>
            /\ ended = "SUCCEEDED" /\ ~fellBack
            /\ backend = "opencode" => said # <<>>
            /\ \E k \in Finished : Fits(k) /\ lines[k].says # "noise"
            /\ ~has("error") /\ ~has("no-route")
            /\ backend = "opencode" /\ unfinished => ~has("refused") /\ said[Len(said)] = "text"
       /\ verdict.kind \in {"AGENT_EXIT", "AGENT_ERROR"} /\ ~verdict.refused =>
            /\ ~(backend = "opencode" /\ has("no-route"))
            /\ ~(backend = "opencode" /\ ended = "SUCCEEDED" /\ ~has("error")
                 /\ unfinished /\ has("refused"))

(* A run that aidev stopped is not blamed on the agent's binary: what was  *)
(* cancelled before the command ran is recorded as cancelled (Run).        *)
StoppedIsNotBlamed ==
  stage = "done" /\ verdict.kind = "STARTUP" => ~atStart

=============================================================================
