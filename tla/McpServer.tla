------------------------------ MODULE McpServer ------------------------------
(***************************************************************************)
(* The MCP server and one task: tool calls that share a connection to the  *)
(* database (Server.connected over lazyApp), aidev_run_task, which starts  *)
(* a detached run or joins one, the watchers that say how a run ended, and *)
(* the shutdown.                                                           *)
(*                                                                         *)
(* A driver is a process that runs `aidev task run`: driver r > 0 is the   *)
(* child of the server's run r, driver 0 was started by a person.  What a  *)
(* run does to the row is TaskLifecycle; here a status is free (PENDING or *)
(* READY), gated (WAITING_APPROVAL), active (RUNNING or VERIFYING) or      *)
(* ended, and a driver that lost its attempt changes nothing (the fence).  *)
(***************************************************************************)
EXTENDS Integers, FiniteSets, Sequences

CONSTANTS
    Calls,          \* tool calls
    MaxConnects,    \* bound: attempts to connect
    MaxRuns,        \* bound: runs this server launches
    MaxDecisions    \* bound: approvals asked for

ASSUME McpServerAssumption ==
    /\ MaxConnects \in Nat /\ MaxRuns \in Nat /\ MaxDecisions \in Nat

VARIABLES
    conn,       \* Server.orchestrator # nil, and Server.attempt
    attempts,   \* the connectAttempts made, in order
    app,        \* the lazyApp's application, with its connection pool
    closed,     \* lazyApp.closed
    server,     \* up, stopping (watchers told), closing (lazyApp.close), stopped
    call,       \* the tool calls
    entry,      \* Server.runs[task], 0 if there is none
    runs,       \* the backgroundRuns, in order
    driver,     \* the processes that run the task
    status,     \* tasks.status
    owner,      \* the driver whose attempt is open
    gates,      \* history: how often the task was gated
    refused     \* history: drivers that found the task not runnable

connVars == <<conn, attempts, app, closed>>
rowVars == <<status, owner, gates, refused>>
vars == <<conn, attempts, app, closed, server, call, entry, runs, driver, status, owner,
          gates, refused>>

Kinds == {"run", "result", "cancel", "approve"}
Nobody == -1
Drivers == 0 .. MaxRuns

NewCall == [pc |-> "idle", kind |-> "run", link |-> "idle", on |-> 0,
            read |-> "free", reply |-> "none"]

Init ==
    /\ conn = [open |-> FALSE, attempt |-> 0]
    /\ attempts = <<>>
    /\ app = "none"
    /\ closed = FALSE
    /\ server = "up"
    /\ call = [c \in Calls |-> NewCall]
    /\ entry = 0
    /\ runs = <<>>
    /\ driver = [d \in Drivers |-> "none"]
    /\ status = "free"
    /\ owner = Nobody
    /\ gates = 0
    /\ refused = {}

Running == server # "stopped"

\* No run can start from here.
Occupied(s) == s \in {"ended", "active"}

\* What a tool call does next, in the terms of its record.
Goes(c, pc) == call' = [call EXCEPT ![c].pc = pc]
Replies(c, what) ==
    call' = [call EXCEPT ![c] = [NewCall EXCEPT !.pc = "done", !.link = call[c].link,
                                                !.reply = what]]

-----------------------------------------------------------------------------
(* Server.connected and Server.connect over lazyApp.get and lazyApp.open.  *)

\* connected: the kept connection, the attempt in flight, or a new attempt.
Connected(c, kind) ==
    /\ \/ /\ conn.open
          /\ call' = [call EXCEPT ![c].pc = "resolve", ![c].kind = kind, ![c].link = "served"]
          /\ UNCHANGED <<conn, attempts>>
       \/ /\ ~conn.open
          /\ conn.attempt # 0
          /\ call' = [call EXCEPT ![c].pc = "connecting", ![c].kind = kind,
                                  ![c].on = conn.attempt]
          /\ UNCHANGED <<conn, attempts>>
       \/ /\ ~conn.open
          /\ conn.attempt = 0
          /\ Len(attempts) < MaxConnects
          /\ attempts' = Append(attempts, [state |-> "asked", result |-> "none", done |-> FALSE])
          /\ conn' = [conn EXCEPT !.attempt = Len(attempts) + 1]
          /\ call' = [call EXCEPT ![c].pc = "connecting", ![c].kind = kind,
                                  ![c].on = Len(attempts) + 1]

\* A tool call arrives.  runTask refuses a negative wait before it connects.
Ask(c) ==
    /\ server = "up"
    /\ call[c].pc = "idle"
    /\ \/ \E kind \in Kinds : Connected(c, kind)
       \/ Replies(c, "error") /\ UNCHANGED <<conn, attempts>>
    /\ UNCHANGED <<app, closed, server, entry, runs, driver, status, owner, gates, refused>>

\* lazyApp.get, called by the goroutine of attempt a.
LazyGet(a) ==
    /\ Running
    /\ attempts[a].state = "asked"
    /\ \/ /\ closed
          /\ attempts' = [attempts EXCEPT ![a].state = "failed"]
          /\ UNCHANGED app
       \/ /\ ~closed
          /\ app = "none"
          /\ attempts' = [attempts EXCEPT ![a].state = "opening"]
          /\ app' = "connecting"
    /\ UNCHANGED <<conn, closed, server, call, entry, runs, driver, rowVars>>

\* lazyApp.open: connectApp succeeds or fails within its time limit.
LazyOpen(a) ==
    /\ Running
    /\ attempts[a].state = "opening"
    /\ \/ attempts' = [attempts EXCEPT ![a].state = "ok"] /\ app' = "open"
       \/ attempts' = [attempts EXCEPT ![a].state = "failed"] /\ app' = "none"
    /\ UNCHANGED <<conn, closed, server, call, entry, runs, driver, rowVars>>

\* Mistake: the attempt stays in place when it has failed.
KeepFailedAttempt(a) ==
    conn' = IF attempts[a].state = "ok" THEN [open |-> TRUE, attempt |-> 0] ELSE conn

\* What an attempt leaves in the server: a success is kept, a failure is not.
Settle(a) == conn' = [open |-> attempts[a].state = "ok", attempt |-> 0]

\* Server.connect, under connMu, after the opener returned.
Publish(a) ==
    /\ Running
    /\ attempts[a].state \in {"ok", "failed"}
    /\ attempts[a].result = "none"
    /\ attempts' = [attempts EXCEPT ![a].result = attempts[a].state]
    /\ Settle(a)
    /\ UNCHANGED <<app, closed, server, call, entry, runs, driver, rowVars>>

\* Mistake: an early return on the opener's error leaves done open.
SettledOk(a) == attempts[a].result = "ok"

\* The result is in place, whatever it is.
Settled(a) == attempts[a].result # "none"

\* close(attempt.done).
CloseDone(a) ==
    /\ Running
    /\ Settled(a)
    /\ ~attempts[a].done
    /\ attempts' = [attempts EXCEPT ![a].done = TRUE]
    /\ UNCHANGED <<conn, app, closed, server, call, entry, runs, driver, rowVars>>

\* A waiting call receives what the attempt brought.
Told(c) ==
    LET a == call[c].on
    IN  /\ Running
        /\ call[c].pc = "connecting"
        /\ attempts[a].done
        /\ call' = [call EXCEPT ![c].pc = IF attempts[a].result = "ok" THEN "resolve" ELSE "done",
                                ![c].link = IF attempts[a].result = "ok" THEN "served" ELSE "failed",
                                ![c].reply = IF attempts[a].result = "ok" THEN "none" ELSE "error",
                                ![c].on = 0]
        /\ UNCHANGED <<connVars, server, entry, runs, driver, rowVars>>

\* The client gives up on a call that waits for the connection or for a run.
GiveUp(c) ==
    /\ Running
    /\ call[c].pc \in {"connecting", "wait"}
    /\ call' = [call EXCEPT ![c] = [NewCall EXCEPT !.pc = "done", !.reply = "left",
                   !.link = IF call[c].pc = "connecting" THEN "left" ELSE "served"]]
    /\ UNCHANGED <<connVars, server, entry, runs, driver, rowVars>>

-----------------------------------------------------------------------------
(* The tools.                                                              *)

\* resolve: the task as it is now; startRun judges by this reading.
Resolve(c) ==
    /\ Running
    /\ call[c].pc = "resolve"
    /\ call' = [call EXCEPT ![c].pc = call[c].kind, ![c].read = status]
    /\ UNCHANGED <<connVars, server, entry, runs, driver, rowVars>>

\* Mistake: a run in flight is joined only if the task was read as active.
JoinsIfActive(c) == entry # 0 /\ ~runs[entry].done /\ call[c].read = "active"

\* startRun, first part: a run of this server that has not finished is joined.
Joins(c) == entry # 0 /\ ~runs[entry].done

\* startRun, under mu: join, refuse, or launch a detached run and its watcher.
StartRun(c) ==
    /\ Running
    /\ call[c].pc = "run"
    /\ \/ /\ Joins(c)
          /\ call' = [call EXCEPT ![c].pc = "wait", ![c].on = entry]
          /\ UNCHANGED <<entry, runs, driver>>
       \/ /\ ~Joins(c)
          /\ Occupied(call[c].read)
          /\ Replies(c, "error")
          /\ entry' = 0
          /\ UNCHANGED <<runs, driver>>
       \/ /\ ~Joins(c)
          /\ ~Occupied(call[c].read)
          /\ Len(runs) < MaxRuns
          /\ runs' = Append(runs, [done |-> FALSE, err |-> FALSE])
          /\ driver' = [driver EXCEPT ![Len(runs) + 1] = "spawned"]
          /\ entry' = Len(runs) + 1
          /\ call' = [call EXCEPT ![c].pc = "wait", ![c].on = Len(runs) + 1]
       \/ /\ ~Joins(c)
          /\ ~Occupied(call[c].read)
          /\ Replies(c, "error")
          /\ entry' = 0
          /\ UNCHANGED <<runs, driver>>
    /\ UNCHANGED <<connVars, server, rowVars>>

\* The run is done before the wait is over.
RunDone(c) ==
    /\ Running
    /\ call[c].pc = "wait"
    /\ runs[call[c].on].done
    /\ IF runs[call[c].on].err THEN Replies(c, "error") ELSE Goes(c, "report")
    /\ UNCHANGED <<connVars, server, entry, runs, driver, rowVars>>

\* wait_seconds are over: the run goes on, the call reports where it is.
WaitEnds(c) ==
    /\ Running
    /\ call[c].pc = "wait"
    /\ Replies(c, "running")
    /\ UNCHANGED <<connVars, server, entry, runs, driver, rowVars>>

\* finishedRunOutput: the row is read again, and decides what is reported.
Report(c) ==
    /\ Running
    /\ call[c].pc = "report"
    /\ call' = [call EXCEPT ![c].pc = "done", ![c].read = status,
                            ![c].reply = IF status = "gated" THEN "gated" ELSE "ended"]
    /\ UNCHANGED <<connVars, server, entry, runs, driver, rowVars>>

\* getResult: the row as it is, and the page of the logs that was asked for.
GetResult(c) ==
    /\ Running
    /\ call[c].pc = "result"
    /\ Replies(c, "result")
    /\ UNCHANGED <<connVars, server, entry, runs, driver, rowVars>>

\* cancelTask, and Orchestrator.Cancel behind it.
CancelTask(c) ==
    /\ Running
    /\ call[c].pc = "cancel"
    /\ \/ status = "ended" /\ Replies(c, "error") /\ UNCHANGED <<status, owner>>
       \/ /\ status # "ended"
          /\ status' = "ended"
          /\ owner' = Nobody
          /\ Replies(c, "result")
    /\ UNCHANGED <<connVars, server, entry, runs, driver, gates, refused>>

\* approveTask: refused unless mcp.allow_approval, then Orchestrator.Approve.
ApproveTask(c) ==
    /\ Running
    /\ call[c].pc = "approve"
    /\ \/ Replies(c, "error") /\ UNCHANGED status
       \/ /\ status = "gated"
          /\ status' \in {"free", "ended"}
          /\ Replies(c, "result")
    /\ UNCHANGED <<connVars, server, entry, runs, driver, owner, gates, refused>>

-----------------------------------------------------------------------------
(* The drivers, and what else happens to the row, as long as the server is *)
(* there to see it.                                                        *)

Exits(d) == driver' = [driver EXCEPT ![d] = "exited"]

\* RunTask up to the claim: refused, gated, claimed, or over with an error.
DriverStarts(d) ==
    /\ Running
    /\ driver[d] = "spawned"
    /\ \/ /\ Occupied(status)
          /\ refused' = refused \cup {d}
          /\ Exits(d)
          /\ UNCHANGED <<status, owner, gates>>
       \/ /\ status = "free"
          /\ gates < MaxDecisions
          /\ status' = "gated"
          /\ gates' = gates + 1
          /\ Exits(d)
          /\ UNCHANGED <<owner, refused>>
       \/ /\ status = "free"
          /\ status' = "active"
          /\ owner' = d
          /\ driver' = [driver EXCEPT ![d] = "owner"]
          /\ UNCHANGED <<gates, refused>>
       \/ Exits(d) /\ UNCHANGED rowVars
    /\ UNCHANGED <<connVars, server, call, entry, runs>>

\* The attempt goes on, ends, or is tried again; or its process dies.
DriverWorks(d) ==
    /\ Running
    /\ driver[d] = "owner"
    /\ \/ /\ owner = d
          /\ status' = "ended"
          /\ owner' = Nobody
          /\ Exits(d)
       \/ /\ owner = d
          /\ status' = "free"
          /\ owner' = Nobody
          /\ driver' = [driver EXCEPT ![d] = "again"]
       \/ Exits(d) /\ UNCHANGED <<status, owner>>
    /\ UNCHANGED <<connVars, server, call, entry, runs, gates, refused>>

\* The next attempt of the same run: the claim, without RunTask's checks.
DriverRetries(d) ==
    /\ Running
    /\ driver[d] = "again"
    /\ \/ /\ status = "free"
          /\ status' = "active"
          /\ owner' = d
          /\ driver' = [driver EXCEPT ![d] = "owner"]
       \/ Exits(d) /\ UNCHANGED <<status, owner>>
    /\ UNCHANGED <<connVars, server, call, entry, runs, gates, refused>>

\* A person runs the task from the command line, once.
PersonRuns ==
    /\ Running
    /\ driver[0] = "none"
    /\ driver' = [driver EXCEPT ![0] = "spawned"]
    /\ UNCHANGED <<connVars, server, call, entry, runs, rowVars>>

\* Recover: the lease of a dead driver has run out.
Recover ==
    /\ Running
    /\ status = "active"
    /\ owner # Nobody
    /\ driver[owner] = "exited"
    /\ status' = "ended"
    /\ owner' = Nobody
    /\ UNCHANGED <<connVars, server, call, entry, runs, driver, gates, refused>>

-----------------------------------------------------------------------------
(* The watchers and the shutdown.                                          *)

\* Mistake: that the driver has stopped is enough.
AnyEndingWillDo == FALSE

\* classifyRun: the row, not the driver's exit code, says whether it ended.
StoppedShort == status \notin {"ended", "gated"}

\* awaitOutcome of run r.  The row may be unreadable.
Watch(r) ==
    /\ Running
    /\ ~runs[r].done
    /\ \/ /\ server # "up"
          /\ runs' = [runs EXCEPT ![r] = [done |-> TRUE, err |-> TRUE]]
       \/ /\ driver[r] = "exited"
          /\ \E unreadable \in BOOLEAN :
                runs' = [runs EXCEPT ![r] = [done |-> TRUE, err |-> unreadable \/ StoppedShort]]
    /\ UNCHANGED <<connVars, server, call, entry, driver, rowVars>>

\* The client disconnects or the server is told to stop: baseCtx is cancelled.
Disconnect ==
    /\ server = "up"
    /\ server' = "stopping"
    /\ UNCHANGED <<connVars, call, entry, runs, driver, rowVars>>

\* awaitBackgroundRuns: the watchers have stopped, or the grace is over.  Then
\* lazyApp.close marks the application closed.
AwaitRuns ==
    /\ server = "stopping"
    /\ server' = "closing"
    /\ closed' = TRUE
    /\ UNCHANGED <<conn, attempts, app, call, entry, runs, driver, rowVars>>

\* Mistake: an attempt in flight is not waited for.
NothingInFlight == TRUE

\* lazyApp.close waits for the attempt in flight.
NoAttempt == app # "connecting"

\* ... and closes the application, once; the process ends.
CloseApp ==
    /\ server = "closing"
    /\ NoAttempt
    /\ app' = IF app = "open" THEN "closed" ELSE app
    /\ server' = "stopped"
    /\ UNCHANGED <<conn, attempts, closed, call, entry, runs, driver, rowVars>>

Connect == \E a \in DOMAIN attempts : LazyGet(a) \/ LazyOpen(a) \/ Publish(a) \/ CloseDone(a)

Handle(c) ==
    \/ Told(c) \/ Resolve(c) \/ StartRun(c) \/ RunDone(c) \/ WaitEnds(c) \/ Report(c)
    \/ GetResult(c) \/ CancelTask(c) \/ ApproveTask(c)

Next ==
    \/ Connect
    \/ \E c \in Calls : Ask(c) \/ Handle(c) \/ GiveUp(c)
    \/ \E d \in Drivers : DriverStarts(d) \/ DriverWorks(d) \/ DriverRetries(d)
    \/ PersonRuns \/ Recover
    \/ \E r \in DOMAIN runs : Watch(r)
    \/ Disconnect \/ AwaitRuns \/ CloseApp

Spec == Init /\ [][Next]_vars

\* The server's goroutines are scheduled, its waits are bounded, and the opener
\* has a time limit.  No driver is assumed to end, no client to leave.
FairSpec ==
    /\ Spec
    /\ WF_vars(Connect)
    /\ \A c \in Calls : WF_vars(Handle(c))
    /\ \A r \in 1 .. MaxRuns : WF_vars(r \in DOMAIN runs /\ Watch(r))
    /\ WF_vars(AwaitRuns) /\ WF_vars(CloseApp)

-----------------------------------------------------------------------------
(* Properties.                                                             *)

\* What a call knows of the connection, before its goroutine is told.
Answer(c) ==
    LET a == call[c].on
        known == IF call[c].pc # "connecting" THEN call[c].link
                 ELSE CASE attempts[a].result = "none" -> "waiting"
                        [] attempts[a].result = "ok" -> "served"
                        [] attempts[a].result = "failed" -> "failed"
    IN  IF server = "stopped" /\ known = "waiting" THEN "left" ELSE known

Shared == INSTANCE SharedConnection
    WITH link <- CASE server = "stopped" -> "shut"
                   [] server # "stopped" /\ conn.open -> "open"
                   [] server # "stopped" /\ ~conn.open /\ conn.attempt # 0 -> "opening"
                   [] OTHER -> "none",
         ask <- [c \in Calls |-> Answer(c)]

\* Server.connected over lazyApp is the shared connection it claims to be: one
\* attempt at a time, its result for everyone who waited, a success for good,
\* a failure for nobody after it.
ConnectionSpec == Shared!Spec

\* While the server is up it has at most one process running the task, however
\* many calls asked for a run and whatever status they had read.
OneDriver ==
    server = "up" =>
      Cardinality({d \in 1 .. MaxRuns : driver[d] \in {"spawned", "owner", "again"}}) <= 1

\* A call that is told its run has ended is told the truth: the process is over,
\* and the task has ended with it, or is at its gate or was let through it.
EndedIsTrue ==
    \A c \in Calls :
      call[c].reply \in {"ended", "gated"} =>
        /\ driver[call[c].on] = "exited"
        /\ call[c].read = "ended" \/ gates > 0

\* The connection pool is not left open by a server that has stopped, not even
\* one that arrives during the shutdown.
PoolClosed == server = "stopped" => app \notin {"open", "connecting"}

\* A shutdown comes to its end, and until then every call is answered.
NobodyHangs ==
    /\ server = "stopping" ~> server = "stopped"
    /\ \A c \in Calls : call[c].pc # "idle" ~> (call[c].pc = "done" \/ server = "stopped")

\* classifyRun: "One error survives a recorded ending: a refusal to run at all".
RefusalReported ==
    \A c \in Calls : call[c].reply = "ended" => call[c].on \notin refused
=============================================================================
