--------------------------- MODULE McpServerProofs ---------------------------
(***************************************************************************)
(* What McpServer's run checks for two tool calls, proved for any number   *)
(* of calls, attempts to connect, runs and decisions; and the safety part  *)
(* of the refinement of SharedConnection.                                  *)
(***************************************************************************)
EXTENDS McpServer, FiniteSetTheorems, SequenceTheorems, TLAPS

Attempt == [state : {"asked", "opening", "ok", "failed"},
            result : {"none", "ok", "failed"}, done : BOOLEAN]

BackgroundRun == [done : BOOLEAN, err : BOOLEAN]

Statuses == {"free", "gated", "active", "ended"}

ToolCall == [pc : {"idle", "connecting", "resolve", "run", "result", "cancel", "approve",
                   "wait", "report", "done"},
             kind : Kinds,
             link : {"idle", "served", "failed", "left"},
             on : Nat,
             read : Statuses,
             reply : {"none", "error", "left", "running", "result", "ended", "gated"}]

(* Every variable of the server has its type.                                *)
Types ==
  /\ conn \in [open : BOOLEAN, attempt : Nat]
  /\ attempts \in Seq(Attempt)
  /\ app \in {"none", "connecting", "open", "closed"}
  /\ closed \in BOOLEAN
  /\ server \in {"up", "stopping", "closing", "stopped"}
  /\ call \in [Calls -> ToolCall]
  /\ entry \in Nat
  /\ runs \in Seq(BackgroundRun)
  /\ driver \in [Drivers -> {"none", "spawned", "owner", "again", "exited"}]
  /\ status \in Statuses
  /\ owner \in Drivers \cup {Nobody}
  /\ gates \in Nat
  /\ refused \in SUBSET Drivers

-----------------------------------------------------------------------------
(* The connection.                                                           *)

(* The attempt in flight is the one that has no result.                      *)
OneAttempt ==
  /\ conn.attempt # 0 => /\ ~conn.open
                         /\ conn.attempt \in DOMAIN attempts
                         /\ attempts[conn.attempt].result = "none"
  /\ \A a \in DOMAIN attempts :
       /\ attempts[a].result = "none" => conn.attempt = a
       /\ attempts[a].done => attempts[a].result # "none"

(* A call waits for an attempt that was made, and works on a connection      *)
(* that it was given.                                                        *)
CallLinks ==
  \A c \in Calls :
    /\ call[c].pc = "idle" => call[c].link = "idle"
    /\ call[c].pc = "connecting" => call[c].on \in DOMAIN attempts
    /\ call[c].pc \in {"resolve", "run", "result", "cancel", "approve", "wait", "report"}
         => call[c].link = "served"

-----------------------------------------------------------------------------
(* The runs.                                                                 *)

(* Server.runs holds a run of this server, and a driver is the child of one. *)
RunsAreLaunched ==
  /\ entry \in 0..Len(runs)
  /\ Len(runs) <= MaxRuns
  /\ \A d \in 1..MaxRuns : d > Len(runs) => driver[d] = "none"

(* While the server is up, every run but the one in Server.runs is done, and *)
(* the process of a run that is done has exited.                             *)
OthersAreDone ==
  server = "up" => \A r \in DOMAIN runs :
                     /\ r # entry => runs[r].done
                     /\ runs[r].done => driver[r] = "exited"

(* A run that ended without an error left a task that has ended, or that     *)
(* has been at its gate.                                                     *)
CleanEndings ==
  \A r \in DOMAIN runs :
    runs[r].done /\ ~runs[r].err => /\ driver[r] = "exited"
                                    /\ status = "ended" \/ gates > 0

RowInv ==
  /\ owner # Nobody => status = "active"
  /\ status = "gated" => gates > 0

(* A call waits for a run that was launched, and reports one that ended      *)
(* without an error.                                                         *)
CallRuns ==
  \A c \in Calls :
    /\ call[c].pc # "done" => call[c].reply = "none"
    /\ call[c].pc = "wait" => call[c].on \in DOMAIN runs
    /\ call[c].pc = "report" => /\ call[c].on \in DOMAIN runs
                                /\ runs[call[c].on].done
                                /\ ~runs[call[c].on].err
    /\ call[c].reply \in {"ended", "gated"} => /\ call[c].on \in DOMAIN runs
                                               /\ driver[call[c].on] = "exited"
                                               /\ call[c].read = "ended" \/ gates > 0

ConnInv == OneAttempt /\ CallLinks
RunInv == RunsAreLaunched /\ OthersAreDone /\ CleanEndings /\ RowInv /\ CallRuns

IInv == Types /\ ConnInv /\ RunInv /\ PoolClosed

(* The invariant holds when the server starts.                               *)
LEMMA InitInv == Init => IInv
<1> SUFFICES ASSUME Init PROVE IInv
  OBVIOUS
<1>1. NewCall \in ToolCall /\ NewCall.pc = "idle" /\ NewCall.link = "idle" /\ NewCall.reply = "none"
  BY DEF NewCall, ToolCall, Kinds, Statuses
<1>2. 0 \in Drivers /\ MaxRuns \in Nat
  BY McpServerAssumption DEF Drivers
<1>3. Types
  <2>1. conn \in [open : BOOLEAN, attempt : Nat] /\ attempts \in Seq(Attempt)
    BY DEF Init
  <2>2. runs \in Seq(BackgroundRun) /\ driver \in [Drivers -> {"none", "spawned", "owner", "again", "exited"}]
    BY DEF Init
  <2>3. call \in [Calls -> ToolCall]
    BY <1>1 DEF Init
  <2> QED
    BY <2>1, <2>2, <2>3 DEF Init, Types, Statuses
<1>4. ConnInv
  BY <1>1 DEF Init, ConnInv, OneAttempt, CallLinks
<1>5. RunInv
  BY <1>1, <1>2 DEF Init, RunInv, RunsAreLaunched, OthersAreDone, CleanEndings, RowInv,
     CallRuns, Drivers
<1>6. PoolClosed
  BY DEF Init, PoolClosed
<1> QED
  BY <1>3, <1>4, <1>5, <1>6 DEF IInv

-----------------------------------------------------------------------------
(* Answers of the tool calls.                                                *)

Texts == {"none", "error", "left", "running", "result", "ended", "gated"}

(* Replies ends one call, keeps its link, and leaves the other calls alone.  *)
LEMMA RepliesFacts ==
  ASSUME Types, NEW c \in Calls, NEW what \in Texts, Replies(c, what)
  PROVE  /\ call' \in [Calls -> ToolCall]
         /\ call'[c].pc = "done" /\ call'[c].reply = what /\ call'[c].link = call[c].link
         /\ \A d \in Calls : d # c => call'[d] = call[d]
<1>1. call[c] \in ToolCall
  BY DEF Types
<1>2. [NewCall EXCEPT !.pc = "done", !.link = call[c].link, !.reply = what] \in ToolCall
  BY <1>1, ZenonT(30) DEF NewCall, ToolCall, Kinds, Statuses, Texts
<1> QED
  BY <1>2 DEF Replies, Types, NewCall

(* A step that changes one call's record.                                    *)
LEMMA OneCall ==
  ASSUME Types, NEW c \in Calls, NEW r, call' = [call EXCEPT ![c] = r], r \in ToolCall
  PROVE  /\ call' \in [Calls -> ToolCall] /\ call'[c] = r
         /\ \A d \in Calls : d # c => call'[d] = call[d]
BY DEF Types

(* A step that changes one attempt.                                          *)
LEMMA OneAttemptChanges ==
  ASSUME Types, NEW a \in DOMAIN attempts, NEW r, attempts' = [attempts EXCEPT ![a] = r],
         r \in Attempt
  PROVE  /\ attempts' \in Seq(Attempt) /\ Len(attempts') = Len(attempts)
         /\ DOMAIN attempts' = DOMAIN attempts
         /\ attempts'[a] = r
         /\ \A b \in DOMAIN attempts : b # a => attempts'[b] = attempts[b]
BY DEF Types

(* Connected keeps the types, and changes one call only.                     *)
LEMMA ConnectedFacts ==
  ASSUME Types, NEW c \in Calls, NEW kind \in Kinds, Connected(c, kind)
  PROVE  /\ call' \in [Calls -> ToolCall]
         /\ \A d \in Calls : d # c => call'[d] = call[d]
         /\ call'[c].reply = call[c].reply
         /\ \/ /\ conn.open
               /\ call'[c].pc = "resolve" /\ call'[c].link = "served"
               /\ UNCHANGED <<conn, attempts>>
            \/ /\ ~conn.open /\ conn.attempt # 0
               /\ call'[c].pc = "connecting" /\ call'[c].on = conn.attempt
               /\ UNCHANGED <<conn, attempts>>
            \/ /\ ~conn.open /\ conn.attempt = 0
               /\ call'[c].pc = "connecting" /\ call'[c].on = Len(attempts) + 1
               /\ conn' = [open |-> FALSE, attempt |-> Len(attempts) + 1]
               /\ attempts' = Append(attempts, [state |-> "asked", result |-> "none",
                                                done |-> FALSE])
<1>1. call[c] \in ToolCall /\ conn \in [open : BOOLEAN, attempt : Nat] /\ Len(attempts) \in Nat
  BY DEF Types
<1>2. CASE /\ conn.open
           /\ call' = [call EXCEPT ![c].pc = "resolve", ![c].kind = kind, ![c].link = "served"]
           /\ UNCHANGED <<conn, attempts>>
  <2>1. call' = [call EXCEPT ![c] = [call[c] EXCEPT !.pc = "resolve", !.kind = kind, !.link = "served"]]
    BY <1>2 DEF Types
  <2>2. [call[c] EXCEPT !.pc = "resolve", !.kind = kind, !.link = "served"] \in ToolCall
    BY <1>1 DEF ToolCall
  <2>3. /\ call' \in [Calls -> ToolCall]
        /\ call'[c] = [call[c] EXCEPT !.pc = "resolve", !.kind = kind, !.link = "served"]
        /\ \A d \in Calls : d # c => call'[d] = call[d]
    BY <2>1, <2>2, OneCall
  <2> QED
    BY <1>1, <1>2, <2>3 DEF ToolCall
<1>3. ASSUME NEW a \in Nat,
             call' = [call EXCEPT ![c].pc = "connecting", ![c].kind = kind, ![c].on = a]
      PROVE  /\ call' \in [Calls -> ToolCall]
             /\ \A d \in Calls : d # c => call'[d] = call[d]
             /\ call'[c].reply = call[c].reply
             /\ call'[c].pc = "connecting" /\ call'[c].on = a
  <2>1. call' = [call EXCEPT ![c] = [call[c] EXCEPT !.pc = "connecting", !.kind = kind, !.on = a]]
    BY <1>3 DEF Types
  <2>2. [call[c] EXCEPT !.pc = "connecting", !.kind = kind, !.on = a] \in ToolCall
    BY <1>1 DEF ToolCall
  <2>3. /\ call' \in [Calls -> ToolCall]
        /\ call'[c] = [call[c] EXCEPT !.pc = "connecting", !.kind = kind, !.on = a]
        /\ \A d \in Calls : d # c => call'[d] = call[d]
    BY <2>1, <2>2, OneCall
  <2> QED
    BY <1>1, <2>3 DEF ToolCall
<1>4. CASE /\ ~conn.open /\ conn.attempt # 0
           /\ call' = [call EXCEPT ![c].pc = "connecting", ![c].kind = kind,
                                   ![c].on = conn.attempt]
           /\ UNCHANGED <<conn, attempts>>
  BY <1>1, <1>3, <1>4
<1>5. CASE /\ ~conn.open /\ conn.attempt = 0
           /\ attempts' = Append(attempts, [state |-> "asked", result |-> "none", done |-> FALSE])
           /\ conn' = [conn EXCEPT !.attempt = Len(attempts) + 1]
           /\ call' = [call EXCEPT ![c].pc = "connecting", ![c].kind = kind,
                                   ![c].on = Len(attempts) + 1]
  <2>1. conn.open = FALSE
    BY <1>1, <1>5
  <2>2. conn' = [open |-> FALSE, attempt |-> Len(attempts) + 1]
    BY <1>1, <1>5, <2>1
  <2>3. Len(attempts) + 1 \in Nat
    BY <1>1
  <2> QED
    BY <1>3, <1>5, <2>2, <2>3
<1> QED
  BY <1>2, <1>4, <1>5 DEF Connected

(* Told gives a waiting call what the attempt brought.                       *)
LEMMA ToldFacts ==
  ASSUME Types, NEW c \in Calls, Told(c)
  PROVE  LET ok == attempts[call[c].on].result = "ok"
         IN  /\ call' \in [Calls -> ToolCall]
             /\ \A d \in Calls : d # c => call'[d] = call[d]
             /\ call'[c].pc = IF ok THEN "resolve" ELSE "done"
             /\ call'[c].link = IF ok THEN "served" ELSE "failed"
             /\ call'[c].reply = IF ok THEN "none" ELSE "error"
<1> DEFINE ok == attempts[call[c].on].result = "ok"
           r == [call[c] EXCEPT !.pc = IF ok THEN "resolve" ELSE "done",
                                !.link = IF ok THEN "served" ELSE "failed",
                                !.reply = IF ok THEN "none" ELSE "error",
                                !.on = 0]
<1>1. call[c] \in ToolCall
  BY DEF Types
<1>2. call' = [call EXCEPT ![c] = r]
  BY DEF Told, Types
<1>3. /\ r \in ToolCall /\ r.pc = (IF ok THEN "resolve" ELSE "done")
      /\ r.link = (IF ok THEN "served" ELSE "failed") /\ r.reply = (IF ok THEN "none" ELSE "error")
  BY <1>1 DEF ToolCall
<1> HIDE DEF r
<1> QED
  BY <1>2, <1>3, OneCall

(* GiveUp ends a call.                                                       *)
LEMMA GiveUpFacts ==
  ASSUME Types, NEW c \in Calls, GiveUp(c)
  PROVE  /\ call' \in [Calls -> ToolCall]
         /\ \A d \in Calls : d # c => call'[d] = call[d]
         /\ call'[c].pc = "done" /\ call'[c].reply = "left"
         /\ call'[c].link = IF call[c].pc = "connecting" THEN "left" ELSE "served"
<1> DEFINE r == [NewCall EXCEPT !.pc = "done", !.reply = "left",
                   !.link = IF call[c].pc = "connecting" THEN "left" ELSE "served"]
<1>1. call' = [call EXCEPT ![c] = r]
  BY DEF GiveUp
<1>2. /\ r \in ToolCall /\ r.pc = "done" /\ r.reply = "left"
      /\ r.link = IF call[c].pc = "connecting" THEN "left" ELSE "served"
  BY DEF NewCall, ToolCall, Kinds, Statuses
<1> HIDE DEF r
<1> QED
  BY <1>1, <1>2, OneCall

(* A call that goes on to a run, or is sent to report.                       *)
LEMMA GoesOnFacts ==
  ASSUME Types, NEW c \in Calls, NEW pc \in {"wait", "report"}, NEW on \in Nat,
         call' = [call EXCEPT ![c].pc = pc, ![c].on = on]
  PROVE  /\ call' \in [Calls -> ToolCall]
         /\ \A d \in Calls : d # c => call'[d] = call[d]
         /\ call'[c].pc = pc /\ call'[c].on = on
         /\ call'[c].link = call[c].link /\ call'[c].reply = call[c].reply
         /\ call'[c].read = call[c].read
<1> DEFINE r == [call[c] EXCEPT !.pc = pc, !.on = on]
<1>1. call[c] \in ToolCall
  BY DEF Types
<1>2. call' = [call EXCEPT ![c] = r]
  BY DEF Types
<1>3. /\ r \in ToolCall /\ r.pc = pc /\ r.on = on /\ r.link = call[c].link
      /\ r.reply = call[c].reply /\ r.read = call[c].read
  BY <1>1 DEF ToolCall
<1> HIDE DEF r
<1> QED
  BY <1>2, <1>3, OneCall

(* The four steps of an attempt change that attempt alone.                   *)
LEMMA AttemptFacts ==
  ASSUME Types, NEW a \in DOMAIN attempts,
         LazyGet(a) \/ LazyOpen(a) \/ Publish(a) \/ CloseDone(a)
  PROVE  /\ attempts' \in Seq(Attempt) /\ DOMAIN attempts' = DOMAIN attempts
         /\ \A b \in DOMAIN attempts : b # a => attempts'[b] = attempts[b]
         /\ LazyGet(a) \/ LazyOpen(a) => /\ attempts'[a].result = attempts[a].result
                                         /\ attempts'[a].done = attempts[a].done
         /\ Publish(a) => /\ attempts'[a].result = attempts[a].state
                          /\ attempts'[a].done = attempts[a].done
         /\ CloseDone(a) => attempts'[a].result = attempts[a].result
<1>1. attempts[a] \in Attempt /\ attempts \in Seq(Attempt)
  BY DEF Types
<1>2. ASSUME NEW f \in {"opening", "failed", "ok"}, attempts' = [attempts EXCEPT ![a].state = f]
      PROVE  /\ attempts' \in Seq(Attempt) /\ DOMAIN attempts' = DOMAIN attempts
             /\ \A b \in DOMAIN attempts : b # a => attempts'[b] = attempts[b]
             /\ attempts'[a].result = attempts[a].result
             /\ attempts'[a].done = attempts[a].done
  <2>1. /\ [attempts[a] EXCEPT !.state = f] \in Attempt
        /\ [attempts[a] EXCEPT !.state = f].result = attempts[a].result
        /\ [attempts[a] EXCEPT !.state = f].done = attempts[a].done
    BY <1>1 DEF Attempt
  <2>2. attempts' = [attempts EXCEPT ![a] = [attempts[a] EXCEPT !.state = f]]
    BY <1>1, <1>2
  <2> QED
    BY <2>1, <2>2, OneAttemptChanges
<1>3. CASE LazyGet(a) \/ LazyOpen(a)
  <2>1. PICK f \in {"opening", "failed", "ok"} : attempts' = [attempts EXCEPT ![a].state = f]
    BY <1>3 DEF LazyGet, LazyOpen
  <2>2. ~Publish(a) /\ ~CloseDone(a)
    <3>1. attempts'[a].state # attempts[a].state
      BY <1>1, <1>3 DEF LazyGet, LazyOpen, Attempt
    <3>2. ASSUME Publish(a) PROVE FALSE
      BY <1>1, <1>3, <3>2 DEF LazyGet, LazyOpen, Publish
    <3>3. ASSUME CloseDone(a) PROVE FALSE
      <4>1. attempts'[a].state = attempts[a].state
        BY <1>1, <3>3 DEF CloseDone, Attempt
      <4> QED
        BY <3>1, <4>1
    <3> QED
      BY <3>2, <3>3
  <2> QED
    BY <1>2, <2>1, <2>2
<1>4. CASE Publish(a)
  <2>1. /\ [attempts[a] EXCEPT !.result = attempts[a].state] \in Attempt
        /\ [attempts[a] EXCEPT !.result = attempts[a].state].result = attempts[a].state
        /\ [attempts[a] EXCEPT !.result = attempts[a].state].done = attempts[a].done
    BY <1>1, <1>4 DEF Attempt, Publish
  <2>2. attempts' = [attempts EXCEPT ![a] = [attempts[a] EXCEPT !.result = attempts[a].state]]
    BY <1>1, <1>4 DEF Publish
  <2>3. ~LazyGet(a) /\ ~LazyOpen(a)
    BY <1>4 DEF LazyGet, LazyOpen, Publish
  <2>4. ~CloseDone(a)
    BY <1>4 DEF CloseDone, Settled, Publish
  <2> QED
    BY <2>1, <2>2, <2>3, <2>4, OneAttemptChanges
<1>5. CASE CloseDone(a)
  <2>1. /\ [attempts[a] EXCEPT !.done = TRUE] \in Attempt
        /\ [attempts[a] EXCEPT !.done = TRUE].result = attempts[a].result
    BY <1>1, <1>5 DEF Attempt
  <2>2. attempts' = [attempts EXCEPT ![a] = [attempts[a] EXCEPT !.done = TRUE]]
    BY <1>1, <1>5 DEF CloseDone
  <2>3. CASE LazyGet(a) \/ LazyOpen(a)
    BY <1>3, <2>3
  <2>4. CASE ~LazyGet(a) /\ ~LazyOpen(a)
    <3>1. ~Publish(a)
      BY <1>5 DEF CloseDone, Settled, Publish
    <3> QED
      BY <2>1, <2>2, <2>4, <3>1, OneAttemptChanges
  <2> QED
    BY <2>3, <2>4
<1> QED
  BY <1>3, <1>4, <1>5

(* StartRun joins the run in flight, launches one, or refuses.               *)
LEMMA StartRunFacts ==
  ASSUME Types, NEW c \in Calls, StartRun(c)
  PROVE  /\ call' \in [Calls -> ToolCall]
         /\ \A d \in Calls : d # c => call'[d] = call[d]
         /\ call'[c].link = call[c].link
         /\ \/ /\ Joins(c) /\ call'[c].pc = "wait" /\ call'[c].on = entry
               /\ call'[c].reply = call[c].reply
               /\ UNCHANGED <<entry, runs, driver>>
            \/ /\ ~Joins(c) /\ call'[c].pc = "done" /\ call'[c].reply = "error"
               /\ entry' = 0 /\ UNCHANGED <<runs, driver>>
            \/ /\ ~Joins(c) /\ Len(runs) < MaxRuns
               /\ runs' = Append(runs, [done |-> FALSE, err |-> FALSE])
               /\ driver' = [driver EXCEPT ![Len(runs) + 1] = "spawned"]
               /\ entry' = Len(runs) + 1
               /\ call'[c].pc = "wait" /\ call'[c].on = Len(runs) + 1
               /\ call'[c].reply = call[c].reply
<1>1. "error" \in Texts /\ entry \in Nat /\ Len(runs) \in Nat /\ Len(runs) + 1 \in Nat
  BY DEF Texts, Types
<1>2. CASE /\ Joins(c) /\ call' = [call EXCEPT ![c].pc = "wait", ![c].on = entry]
           /\ UNCHANGED <<entry, runs, driver>>
  BY <1>1, <1>2, GoesOnFacts
<1>3. CASE ~Joins(c) /\ Replies(c, "error") /\ entry' = 0 /\ UNCHANGED <<runs, driver>>
  BY <1>1, <1>3, RepliesFacts
<1>4. CASE /\ ~Joins(c)
           /\ Len(runs) < MaxRuns
           /\ runs' = Append(runs, [done |-> FALSE, err |-> FALSE])
           /\ driver' = [driver EXCEPT ![Len(runs) + 1] = "spawned"]
           /\ entry' = Len(runs) + 1
           /\ call' = [call EXCEPT ![c].pc = "wait", ![c].on = Len(runs) + 1]
  BY <1>1, <1>4, GoesOnFacts
<1> QED
  BY <1>2, <1>3, <1>4 DEF StartRun

(* RunDone answers with an error, or goes on to report.                      *)
LEMMA RunDoneFacts ==
  ASSUME Types, NEW c \in Calls, RunDone(c)
  PROVE  /\ call' \in [Calls -> ToolCall]
         /\ \A d \in Calls : d # c => call'[d] = call[d]
         /\ call'[c].link = call[c].link
         /\ \/ call'[c].pc = "done" /\ call'[c].reply = "error"
            \/ /\ ~runs[call[c].on].err
               /\ call'[c].pc = "report" /\ call'[c].on = call[c].on
               /\ call'[c].reply = call[c].reply
<1>1. call[c] \in ToolCall /\ "error" \in Texts /\ call[c].on \in Nat
  BY DEF Types, ToolCall, Texts
<1>2. CASE Replies(c, "error")
  BY <1>1, <1>2, RepliesFacts
<1>3. CASE ~runs[call[c].on].err /\ Goes(c, "report")
  <2>1. call' = [call EXCEPT ![c].pc = "report", ![c].on = call[c].on]
    BY <1>1, <1>3 DEF Goes, Types, ToolCall
  <2> QED
    BY <1>1, <1>3, <2>1, GoesOnFacts
<1> QED
  BY <1>2, <1>3 DEF RunDone

(* Resolve and Report read the row.                                          *)
LEMMA RowReadFacts ==
  ASSUME Types, NEW c \in Calls, Resolve(c) \/ Report(c)
  PROVE  /\ call' \in [Calls -> ToolCall]
         /\ \A d \in Calls : d # c => call'[d] = call[d]
         /\ call'[c].link = call[c].link /\ call'[c].on = call[c].on
         /\ call'[c].read = status
         /\ Resolve(c) => call'[c].pc \in Kinds /\ call'[c].reply = call[c].reply
         /\ Report(c) => call'[c].pc = "done" /\ call'[c].reply \in {"gated", "ended"}
<1>1. call[c] \in ToolCall
  BY DEF Types
<1>2. CASE Resolve(c)
  <2> DEFINE r == [call[c] EXCEPT !.pc = call[c].kind, !.read = status]
  <2>1. call' = [call EXCEPT ![c] = r]
    BY <1>2 DEF Resolve, Types
  <2>2. /\ r \in ToolCall /\ r.pc \in Kinds /\ r.on = call[c].on /\ r.link = call[c].link
        /\ r.reply = call[c].reply /\ r.read = status
    BY <1>1 DEF ToolCall, Types, Kinds
  <2>3. ~Report(c)
    BY <1>2 DEF Resolve, Report
  <2> HIDE DEF r
  <2> QED
    BY <2>1, <2>2, <2>3, OneCall
<1>3. CASE Report(c)
  <2> DEFINE r == [call[c] EXCEPT !.pc = "done", !.read = status,
                                  !.reply = IF status = "gated" THEN "gated" ELSE "ended"]
  <2>1. call' = [call EXCEPT ![c] = r]
    BY <1>3 DEF Report, Types
  <2>2. /\ r \in ToolCall /\ r.pc = "done" /\ r.on = call[c].on /\ r.link = call[c].link
        /\ r.reply \in {"gated", "ended"} /\ r.read = status
    BY <1>1 DEF ToolCall, Types
  <2>3. ~Resolve(c)
    BY <1>3 DEF Resolve, Report
  <2> HIDE DEF r
  <2> QED
    BY <2>1, <2>2, <2>3, OneCall
<1> QED
  BY <1>2, <1>3

(* The tools that answer at once.                                            *)
LEMMA AnswersFacts ==
  ASSUME Types, NEW c \in Calls,
         WaitEnds(c) \/ GetResult(c) \/ CancelTask(c) \/ ApproveTask(c)
  PROVE  /\ call' \in [Calls -> ToolCall]
         /\ \A d \in Calls : d # c => call'[d] = call[d]
         /\ call'[c].link = call[c].link
         /\ call'[c].pc = "done" /\ call'[c].reply \in {"running", "result", "error"}
<1>1. PICK what \in {"running", "result", "error"} : Replies(c, what)
  BY DEF WaitEnds, GetResult, CancelTask, ApproveTask
<1>2. what \in Texts
  BY DEF Texts
<1> QED
  BY <1>1, <1>2, RepliesFacts

(* A step that changes one background run.                                   *)
LEMMA OneRunChanges ==
  ASSUME Types, NEW r \in DOMAIN runs, NEW b, runs' = [runs EXCEPT ![r] = b],
         b \in BackgroundRun
  PROVE  /\ runs' \in Seq(BackgroundRun) /\ Len(runs') = Len(runs)
         /\ DOMAIN runs' = DOMAIN runs
         /\ runs'[r] = b
         /\ \A s \in DOMAIN runs : s # r => runs'[s] = runs[s]
BY DEF Types

(* Watch ends a run.                                                         *)
LEMMA WatchFacts ==
  ASSUME Types, NEW r \in DOMAIN runs, Watch(r)
  PROVE  /\ runs' \in Seq(BackgroundRun) /\ Len(runs') = Len(runs)
         /\ DOMAIN runs' = DOMAIN runs
         /\ \A s \in DOMAIN runs : s # r => runs'[s] = runs[s]
         /\ runs'[r].done
         /\ server = "up" => driver[r] = "exited"
         /\ ~runs'[r].err => driver[r] = "exited" /\ status \in {"ended", "gated"}
<1>1. /\ [done |-> TRUE, err |-> TRUE] \in BackgroundRun
      /\ [done |-> TRUE, err |-> FALSE] \in BackgroundRun
  BY DEF BackgroundRun
<1>2. ASSUME NEW b \in BackgroundRun, runs' = [runs EXCEPT ![r] = b]
      PROVE  /\ runs' \in Seq(BackgroundRun) /\ Len(runs') = Len(runs)
             /\ DOMAIN runs' = DOMAIN runs
             /\ \A s \in DOMAIN runs : s # r => runs'[s] = runs[s]
             /\ runs'[r] = b
  BY <1>2, OneRunChanges
<1>3. CASE runs' = [runs EXCEPT ![r] = [done |-> TRUE, err |-> TRUE]]
  <2>1. server = "up" => driver[r] = "exited"
    BY DEF Watch
  <2> QED
    BY <1>1, <1>2, <1>3, <2>1
<1>4. CASE /\ driver[r] = "exited"
           /\ \E unreadable \in BOOLEAN :
                 runs' = [runs EXCEPT ![r] = [done |-> TRUE, err |-> unreadable \/ StoppedShort]]
  <2>1. PICK unreadable \in BOOLEAN :
          runs' = [runs EXCEPT ![r] = [done |-> TRUE, err |-> unreadable \/ StoppedShort]]
    BY <1>4
  <2>2. CASE unreadable \/ StoppedShort
    <3>1. (unreadable \/ StoppedShort) = TRUE
      BY <2>2
    <3>2. runs' = [runs EXCEPT ![r] = [done |-> TRUE, err |-> TRUE]]
      BY <2>1, <3>1
    <3> QED
      BY <1>3, <3>2
  <2>3. CASE ~(unreadable \/ StoppedShort)
    <3>1. (unreadable \/ StoppedShort) = FALSE
      BY <2>3
    <3>2. runs' = [runs EXCEPT ![r] = [done |-> TRUE, err |-> FALSE]]
      BY <2>1, <3>1
    <3>3. status \in {"ended", "gated"}
      BY <2>3 DEF StoppedShort
    <3> QED
      BY <1>1, <1>2, <1>4, <3>2, <3>3
  <2> QED
    BY <2>2, <2>3
<1> QED
  BY <1>3, <1>4 DEF Watch

-----------------------------------------------------------------------------
(* Every step keeps the types.                                               *)
LEMMA TypesStep ==
  ASSUME Types, [Next]_vars
  PROVE  Types'
<1>0. MaxRuns \in Nat /\ MaxConnects \in Nat /\ MaxDecisions \in Nat
  BY McpServerAssumption
<1>1. ASSUME NEW a \in DOMAIN attempts,
             LazyGet(a) \/ LazyOpen(a) \/ Publish(a) \/ CloseDone(a)
      PROVE  Types'
  <2>1. attempts' \in Seq(Attempt)
    BY <1>1, AttemptFacts
  <2>2. conn' \in [open : BOOLEAN, attempt : Nat]
    <3>1. CASE UNCHANGED conn
      BY <3>1 DEF Types
    <3>2. CASE Settle(a)
      <4>1. (attempts[a].state = "ok") \in BOOLEAN /\ 0 \in Nat
        OBVIOUS
      <4> QED
        BY <3>2, <4>1 DEF Settle
    <3> QED
      BY <1>1, <3>1, <3>2 DEF LazyGet, LazyOpen, Publish, CloseDone
  <2>3. app' \in {"none", "connecting", "open", "closed"}
    BY <1>1 DEF LazyGet, LazyOpen, Publish, CloseDone, Types
  <2> QED
    BY <1>1, <2>1, <2>2, <2>3 DEF LazyGet, LazyOpen, Publish, CloseDone, rowVars, Types
<1>2. ASSUME NEW c \in Calls, Ask(c) PROVE Types'
  <2>1. CASE \E kind \in Kinds : Connected(c, kind)
    <3>1. call' \in [Calls -> ToolCall]
      BY <2>1, ConnectedFacts
    <3>2. conn' \in [open : BOOLEAN, attempt : Nat] /\ attempts' \in Seq(Attempt)
      <4>1. \/ UNCHANGED <<conn, attempts>>
            \/ /\ conn' = [open |-> FALSE, attempt |-> Len(attempts) + 1]
               /\ attempts' = Append(attempts, [state |-> "asked", result |-> "none",
                                                done |-> FALSE])
        BY <2>1, ConnectedFacts
      <4>2. [state |-> "asked", result |-> "none", done |-> FALSE] \in Attempt
        BY DEF Attempt
      <4>3. attempts \in Seq(Attempt) /\ conn \in [open : BOOLEAN, attempt : Nat]
        BY DEF Types
      <4>4. [open |-> FALSE, attempt |-> Len(attempts) + 1] \in [open : BOOLEAN, attempt : Nat]
        BY <4>3
      <4>5. Append(attempts, [state |-> "asked", result |-> "none", done |-> FALSE]) \in Seq(Attempt)
        BY <4>2, <4>3, AppendProperties, Zenon
      <4> QED
        BY <4>1, <4>3, <4>4, <4>5, Zenon
    <3> QED
      BY <1>2, <3>1, <3>2 DEF Ask, Types
  <2>2. CASE Replies(c, "error") /\ UNCHANGED <<conn, attempts>>
    <3>1. call' \in [Calls -> ToolCall]
      BY <2>2, RepliesFacts DEF Texts
    <3> QED
      BY <1>2, <2>2, <3>1 DEF Ask, Types
  <2> QED
    BY <1>2, <2>1, <2>2 DEF Ask
<1>3. ASSUME NEW c \in Calls, Told(c) \/ GiveUp(c) PROVE Types'
  <2>1. call' \in [Calls -> ToolCall]
    BY <1>3, ToldFacts, GiveUpFacts
  <2> QED
    BY <1>3, <2>1 DEF Told, GiveUp, connVars, rowVars, Types
<1>4. ASSUME NEW c \in Calls, Resolve(c) \/ Report(c) PROVE Types'
  <2>1. call' \in [Calls -> ToolCall]
    BY <1>4, RowReadFacts
  <2> QED
    BY <1>4, <2>1 DEF Resolve, Report, connVars, rowVars, Types
<1>5. ASSUME NEW c \in Calls, StartRun(c) PROVE Types'
  <2>1. call' \in [Calls -> ToolCall]
    BY <1>5, StartRunFacts
  <2>2. /\ entry' \in Nat /\ runs' \in Seq(BackgroundRun)
        /\ driver' \in [Drivers -> {"none", "spawned", "owner", "again", "exited"}]
    <3>1. \/ UNCHANGED <<runs, driver>> /\ entry' \in {0, entry}
          \/ /\ runs' = Append(runs, [done |-> FALSE, err |-> FALSE])
             /\ driver' = [driver EXCEPT ![Len(runs) + 1] = "spawned"]
             /\ entry' = Len(runs) + 1
      BY <1>5, StartRunFacts
    <3>2. [done |-> FALSE, err |-> FALSE] \in BackgroundRun
      BY DEF BackgroundRun
    <3>3. /\ runs \in Seq(BackgroundRun) /\ entry \in Nat
          /\ driver \in [Drivers -> {"none", "spawned", "owner", "again", "exited"}]
      BY DEF Types
    <3>4. Append(runs, [done |-> FALSE, err |-> FALSE]) \in Seq(BackgroundRun)
      BY <3>2, <3>3, AppendProperties, Zenon
    <3>5. [driver EXCEPT ![Len(runs) + 1] = "spawned"]
             \in [Drivers -> {"none", "spawned", "owner", "again", "exited"}]
      BY <3>3, Zenon
    <3>6. Len(runs) + 1 \in Nat
      BY <3>3, LenProperties
    <3> QED
      BY <3>1, <3>3, <3>4, <3>5, <3>6
  <2> QED
    BY <1>5, <2>1, <2>2 DEF StartRun, connVars, rowVars, Types
<1>6. ASSUME NEW c \in Calls, RunDone(c) PROVE Types'
  <2>1. call' \in [Calls -> ToolCall]
    BY <1>6, RunDoneFacts
  <2> QED
    BY <1>6, <2>1 DEF RunDone, connVars, rowVars, Types
<1>7. ASSUME NEW c \in Calls, WaitEnds(c) \/ GetResult(c) \/ CancelTask(c) \/ ApproveTask(c)
      PROVE  Types'
  <2>1. call' \in [Calls -> ToolCall]
    BY <1>7, AnswersFacts
  <2> QED
    BY <1>7, <2>1 DEF WaitEnds, GetResult, CancelTask, ApproveTask, connVars, rowVars,
       Types, Statuses
<1>8. ASSUME NEW d \in Drivers, DriverStarts(d) \/ DriverWorks(d) \/ DriverRetries(d)
      PROVE  Types'
  <2>1. driver' \in [Drivers -> {"none", "spawned", "owner", "again", "exited"}]
    BY <1>8 DEF DriverStarts, DriverWorks, DriverRetries, Exits, Types
  <2>2. /\ status' \in Statuses /\ owner' \in Drivers \cup {Nobody} /\ gates' \in Nat
        /\ refused' \in SUBSET Drivers
    BY <1>8 DEF DriverStarts, DriverWorks, DriverRetries, rowVars, Types, Statuses
  <2> QED
    BY <1>8, <2>1, <2>2 DEF DriverStarts, DriverWorks, DriverRetries, connVars, Types
<1>9. CASE PersonRuns
  BY <1>9, <1>0 DEF PersonRuns, connVars, rowVars, Drivers, Types
<1>10. CASE Recover
  BY <1>10 DEF Recover, connVars, Statuses, Types
<1>11. ASSUME NEW r \in DOMAIN runs, Watch(r) PROVE Types'
  <2>1. runs' \in Seq(BackgroundRun)
    BY <1>11, WatchFacts
  <2> QED
    BY <1>11, <2>1 DEF Watch, connVars, rowVars, Types
<1>12. CASE Disconnect \/ AwaitRuns \/ CloseApp
  BY <1>12 DEF Disconnect, AwaitRuns, CloseApp, connVars, rowVars, Types
<1>13. CASE UNCHANGED vars
  BY <1>13 DEF vars, Types
<1> QED
  BY <1>1, <1>2, <1>3, <1>4, <1>5, <1>6, <1>7, <1>8, <1>9, <1>10, <1>11, <1>12, <1>13
  DEF Next, Connect, Handle

-----------------------------------------------------------------------------
(* A step that leaves conn and attempts alone and moves one call.            *)
LEMMA LinkKept ==
  ASSUME ConnInv, UNCHANGED <<conn, attempts>>, NEW c \in Calls,
         \A d \in Calls : d # c => call'[d] = call[d],
         call'[c].pc # "idle",
         call'[c].pc # "connecting",
         call'[c].link = "served" \/ call'[c].pc = "done"
  PROVE  ConnInv'
<1>1. OneAttempt'
  BY DEF ConnInv, OneAttempt
<1>2. ASSUME NEW d \in Calls
      PROVE  /\ call'[d].pc = "idle" => call'[d].link = "idle"
             /\ call'[d].pc = "connecting" => call'[d].on \in DOMAIN attempts'
             /\ call'[d].pc \in {"resolve", "run", "result", "cancel", "approve", "wait", "report"}
                  => call'[d].link = "served"
  <2>1. CASE d = c
    BY <2>1
  <2>2. CASE d # c
    BY <2>2 DEF ConnInv, CallLinks
  <2> QED
    BY <2>1, <2>2
<1> QED
  BY <1>1, <1>2 DEF ConnInv, CallLinks

(* Every step keeps what the invariant says of the connection.               *)
LEMMA ConnStep ==
  ASSUME Types, ConnInv, [Next]_vars
  PROVE  ConnInv'
<1>1. ASSUME NEW a \in DOMAIN attempts,
             LazyGet(a) \/ LazyOpen(a) \/ Publish(a) \/ CloseDone(a)
      PROVE  ConnInv'
  <2>1. /\ DOMAIN attempts' = DOMAIN attempts
        /\ \A b \in DOMAIN attempts : b # a => attempts'[b] = attempts[b]
    BY <1>1, AttemptFacts
  <2>2. UNCHANGED call
    BY <1>1 DEF LazyGet, LazyOpen, Publish, CloseDone
  <2>3. CallLinks'
    BY <2>1, <2>2 DEF ConnInv, CallLinks
  <2>4. CASE LazyGet(a) \/ LazyOpen(a)
    <3>1. attempts'[a].result = attempts[a].result /\ attempts'[a].done = attempts[a].done
      BY <2>4, AttemptFacts
    <3>2. UNCHANGED conn
      BY <2>4 DEF LazyGet, LazyOpen
    <3> QED
      BY <2>1, <2>3, <3>1, <3>2 DEF ConnInv, OneAttempt
  <2>5. CASE Publish(a)
    <3>1. attempts'[a].result = attempts[a].state /\ attempts[a].state # "none"
      BY <2>5, AttemptFacts DEF Publish
    <3>2. conn'.attempt = 0
      BY <2>5 DEF Publish, Settle
    <3>3. conn.attempt = a
      BY <2>5 DEF Publish, ConnInv, OneAttempt
    <3>4. OneAttempt'
      BY <2>1, <3>1, <3>2, <3>3 DEF ConnInv, OneAttempt
    <3> QED
      BY <2>3, <3>4 DEF ConnInv
  <2>6. CASE CloseDone(a)
    <3>1. attempts'[a].result = attempts[a].result /\ attempts[a].result # "none"
      BY <2>6, AttemptFacts DEF CloseDone, Settled
    <3>2. UNCHANGED conn
      BY <2>6 DEF CloseDone
    <3> QED
      BY <2>1, <2>3, <3>1, <3>2 DEF ConnInv, OneAttempt
  <2> QED
    BY <1>1, <2>4, <2>5, <2>6
<1>2. ASSUME NEW c \in Calls, Ask(c) PROVE ConnInv'
  <2>1. CASE Replies(c, "error") /\ UNCHANGED <<conn, attempts>>
    <3>1. call'[c].pc = "done" /\ \A d \in Calls : d # c => call'[d] = call[d]
      BY <2>1, RepliesFacts DEF Texts
    <3> QED
      BY <2>1, <3>1, LinkKept
  <2>2. CASE \E kind \in Kinds : Connected(c, kind)
    <3>1. \A d \in Calls : d # c => call'[d] = call[d]
      BY <2>2, ConnectedFacts
    <3>2. CASE conn.open
      <4>1. call'[c].pc = "resolve" /\ call'[c].link = "served" /\ UNCHANGED <<conn, attempts>>
        BY <2>2, <3>2, ConnectedFacts
      <4> QED
        BY <3>1, <4>1, LinkKept
    <3>3. CASE ~conn.open /\ conn.attempt # 0
      <4>1. /\ call'[c].pc = "connecting" /\ call'[c].on = conn.attempt
            /\ UNCHANGED <<conn, attempts>>
        BY <2>2, <3>3, ConnectedFacts
      <4>2. conn.attempt \in DOMAIN attempts
        BY <3>3 DEF ConnInv, OneAttempt
      <4>3. CallLinks'
        BY <3>1, <4>1, <4>2 DEF ConnInv, CallLinks
      <4> QED
        BY <4>1, <4>3 DEF ConnInv, OneAttempt
    <3>4. CASE ~conn.open /\ conn.attempt = 0
      <4>1. /\ call'[c].pc = "connecting" /\ call'[c].on = Len(attempts) + 1
            /\ conn' = [open |-> FALSE, attempt |-> Len(attempts) + 1]
            /\ attempts' = Append(attempts, [state |-> "asked", result |-> "none",
                                             done |-> FALSE])
        BY <2>2, <3>4, ConnectedFacts
      <4>2. attempts \in Seq(Attempt)
        BY DEF Types
      <4>3. /\ DOMAIN attempts' = 1..(Len(attempts) + 1)
            /\ DOMAIN attempts = 1..Len(attempts)
            /\ Len(attempts) \in Nat
            /\ attempts'[Len(attempts) + 1].result = "none"
            /\ ~attempts'[Len(attempts) + 1].done
            /\ \A a \in DOMAIN attempts : attempts'[a] = attempts[a]
        BY <4>1, <4>2
      <4>4. ~conn'.open /\ conn'.attempt = Len(attempts) + 1
        BY <4>1
      <4>5. \A a \in DOMAIN attempts : attempts[a].result # "none"
        BY <3>4, <4>3 DEF ConnInv, OneAttempt
      <4>6. OneAttempt'
        BY <4>3, <4>4, <4>5 DEF ConnInv, OneAttempt
      <4>7. CallLinks'
        BY <3>1, <4>1, <4>3 DEF ConnInv, CallLinks
      <4> QED
        BY <4>6, <4>7 DEF ConnInv
    <3> QED
      BY <3>2, <3>3, <3>4
  <2> QED
    BY <1>2, <2>1, <2>2 DEF Ask
<1>3. ASSUME NEW c \in Calls, Told(c) PROVE ConnInv'
  <2>1. /\ \A d \in Calls : d # c => call'[d] = call[d]
        /\ call'[c].pc = "done" \/ (call'[c].pc = "resolve" /\ call'[c].link = "served")
    BY <1>3, ToldFacts
  <2> QED
    BY <1>3, <2>1, LinkKept DEF Told, connVars
<1>4. ASSUME NEW c \in Calls, GiveUp(c) PROVE ConnInv'
  BY <1>4, GiveUpFacts, LinkKept DEF GiveUp, connVars
<1>5. ASSUME NEW c \in Calls, Resolve(c) \/ Report(c) PROVE ConnInv'
  <2>1. call[c].link = "served" /\ UNCHANGED <<conn, attempts>>
    BY <1>5 DEF Resolve, Report, ConnInv, CallLinks, connVars
  <2>2. /\ \A d \in Calls : d # c => call'[d] = call[d]
        /\ call'[c].link = call[c].link /\ call'[c].pc \in Kinds \cup {"done"}
    BY <1>5, RowReadFacts
  <2> QED
    BY <2>1, <2>2, LinkKept DEF Kinds
<1>6. ASSUME NEW c \in Calls, StartRun(c) \/ RunDone(c) PROVE ConnInv'
  <2>1. call[c].link = "served" /\ UNCHANGED <<conn, attempts>>
    BY <1>6 DEF StartRun, RunDone, ConnInv, CallLinks, connVars
  <2>2. /\ \A d \in Calls : d # c => call'[d] = call[d]
        /\ call'[c].link = call[c].link /\ call'[c].pc \in {"wait", "report", "done"}
    BY <1>6, StartRunFacts, RunDoneFacts
  <2> QED
    BY <2>1, <2>2, LinkKept
<1>7. ASSUME NEW c \in Calls, WaitEnds(c) \/ GetResult(c) \/ CancelTask(c) \/ ApproveTask(c)
      PROVE  ConnInv'
  <2>1. UNCHANGED <<conn, attempts>>
    BY <1>7 DEF WaitEnds, GetResult, CancelTask, ApproveTask, connVars
  <2>2. /\ \A d \in Calls : d # c => call'[d] = call[d]
        /\ call'[c].pc = "done"
    BY <1>7, AnswersFacts
  <2> QED
    BY <2>1, <2>2, LinkKept
<1>8. CASE UNCHANGED <<conn, attempts, call>>
  BY <1>8 DEF ConnInv, OneAttempt, CallLinks
<1>9. CASE \/ \E d \in Drivers : DriverStarts(d) \/ DriverWorks(d) \/ DriverRetries(d)
           \/ PersonRuns \/ Recover
           \/ \E r \in DOMAIN runs : Watch(r)
           \/ Disconnect \/ AwaitRuns \/ CloseApp
           \/ UNCHANGED vars
  BY <1>8, <1>9 DEF DriverStarts, DriverWorks, DriverRetries, PersonRuns, Recover, Watch,
     Disconnect, AwaitRuns, CloseApp, connVars, vars
<1> QED
  BY <1>1, <1>2, <1>3, <1>4, <1>5, <1>6, <1>7, <1>9 DEF Next, Connect, Handle

-----------------------------------------------------------------------------
(* What one call may become without a run being launched or ended.           *)
CallFits(c) ==
  /\ call'[c].pc # "done" => call'[c].reply = "none"
  /\ call'[c].pc = "wait" => call'[c].on \in DOMAIN runs
  /\ call'[c].pc = "report" => /\ call'[c].on \in DOMAIN runs
                               /\ runs[call'[c].on].done
                               /\ ~runs[call'[c].on].err
  /\ call'[c].reply \in {"ended", "gated"} => /\ call'[c].on \in DOMAIN runs
                                              /\ driver[call'[c].on] = "exited"
                                              /\ call'[c].read = "ended" \/ gates > 0

(* A step that only moves one call.                                          *)
LEMMA OneCallMoves ==
  ASSUME RunInv, UNCHANGED <<server, entry, runs, driver, status, owner, gates>>,
         NEW c \in Calls, \A d \in Calls : d # c => call'[d] = call[d], CallFits(c)
  PROVE  RunInv'
<1>1. RunsAreLaunched' /\ OthersAreDone' /\ CleanEndings' /\ RowInv'
  BY DEF RunInv, RunsAreLaunched, OthersAreDone, CleanEndings, RowInv
<1>2. ASSUME NEW d \in Calls
      PROVE  CallFits(d)
  BY DEF RunInv, CallRuns, CallFits
<1>3. CallRuns'
  BY <1>2 DEF CallRuns, CallFits
<1> QED
  BY <1>1, <1>3 DEF RunInv

(* A step that changes the row and the drivers: no run is launched or ended, *)
(* no process that exited comes back, a task that has ended stays ended, and *)
(* gates are counted.                                                        *)
LEMMA RowMoves ==
  ASSUME Types, RunInv, UNCHANGED <<server, entry, runs, call>>,
         \A d \in Drivers : driver[d] \in {"exited", "none"} /\ d # 0 => driver'[d] = driver[d],
         gates' \in Nat, gates' >= gates,
         status = "ended" => status' = "ended",
         owner' # Nobody => status' = "active",
         status' = "gated" => gates' > 0
  PROVE  RunInv'
<1>1. runs \in Seq(BackgroundRun) /\ gates \in Nat /\ Len(runs) \in Nat /\ MaxRuns \in Nat
  BY McpServerAssumption DEF Types
<1>2. \A r \in DOMAIN runs : r \in Drivers /\ r # 0 /\ (driver[r] = "exited" => driver'[r] = "exited")
  BY <1>1 DEF RunInv, RunsAreLaunched, Drivers
<1>3. RunsAreLaunched'
  BY <1>1 DEF RunInv, RunsAreLaunched, Drivers
<1>4. OthersAreDone'
  BY <1>2 DEF RunInv, OthersAreDone
<1>5. CleanEndings'
  BY <1>1, <1>2 DEF RunInv, CleanEndings
<1>6. RowInv'
  BY DEF RowInv
<1>7. CallRuns'
  BY <1>1, <1>2 DEF RunInv, CallRuns
<1> QED
  BY <1>3, <1>4, <1>5, <1>6, <1>7 DEF RunInv

(* Every step keeps what the invariant says of the runs.                     *)
LEMMA RunStep ==
  ASSUME Types, RunInv, [Next]_vars
  PROVE  RunInv'
<1>0. /\ runs \in Seq(BackgroundRun) /\ Len(runs) \in Nat /\ MaxRuns \in Nat
      /\ DOMAIN runs = 1..Len(runs) /\ gates \in Nat
  BY McpServerAssumption DEF Types
<1>1. ASSUME NEW c \in Calls, Ask(c) PROVE RunInv'
  <2>1. call[c].reply = "none"
    BY <1>1 DEF Ask, RunInv, CallRuns
  <2>2. /\ \A d \in Calls : d # c => call'[d] = call[d]
        /\ \/ call'[c].pc = "done" /\ call'[c].reply = "error"
           \/ call'[c].pc \in {"resolve", "connecting"} /\ call'[c].reply = call[c].reply
    <3>1. CASE \E kind \in Kinds : Connected(c, kind)
      BY <3>1, ConnectedFacts
    <3>2. CASE Replies(c, "error")
      BY <3>2, RepliesFacts DEF Texts
    <3> QED
      BY <1>1, <3>1, <3>2 DEF Ask
  <2>3. CallFits(c)
    BY <2>1, <2>2 DEF CallFits
  <2> QED
    BY <1>1, <2>2, <2>3, OneCallMoves DEF Ask
<1>2. ASSUME NEW c \in Calls, Told(c) \/ GiveUp(c) PROVE RunInv'
  <2>1. /\ \A d \in Calls : d # c => call'[d] = call[d]
        /\ call'[c].pc \in {"done", "resolve"} /\ call'[c].reply \in {"none", "error", "left"}
        /\ call'[c].pc = "resolve" => call'[c].reply = "none"
    <3>1. CASE GiveUp(c)
      BY <3>1, GiveUpFacts
    <3>2. CASE Told(c)
      BY <3>2, ToldFacts
    <3> QED
      BY <1>2, <3>1, <3>2
  <2>2. CallFits(c)
    BY <2>1 DEF CallFits
  <2> QED
    BY <1>2, <2>1, <2>2, OneCallMoves DEF Told, GiveUp, rowVars
<1>3. ASSUME NEW c \in Calls, Resolve(c) PROVE RunInv'
  <2>1. call[c].reply = "none"
    BY <1>3 DEF Resolve, RunInv, CallRuns
  <2>2. /\ \A d \in Calls : d # c => call'[d] = call[d]
        /\ call'[c].pc \in Kinds /\ call'[c].reply = call[c].reply
    BY <1>3, RowReadFacts
  <2>3. CallFits(c)
    BY <2>1, <2>2 DEF CallFits, Kinds
  <2> QED
    BY <1>3, <2>2, <2>3, OneCallMoves DEF Resolve, rowVars
<1>4. ASSUME NEW c \in Calls, Report(c) PROVE RunInv'
  <2>1. /\ call[c].on \in DOMAIN runs /\ driver[call[c].on] = "exited"
        /\ status = "ended" \/ gates > 0
    BY <1>4 DEF Report, RunInv, CallRuns, CleanEndings
  <2>2. /\ \A d \in Calls : d # c => call'[d] = call[d]
        /\ call'[c].pc = "done" /\ call'[c].on = call[c].on /\ call'[c].read = status
    BY <1>4, RowReadFacts
  <2>3. CallFits(c)
    BY <2>1, <2>2 DEF CallFits
  <2> QED
    BY <1>4, <2>2, <2>3, OneCallMoves DEF Report, rowVars
<1>5. ASSUME NEW c \in Calls, RunDone(c) PROVE RunInv'
  <2>1. call[c].reply = "none" /\ call[c].on \in DOMAIN runs /\ runs[call[c].on].done
    BY <1>5 DEF RunDone, RunInv, CallRuns
  <2>2. /\ \A d \in Calls : d # c => call'[d] = call[d]
        /\ \/ call'[c].pc = "done" /\ call'[c].reply = "error"
           \/ /\ ~runs[call[c].on].err
              /\ call'[c].pc = "report" /\ call'[c].on = call[c].on
              /\ call'[c].reply = call[c].reply
    BY <1>5, RunDoneFacts
  <2>3. CallFits(c)
    BY <2>1, <2>2 DEF CallFits
  <2> QED
    BY <1>5, <2>2, <2>3, OneCallMoves DEF RunDone, rowVars
<1>6. ASSUME NEW c \in Calls, WaitEnds(c) \/ GetResult(c) PROVE RunInv'
  <2>1. /\ \A d \in Calls : d # c => call'[d] = call[d]
        /\ call'[c].pc = "done" /\ call'[c].reply \in {"running", "result", "error"}
    BY <1>6, AnswersFacts
  <2>2. CallFits(c)
    BY <2>1 DEF CallFits
  <2> QED
    BY <1>6, <2>1, <2>2, OneCallMoves DEF WaitEnds, GetResult, rowVars
<1>7. ASSUME NEW c \in Calls, CancelTask(c) \/ ApproveTask(c) PROVE RunInv'
  <2>1. /\ \A d \in Calls : d # c => call'[d] = call[d]
        /\ call'[c].pc = "done" /\ call'[c].reply \in {"running", "result", "error"}
    BY <1>7, AnswersFacts
  <2>2. /\ UNCHANGED <<server, entry, runs, driver, gates>>
        /\ status = "ended" => status' = "ended"
        /\ owner' # Nobody => status' = "active"
        /\ status' = "gated" => gates > 0
    BY <1>7 DEF CancelTask, ApproveTask, RunInv, RowInv
  <2>3. RunsAreLaunched' /\ OthersAreDone'
    BY <2>2 DEF RunInv, RunsAreLaunched, OthersAreDone
  <2>4. CleanEndings' /\ RowInv'
    BY <2>2 DEF RunInv, CleanEndings, RowInv
  <2>5. ASSUME NEW d \in Calls PROVE CallFits(d)
    <3>1. CASE d = c
      BY <2>1, <3>1 DEF CallFits
    <3>2. CASE d # c
      BY <2>1, <3>2 DEF CallFits, RunInv, CallRuns
    <3> QED
      BY <3>1, <3>2
  <2>6. CallRuns'
    BY <2>2, <2>5 DEF CallRuns, CallFits
  <2> QED
    BY <2>3, <2>4, <2>6 DEF RunInv
<1>8. ASSUME NEW d \in Drivers, DriverStarts(d) \/ DriverWorks(d) \/ DriverRetries(d)
      PROVE  RunInv'
  <2>1. \A e \in Drivers : driver[e] \in {"exited", "none"} => driver'[e] = driver[e]
    BY <1>8 DEF DriverStarts, DriverWorks, DriverRetries, Exits, Types
  <2>2. /\ UNCHANGED <<server, entry, runs, call>>
        /\ gates' \in Nat /\ gates' >= gates
        /\ status = "ended" => status' = "ended"
        /\ owner' # Nobody => status' = "active"
        /\ status' = "gated" => gates' > 0
    <3>1. owner = Nobody \/ status = "active"
      BY DEF RunInv, RowInv
    <3>2. status = "gated" => gates > 0
      BY DEF RunInv, RowInv
    <3>3. CASE DriverStarts(d)
      BY <1>0, <3>1, <3>2, <3>3 DEF DriverStarts, rowVars, Occupied
    <3>4. CASE DriverWorks(d)
      BY <1>0, <3>1, <3>2, <3>4 DEF DriverWorks, Nobody, Drivers
    <3>5. CASE DriverRetries(d)
      BY <1>0, <3>1, <3>2, <3>5 DEF DriverRetries
    <3> QED
      BY <1>8, <3>3, <3>4, <3>5
  <2> QED
    BY <2>1, <2>2, RowMoves
<1>9. CASE PersonRuns
  <2>1. \A e \in Drivers : e # 0 => driver'[e] = driver[e]
    BY <1>9 DEF PersonRuns, Types
  <2> QED
    BY <1>0, <1>9, <2>1, RowMoves DEF PersonRuns, rowVars, RunInv, RowInv
<1>10. CASE Recover
  BY <1>0, <1>10, RowMoves DEF Recover, RunInv, RowInv
<1>11. ASSUME NEW r \in DOMAIN runs, Watch(r) PROVE RunInv'
  <2>1. /\ Len(runs') = Len(runs) /\ DOMAIN runs' = DOMAIN runs
        /\ \A s \in DOMAIN runs : s # r => runs'[s] = runs[s]
        /\ runs'[r].done
        /\ server = "up" => driver[r] = "exited"
        /\ ~runs'[r].err => driver[r] = "exited" /\ status \in {"ended", "gated"}
    BY <1>11, WatchFacts
  <2>2. UNCHANGED <<server, call, entry, driver, status, owner, gates>> /\ ~runs[r].done
    BY <1>11 DEF Watch, rowVars
  <2>3. RunsAreLaunched' /\ RowInv'
    BY <2>1, <2>2 DEF RunInv, RunsAreLaunched, RowInv
  <2>4. OthersAreDone'
    BY <2>1, <2>2 DEF RunInv, OthersAreDone
  <2>5. CleanEndings'
    BY <2>1, <2>2 DEF RunInv, CleanEndings, RowInv
  <2>6. CallRuns'
    BY <2>1, <2>2 DEF RunInv, CallRuns
  <2> QED
    BY <2>3, <2>4, <2>5, <2>6 DEF RunInv
<1>12. CASE Disconnect \/ AwaitRuns \/ CloseApp
  <2>1. UNCHANGED <<call, entry, runs, driver, status, owner, gates>> /\ server' # "up"
    BY <1>12 DEF Disconnect, AwaitRuns, CloseApp, rowVars
  <2> QED
    BY <2>1 DEF RunInv, RunsAreLaunched, OthersAreDone, CleanEndings, RowInv, CallRuns
<1>13. CASE UNCHANGED <<server, call, entry, runs, driver, status, owner, gates>>
  BY <1>13 DEF RunInv, RunsAreLaunched, OthersAreDone, CleanEndings, RowInv, CallRuns
<1>14. CASE UNCHANGED vars \/ Connect
  BY <1>13, <1>14 DEF vars, Connect, LazyGet, LazyOpen, Publish, CloseDone, rowVars
<1>15. ASSUME NEW c \in Calls, StartRun(c) PROVE RunInv'
  <2>1. /\ UNCHANGED <<server, status, owner, gates>>
        /\ call[c].reply = "none" /\ call[c].pc = "run"
    BY <1>15 DEF StartRun, rowVars, RunInv, CallRuns
  <2>2. \A d \in Calls : d # c => call'[d] = call[d]
    BY <1>15, StartRunFacts
  <2>3. CASE /\ Joins(c) /\ call'[c].pc = "wait" /\ call'[c].on = entry
             /\ call'[c].reply = call[c].reply
             /\ UNCHANGED <<entry, runs, driver>>
    <3>1. entry \in DOMAIN runs
      BY <1>0, <2>3 DEF Joins, RunInv, RunsAreLaunched
    <3>2. CallFits(c)
      BY <2>1, <2>3, <3>1 DEF CallFits
    <3> QED
      BY <2>1, <2>2, <2>3, <3>2, OneCallMoves
  <2>4. server = "up" /\ ~Joins(c) => \A r \in DOMAIN runs : runs[r].done
    BY <1>0 DEF Joins, RunInv, RunsAreLaunched, OthersAreDone
  <2>5. CASE /\ ~Joins(c) /\ call'[c].pc = "done" /\ call'[c].reply = "error"
             /\ entry' = 0 /\ UNCHANGED <<runs, driver>>
    <3>1. RunsAreLaunched' /\ CleanEndings' /\ RowInv'
      BY <1>0, <2>1, <2>5 DEF RunInv, RunsAreLaunched, CleanEndings, RowInv
    <3>2. OthersAreDone'
      BY <2>1, <2>4, <2>5 DEF RunInv, OthersAreDone
    <3>3. CallRuns'
      BY <2>1, <2>2, <2>5 DEF RunInv, CallRuns
    <3> QED
      BY <3>1, <3>2, <3>3 DEF RunInv
  <2>6. CASE /\ ~Joins(c) /\ Len(runs) < MaxRuns
             /\ runs' = Append(runs, [done |-> FALSE, err |-> FALSE])
             /\ driver' = [driver EXCEPT ![Len(runs) + 1] = "spawned"]
             /\ entry' = Len(runs) + 1
             /\ call'[c].pc = "wait" /\ call'[c].on = Len(runs) + 1
             /\ call'[c].reply = call[c].reply
    <3>1. /\ Len(runs') = Len(runs) + 1 /\ DOMAIN runs' = 1..(Len(runs) + 1)
          /\ \A r \in DOMAIN runs : runs'[r] = runs[r]
          /\ runs'[Len(runs) + 1] = [done |-> FALSE, err |-> FALSE]
      BY <1>0, <2>6
    <3>2. ~runs'[Len(runs) + 1].done
      BY <3>1
    <3>3. \A d \in Drivers : d # Len(runs) + 1 => driver'[d] = driver[d]
      BY <2>6 DEF Types
    <3>4. \A r \in DOMAIN runs : r \in Drivers /\ driver'[r] = driver[r]
      BY <1>0, <2>6, <3>3 DEF Drivers
    <3>5. RunsAreLaunched'
      BY <1>0, <2>6, <3>1, <3>3 DEF RunInv, RunsAreLaunched, Drivers
    <3>6. OthersAreDone'
      BY <1>0, <2>1, <2>4, <2>6, <3>1, <3>2, <3>4 DEF RunInv, OthersAreDone
    <3>7. CleanEndings' /\ RowInv'
      BY <1>0, <2>1, <3>1, <3>2, <3>4 DEF RunInv, CleanEndings, RowInv
    <3>8. CallRuns'
      BY <1>0, <2>1, <2>2, <2>6, <3>1, <3>4, SMTT(30) DEF RunInv, CallRuns
    <3> QED
      BY <3>5, <3>6, <3>7, <3>8 DEF RunInv
  <2> QED
    BY <1>15, <2>3, <2>5, <2>6, StartRunFacts
<1> QED
  BY <1>1, <1>2, <1>3, <1>4, <1>5, <1>6, <1>7, <1>8, <1>9, <1>10, <1>11, <1>12, <1>14, <1>15
  DEF Next, Handle

(* Nothing is opened once the server has stopped, and it does not stop while *)
(* something is being opened.                                                *)
LEMMA PoolStep ==
  ASSUME Types, PoolClosed, [Next]_vars
  PROVE  PoolClosed'
<1>1. CASE UNCHANGED <<app, server>>
  BY <1>1 DEF PoolClosed
<1>2. CASE \E a \in DOMAIN attempts : LazyGet(a) \/ LazyOpen(a)
  BY <1>2 DEF LazyGet, LazyOpen, Running, PoolClosed
<1>3. CASE Disconnect \/ AwaitRuns
  BY <1>3 DEF Disconnect, AwaitRuns, PoolClosed
<1>4. CASE CloseApp
  BY <1>4 DEF CloseApp, NoAttempt, PoolClosed, Types
<1> QED
  BY <1>1, <1>2, <1>3, <1>4 DEF Next, Connect, Handle, Publish, CloseDone, Ask, Told, GiveUp,
     Resolve, StartRun, RunDone, WaitEnds, Report, GetResult, CancelTask, ApproveTask,
     DriverStarts, DriverWorks, DriverRetries, PersonRuns, Recover, Watch, vars, connVars

(* The invariant holds in every state of the server.                         *)
LEMMA InvProved == Spec => []IInv
<1>1. IInv /\ [Next]_vars => IInv'
  BY TypesStep, ConnStep, RunStep, PoolStep DEF IInv
<1> QED
  BY <1>1, InitInv, PTL DEF Spec

-----------------------------------------------------------------------------
(* What the inductive invariant gives.                                       *)

(* However many calls ask for a run, and whatever status they read before:   *)
(* while the server is up, at most one of its processes runs the task.       *)
THEOREM OneDriverProved == Spec => []OneDriver
<1>1. IInv => OneDriver
  <2> SUFFICES ASSUME IInv, server = "up"
               PROVE  Cardinality({d \in 1..MaxRuns : driver[d] \in {"spawned", "owner", "again"}}) <= 1
    BY DEF OneDriver
  <2> DEFINE live == {d \in 1..MaxRuns : driver[d] \in {"spawned", "owner", "again"}}
  <2>1. runs \in Seq(BackgroundRun) /\ DOMAIN runs = 1..Len(runs) /\ Len(runs) \in Nat
    BY DEF IInv, Types
  <2>2. live \subseteq {entry}
    BY <2>1 DEF IInv, RunInv, RunsAreLaunched, OthersAreDone
  <2>3. IsFiniteSet({entry}) /\ Cardinality({entry}) = 1
    BY FS_Singleton
  <2>4. Cardinality(live) <= Cardinality({entry})
    BY <2>2, <2>3, FS_Subset
  <2> QED
    BY <2>3, <2>4
<1> QED
  BY <1>1, InvProved, PTL

(* A call that is told its run has ended, or waits at the gate, is told the  *)
(* truth, for every order of the watcher, the wait and the reading of the    *)
(* row.                                                                      *)
THEOREM EndedProved == Spec => []EndedIsTrue
<1>1. IInv => EndedIsTrue
  BY DEF IInv, RunInv, CallRuns, EndedIsTrue
<1> QED
  BY <1>1, InvProved, PTL

(* A server that has stopped has left no connection pool open.               *)
THEOREM PoolClosedProved == Spec => []PoolClosed
<1>1. IInv => PoolClosed
  BY DEF IInv
<1> QED
  BY <1>1, InvProved, PTL

-----------------------------------------------------------------------------
(* The refinement of SharedConnection, without its fairness.                 *)

LinkNow == CASE server = "stopped" -> "shut"
             [] server # "stopped" /\ conn.open -> "open"
             [] server # "stopped" /\ ~conn.open /\ conn.attempt # 0 -> "opening"
             [] OTHER -> "none"

AskNow == [c \in Calls |-> Answer(c)]

(* The abstract connection, by cases that exclude each other.                *)
LEMMA LinkIs ==
  LinkNow = IF server = "stopped" THEN "shut"
            ELSE IF conn.open THEN "open"
            ELSE IF conn.attempt # 0 THEN "opening" ELSE "none"
BY DEF LinkNow

(* What a call knows, by cases that exclude each other.                      *)
LEMMA AnswerIs ==
  ASSUME Types, ConnInv, NEW c \in Calls
  PROVE  /\ call[c].pc # "connecting" => Answer(c) = call[c].link
         /\ call[c].pc = "connecting" =>
              Answer(c) = IF attempts[call[c].on].result = "ok" THEN "served"
                          ELSE IF attempts[call[c].on].result = "failed" THEN "failed"
                          ELSE IF server = "stopped" THEN "left" ELSE "waiting"
<1>1. call[c] \in ToolCall /\ attempts \in Seq(Attempt)
  BY DEF Types
<1>2. CASE call[c].pc # "connecting"
  BY <1>1, <1>2 DEF Answer, ToolCall
<1>3. CASE call[c].pc = "connecting"
  <2>1. call[c].on \in DOMAIN attempts
    BY <1>3 DEF ConnInv, CallLinks
  <2>2. attempts[call[c].on].result \in {"none", "ok", "failed"}
    <3>1. attempts[call[c].on] \in Attempt
      BY <1>1, <2>1
    <3> QED
      BY <3>1 DEF Attempt
  <2>3. CASE attempts[call[c].on].result = "none"
    BY <1>3, <2>3 DEF Answer
  <2>4. CASE attempts[call[c].on].result = "ok"
    BY <1>3, <2>4 DEF Answer
  <2>5. CASE attempts[call[c].on].result = "failed"
    BY <1>3, <2>5 DEF Answer
  <2> QED
    BY <1>3, <2>2, <2>3, <2>4, <2>5
<1> QED
  BY <1>2, <1>3

AnswerFits ==
  \A c \in Calls :
    /\ call[c].pc # "connecting" => Answer(c) = call[c].link
    /\ call[c].pc = "connecting" =>
         Answer(c) = IF attempts[call[c].on].result = "ok" THEN "served"
                     ELSE IF attempts[call[c].on].result = "failed" THEN "failed"
                     ELSE IF server = "stopped" THEN "left" ELSE "waiting"

(* The same after a step.                                                    *)
LEMMA AnswerFitsAfter == Types' /\ ConnInv' => AnswerFits'
<1>1. Types /\ ConnInv => AnswerFits
  BY AnswerIs DEF AnswerFits
<1> QED
  BY <1>1, PTL

(* The initial states agree.                                                 *)
LEMMA SharedInit == Init => Shared!Init
<1> SUFFICES ASSUME Init PROVE Shared!Init
  OBVIOUS
<1>1. Types /\ ConnInv
  BY InitInv DEF IInv
<1>2. LinkNow = "none"
  BY LinkIs DEF Init
<1>3. \A c \in Calls : Answer(c) = "idle"
  BY <1>1, AnswerIs DEF Init, NewCall
<1>4. AskNow = [c \in Calls |-> "idle"]
  BY <1>3 DEF AskNow
<1> QED
  BY <1>2, <1>4 DEF Shared!Init, LinkNow, AskNow

(* A step that keeps the connection and what every call knows.               *)
LEMMA SharedStutters ==
  ASSUME LinkNow' = LinkNow, \A c \in Calls : Answer(c)' = Answer(c)
  PROVE  UNCHANGED Shared!vars
<1>1. AskNow' = AskNow
  BY DEF AskNow
<1> QED
  BY <1>1 DEF Shared!vars, LinkNow, AskNow

(* A step that changes what one call knows: it asks, or it leaves.           *)
LEMMA SharedAsks ==
  ASSUME NEW c \in Calls, \A d \in Calls : d # c => Answer(d)' = Answer(d),
         \/ /\ Answer(c) = "idle"
            /\ \/ LinkNow = "open" /\ Answer(c)' = "served" /\ LinkNow' = LinkNow
               \/ /\ LinkNow \in {"none", "opening"}
                  /\ Answer(c)' = "waiting" /\ LinkNow' = "opening"
         \/ /\ Answer(c) \in {"waiting", "served", "failed"}
            /\ Answer(c)' = "left" /\ LinkNow' = LinkNow
  PROVE  Shared!Next
<1>1. ASSUME NEW answer, Answer(c)' = answer PROVE AskNow' = [AskNow EXCEPT ![c] = answer]
  BY <1>1 DEF AskNow
<1>2. AskNow[c] = Answer(c)
  BY DEF AskNow
<1>3. CASE /\ Answer(c) = "idle"
           /\ \/ LinkNow = "open" /\ Answer(c)' = "served" /\ LinkNow' = LinkNow
              \/ /\ LinkNow \in {"none", "opening"}
                 /\ Answer(c)' = "waiting" /\ LinkNow' = "opening"
  <2>1. Shared!Ask(c)
    BY <1>1, <1>2, <1>3 DEF Shared!Ask, LinkNow, AskNow
  <2> QED
    BY <2>1 DEF Shared!Next
<1>4. CASE /\ Answer(c) \in {"waiting", "served", "failed"}
           /\ Answer(c)' = "left" /\ LinkNow' = LinkNow
  <2>1. Shared!Leave(c)
    BY <1>1, <1>2, <1>4 DEF Shared!Leave, LinkNow, AskNow
  <2> QED
    BY <2>1 DEF Shared!Next
<1> QED
  BY <1>3, <1>4

(* A step that tells everyone who waits.                                     *)
LEMMA SharedTells ==
  ASSUME NEW answer,
         \A c \in Calls : Answer(c)' = IF Answer(c) = "waiting" THEN answer ELSE Answer(c),
         \/ LinkNow = "opening" /\ LinkNow' = "open" /\ answer = "served"
         \/ LinkNow = "opening" /\ LinkNow' = "none" /\ answer = "failed"
         \/ LinkNow # "shut" /\ LinkNow' = "shut" /\ answer = "left"
  PROVE  Shared!Next
<1>1. AskNow' = [c \in Calls |-> IF AskNow[c] = "waiting" THEN answer ELSE AskNow[c]]
  BY DEF AskNow
<1> QED
  BY <1>1 DEF Shared!Next, Shared!Opened, Shared!Failed, Shared!Shut, Shared!Told, LinkNow, AskNow

(* Every step of the server is a step of the shared connection, or changes   *)
(* nothing of it.                                                            *)
LEMMA SharedStep ==
  ASSUME Types, ConnInv, Types', ConnInv', [Next]_vars
  PROVE  [Shared!Next]_(Shared!vars)
<1> DEFINE Seen(c) == /\ call[c].pc # "connecting" => Answer(c) = call[c].link
                      /\ call[c].pc = "connecting" =>
                           Answer(c) = IF attempts[call[c].on].result = "ok" THEN "served"
                                       ELSE IF attempts[call[c].on].result = "failed" THEN "failed"
                                       ELSE IF server = "stopped" THEN "left" ELSE "waiting"
<1>1. \A c \in Calls : Seen(c)
  BY AnswerIs
<1>2. \A c \in Calls :
        /\ call'[c].pc # "connecting" => Answer(c)' = call'[c].link
        /\ call'[c].pc = "connecting" =>
             Answer(c)' = IF attempts'[call'[c].on].result = "ok" THEN "served"
                          ELSE IF attempts'[call'[c].on].result = "failed" THEN "failed"
                          ELSE IF server' = "stopped" THEN "left" ELSE "waiting"
  BY AnswerFitsAfter DEF AnswerFits
<1>3. LinkNow' = IF server' = "stopped" THEN "shut"
                 ELSE IF conn'.open THEN "open"
                 ELSE IF conn'.attempt # 0 THEN "opening" ELSE "none"
  BY DEF LinkNow
<1>4. \A c \in Calls : call[c].pc = "connecting" => call[c].on \in DOMAIN attempts
  BY DEF ConnInv, CallLinks
<1>5. \A a \in DOMAIN attempts : attempts[a].result \in {"none", "ok", "failed"}
  <2>1. \A a \in DOMAIN attempts : attempts[a] \in Attempt
    BY DEF Types
  <2> QED
    BY <2>1 DEF Attempt
<1>6. \A c \in Calls : call[c].link # "waiting"
  BY DEF Types, ToolCall
\* Steps that move one call which has its connection.
<1>7. ASSUME NEW c \in Calls, \A d \in Calls : d # c => call'[d] = call[d],
             UNCHANGED <<conn, attempts, server>>
      PROVE  /\ LinkNow' = LinkNow
             /\ \A d \in Calls : d # c => Answer(d)' = Answer(d)
  BY <1>1, <1>2, <1>3, <1>7, LinkIs
<1>8. ASSUME NEW c \in Calls, \A d \in Calls : d # c => call'[d] = call[d],
             UNCHANGED <<conn, attempts, server>>,
             Answer(c)' = Answer(c)
      PROVE  UNCHANGED Shared!vars
  BY <1>7, <1>8, SharedStutters
<1>9. ASSUME NEW a \in DOMAIN attempts, LazyGet(a) \/ LazyOpen(a) \/ CloseDone(a)
      PROVE  UNCHANGED Shared!vars
  <2>1. /\ \A b \in DOMAIN attempts : b # a => attempts'[b] = attempts[b]
        /\ attempts'[a].result = attempts[a].result
    BY <1>9, AttemptFacts
  <2>2. UNCHANGED <<conn, server, call>>
    BY <1>9 DEF LazyGet, LazyOpen, CloseDone
  <2>3. \A c \in Calls : Answer(c)' = Answer(c)
    BY <1>1, <1>2, <1>4, <2>1, <2>2
  <2>4. LinkNow' = LinkNow
    BY <1>3, <2>2, LinkIs
  <2> QED
    BY <2>3, <2>4, SharedStutters
<1>10. ASSUME NEW a \in DOMAIN attempts, Publish(a)
       PROVE  Shared!Next
  <2>1. /\ \A b \in DOMAIN attempts : b # a => attempts'[b] = attempts[b]
        /\ attempts'[a].result = attempts[a].state
    BY <1>10, AttemptFacts
  <2>2. UNCHANGED <<server, call>> /\ server # "stopped"
    BY <1>10 DEF Publish, Running
  <2>3. /\ conn.attempt = a /\ ~conn.open /\ a # 0
        /\ \A b \in DOMAIN attempts : attempts[b].result = "none" => b = a
        /\ attempts[a].result = "none" /\ attempts[a].state \in {"ok", "failed"}
    BY <1>10 DEF Publish, ConnInv, OneAttempt, Types
  <2>4. LinkNow = "opening"
    BY <2>2, <2>3, LinkIs
  <2>5. conn'.attempt = 0 /\ (conn'.open <=> attempts[a].state = "ok")
    BY <1>10 DEF Publish, Settle
  <2>6. CASE attempts[a].state = "ok"
    <3>1. \A c \in Calls : Answer(c)' = IF Answer(c) = "waiting" THEN "served" ELSE Answer(c)
      BY <1>1, <1>2, <1>4, <1>5, <1>6, <2>1, <2>2, <2>3, <2>6
    <3>2. LinkNow' = "open"
      BY <1>3, <2>2, <2>5, <2>6
    <3> QED
      BY <2>4, <3>1, <3>2, SharedTells
  <2>7. CASE attempts[a].state = "failed"
    <3>1. \A c \in Calls : Answer(c)' = IF Answer(c) = "waiting" THEN "failed" ELSE Answer(c)
      BY <1>1, <1>2, <1>4, <1>5, <1>6, <2>1, <2>2, <2>3, <2>7
    <3>2. LinkNow' = "none"
      BY <1>3, <2>2, <2>5, <2>7
    <3> QED
      BY <2>4, <3>1, <3>2, SharedTells
  <2> QED
    BY <2>3, <2>6, <2>7
<1>11. ASSUME NEW c \in Calls, Ask(c)
       PROVE  [Shared!Next]_(Shared!vars)
  <2>1. /\ server # "stopped" /\ UNCHANGED server
        /\ call[c].pc = "idle" /\ call[c].link = "idle" /\ Answer(c) = "idle"
    BY <1>1, <1>11 DEF Ask, ConnInv, CallLinks
  <2>2. CASE Replies(c, "error") /\ UNCHANGED <<conn, attempts>>
    <3>1. /\ call'[c].pc = "done" /\ call'[c].link = call[c].link
          /\ \A d \in Calls : d # c => call'[d] = call[d]
      BY <2>2, RepliesFacts DEF Texts
    <3>2. Answer(c)' = Answer(c)
      BY <1>2, <2>1, <3>1
    <3> QED
      BY <1>8, <2>1, <2>2, <3>1, <3>2
  <2>3. CASE \E kind \in Kinds : Connected(c, kind)
    <3>1. \A d \in Calls : d # c => call'[d] = call[d]
      BY <2>3, ConnectedFacts
    <3>2. CASE conn.open
      <4>1. call'[c].pc = "resolve" /\ call'[c].link = "served" /\ UNCHANGED <<conn, attempts>>
        BY <2>3, <3>2, ConnectedFacts
      <4>2. Answer(c)' = "served" /\ LinkNow = "open"
        BY <1>2, <2>1, <3>2, <4>1, LinkIs
      <4>3. LinkNow' = LinkNow /\ \A d \in Calls : d # c => Answer(d)' = Answer(d)
        BY <1>7, <2>1, <3>1, <4>1
      <4> QED
        BY <2>1, <4>2, <4>3, SharedAsks
    <3>3. CASE ~conn.open /\ conn.attempt # 0
      <4>1. /\ call'[c].pc = "connecting" /\ call'[c].on = conn.attempt
            /\ UNCHANGED <<conn, attempts>>
        BY <2>3, <3>3, ConnectedFacts
      <4>2. attempts[conn.attempt].result = "none"
        BY <3>3 DEF ConnInv, OneAttempt
      <4>3. Answer(c)' = "waiting" /\ LinkNow = "opening"
        BY <1>2, <2>1, <3>3, <4>1, <4>2, LinkIs
      <4>4. LinkNow' = LinkNow /\ \A d \in Calls : d # c => Answer(d)' = Answer(d)
        BY <1>7, <2>1, <3>1, <4>1
      <4> QED
        BY <2>1, <4>3, <4>4, SharedAsks
    <3>4. CASE ~conn.open /\ conn.attempt = 0
      <4>1. /\ call'[c].pc = "connecting" /\ call'[c].on = Len(attempts) + 1
            /\ conn' = [open |-> FALSE, attempt |-> Len(attempts) + 1]
            /\ attempts' = Append(attempts, [state |-> "asked", result |-> "none",
                                             done |-> FALSE])
        BY <2>3, <3>4, ConnectedFacts
      <4>2. attempts \in Seq(Attempt) /\ Len(attempts) \in Nat
        BY DEF Types
      <4>3. /\ attempts'[Len(attempts) + 1].result = "none"
            /\ \A a \in DOMAIN attempts : attempts'[a] = attempts[a]
        BY <4>1, <4>2
      <4>4. ~conn'.open /\ conn'.attempt # 0
        BY <4>1, <4>2
      <4>5. LinkNow = "none" /\ LinkNow' = "opening"
        BY <1>3, <2>1, <3>4, <4>4, LinkIs
      <4>6. Answer(c)' = "waiting"
        BY <1>2, <2>1, <4>1, <4>3
      <4>7. \A d \in Calls : d # c => Answer(d)' = Answer(d)
        BY <1>1, <1>2, <1>4, <2>1, <3>1, <4>3
      <4> QED
        BY <2>1, <4>5, <4>6, <4>7, SharedAsks
    <3> QED
      BY <3>2, <3>3, <3>4
  <2> QED
    BY <1>11, <2>2, <2>3 DEF Ask
<1>12. ASSUME NEW c \in Calls, Told(c) PROVE UNCHANGED Shared!vars
  <2>1. /\ \A d \in Calls : d # c => call'[d] = call[d]
        /\ call'[c].pc = IF attempts[call[c].on].result = "ok" THEN "resolve" ELSE "done"
        /\ call'[c].link = IF attempts[call[c].on].result = "ok" THEN "served" ELSE "failed"
    BY <1>12, ToldFacts
  <2>2. call[c].pc = "connecting" /\ attempts[call[c].on].done /\ UNCHANGED <<conn, attempts, server>>
    BY <1>12 DEF Told, connVars
  <2>3. attempts[call[c].on].result \in {"ok", "failed"}
    BY <1>4, <1>5, <2>2 DEF ConnInv, OneAttempt
  <2>4. Answer(c)' = Answer(c)
    BY <1>1, <1>2, <2>1, <2>2, <2>3
  <2> QED
    BY <1>8, <2>1, <2>2, <2>4
<1>13. ASSUME NEW c \in Calls, GiveUp(c) PROVE [Shared!Next]_(Shared!vars)
  <2>1. /\ \A d \in Calls : d # c => call'[d] = call[d]
        /\ call'[c].pc = "done"
        /\ call'[c].link = IF call[c].pc = "connecting" THEN "left" ELSE "served"
    BY <1>13, GiveUpFacts
  <2>2. /\ call[c].pc \in {"connecting", "wait"} /\ UNCHANGED <<conn, attempts, server>>
        /\ server # "stopped"
    BY <1>13 DEF GiveUp, connVars, Running
  <2>3. CASE call[c].pc = "connecting"
    <3>1. Answer(c) \in {"waiting", "served", "failed"} /\ Answer(c)' = "left"
      BY <1>1, <1>2, <2>1, <2>2, <2>3
    <3>2. LinkNow' = LinkNow /\ \A d \in Calls : d # c => Answer(d)' = Answer(d)
      BY <1>7, <2>1, <2>2
    <3> QED
      BY <3>1, <3>2, SharedAsks
  <2>4. CASE call[c].pc = "wait"
    <3>1. Answer(c)' = Answer(c)
      BY <1>1, <1>2, <2>1, <2>4 DEF ConnInv, CallLinks
    <3> QED
      BY <1>8, <2>1, <2>2, <3>1
  <2> QED
    BY <2>2, <2>3, <2>4
<1>14. ASSUME NEW c \in Calls,
              \/ Resolve(c) \/ Report(c) \/ StartRun(c) \/ RunDone(c)
              \/ WaitEnds(c) \/ GetResult(c) \/ CancelTask(c) \/ ApproveTask(c)
       PROVE  UNCHANGED Shared!vars
  <2>1. /\ \A d \in Calls : d # c => call'[d] = call[d]
        /\ call'[c].link = call[c].link
        /\ call'[c].pc # "connecting"
    <3>1. CASE Resolve(c) \/ Report(c)
      <4>1. call'[c].pc \in Kinds \cup {"done"}
        BY <3>1, RowReadFacts
      <4> QED
        BY <3>1, <4>1, RowReadFacts DEF Kinds
    <3>2. CASE StartRun(c)
      BY <3>2, StartRunFacts
    <3>3. CASE RunDone(c)
      BY <3>3, RunDoneFacts
    <3>4. CASE WaitEnds(c) \/ GetResult(c) \/ CancelTask(c) \/ ApproveTask(c)
      BY <3>4, AnswersFacts
    <3> QED
      BY <1>14, <3>1, <3>2, <3>3, <3>4
  <2>2. call[c].pc # "connecting" /\ UNCHANGED <<conn, attempts, server>>
    BY <1>14 DEF Resolve, Report, StartRun, RunDone, WaitEnds, GetResult, CancelTask,
       ApproveTask, connVars
  <2>3. Answer(c)' = Answer(c)
    BY <1>1, <1>2, <2>1, <2>2
  <2> QED
    BY <1>8, <2>1, <2>2, <2>3
<1>15. CASE CloseApp
  <2>1. UNCHANGED <<conn, attempts, call>> /\ server = "closing" /\ server' = "stopped"
    BY <1>15 DEF CloseApp
  <2>2. LinkNow # "shut" /\ LinkNow' = "shut"
    BY <1>3, <2>1, LinkIs
  <2>3. \A c \in Calls : Answer(c)' = IF Answer(c) = "waiting" THEN "left" ELSE Answer(c)
    BY <1>1, <1>2, <1>6, <2>1
  <2> QED
    BY <2>2, <2>3, SharedTells
<1>16. ASSUME UNCHANGED <<conn, attempts, call>>, server' = "stopped" <=> server = "stopped"
       PROVE  UNCHANGED Shared!vars
  <2>1. LinkNow' = LinkNow
    BY <1>3, <1>16, LinkIs
  <2>2. \A c \in Calls : Answer(c)' = Answer(c)
    BY <1>1, <1>2, <1>16
  <2> QED
    BY <2>1, <2>2, SharedStutters
<1>17. CASE \/ \E d \in Drivers : DriverStarts(d) \/ DriverWorks(d) \/ DriverRetries(d)
            \/ PersonRuns \/ Recover
            \/ \E r \in DOMAIN runs : Watch(r)
            \/ Disconnect \/ AwaitRuns
            \/ UNCHANGED vars
  BY <1>16, <1>17 DEF DriverStarts, DriverWorks, DriverRetries, PersonRuns, Recover, Watch,
     Disconnect, AwaitRuns, connVars, vars
<1> QED
  BY <1>9, <1>10, <1>11, <1>12, <1>13, <1>14, <1>15, <1>17 DEF Next, Connect, Handle

(* Server.connected over lazyApp does nothing that the shared connection     *)
(* does not allow, for any number of calls and attempts: one attempt at a    *)
(* time, its result for everyone who waited for it, a success for good, a    *)
(* failure for nobody after it.                                              *)
THEOREM ConnectionSafety == Spec => Shared!Init /\ [][Shared!Next]_(Shared!vars)
<1>1. IInv /\ IInv' /\ [Next]_vars => [Shared!Next]_(Shared!vars)
  BY SharedStep DEF IInv
<1> QED
  BY <1>1, SharedInit, InvProved, PTL DEF Spec

=============================================================================
