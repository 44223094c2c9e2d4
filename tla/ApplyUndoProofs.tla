-------------------------- MODULE ApplyUndoProofs --------------------------
(***************************************************************************)
(* Proofs about ApplyUndo, for any number of callers, branches, calls and  *)
(* broken calls.                                                           *)
(*                                                                         *)
(* The history alternates as long as it fits the page that applyState      *)
(* reads, for any number of tasks and whatever the person checks out       *)
(* meanwhile.  That it tells the truth about the branches needs more: that *)
(* nobody else writes to the checkout while a call runs, which the row     *)
(* lock gives for the calls of one task only.                              *)
(***************************************************************************)
EXTENDS ApplyUndo, SequenceTheorems, TLAPS

-----------------------------------------------------------------------------
(*                         The inductive invariant                         *)

Ids == (Branches \cup {"none"}) \X Nat

RecordRow ==
  [type : {"none", "applied", "undone"}, into : Branches \cup {"none"}, commit : Ids,
   reapplied : BOOLEAN, undid : Ids]

CallRow ==
  [pc : {"idle", "resolve", "git", "head", "record", "refused", "failed", "conflict",
         "nothing", "done", "broken"},
   op : {"apply", "undo"}, task : Tasks \cup {NoTask}, into : Branches \cup {"none"},
   record : RecordRow, before : Ids, commit : Ids]

LogRow == [kind : {"merge", "revert"}, task : Tasks, adds : BOOLEAN]

Types ==
  /\ checkout \in Branches
  /\ log \in [Branches -> Seq(LogRow)]
  /\ events \in [Tasks -> Seq(RecordRow)]
  /\ holder \in [Tasks -> Callers \cup {Nobody}]
  /\ call \in [Callers -> CallRow]
  /\ calls \in Nat /\ breaks \in Nat

(* A commit that there is, or the beginning of a branch. *)
IsCommit(id) == id \in Branches \X Nat /\ id[2] <= Len(log[id[1]])

(* A record that was read, or none. *)
IsRecord(e) == e = NoRecord \/ (e.type # "none" /\ e.into \in Branches /\ IsCommit(e.commit))

EventInv == \A t \in Tasks : \A i \in DOMAIN events[t] :
  events[t][i].type # "none" /\ events[t][i].into \in Branches /\ IsCommit(events[t][i].commit)

(* The page holds all of a task's history. *)
Fits(t) == Len(events[t]) <= EventLimit - PriorEvents

(* A running call holds its task, and knows how its history ends. *)
FlightInv(c) ==
  InFlight(c) =>
    /\ call[c].task \in Tasks /\ holder[call[c].task] = c
    /\ call[c].into \in Branches
    /\ IsRecord(call[c].record)
    /\ Fits(call[c].task) => call[c].record = LastRecord(events[call[c].task])
    /\ ~Refuses(call[c].op, call[c].into, call[c].record)
    /\ call[c].pc = "record" => IsCommit(call[c].commit)

(* HistoryAlternates, of one task. *)
Alternates(t) ==
  \A i \in DOMAIN events[t] :
    IF i % 2 = 1 THEN events[t][i].type = "applied"
    ELSE events[t][i].type = "undone" /\ events[t][i].undid = events[t][i - 1].commit

(* Only a call that went ahead can leave a record. *)
CountInv ==
  /\ calls <= MaxCalls
  /\ \A t \in Tasks : Len(events[t]) <= calls /\ (holder[t] # Nobody => Len(events[t]) < calls)

IInv ==
  /\ Types
  /\ EventInv
  /\ \A c \in Callers : FlightInv(c)
  /\ \A t \in Tasks : Fits(t) => Alternates(t)
  /\ CountInv

-----------------------------------------------------------------------------
(*     The invariant of one task, whose calls have the checkout to         *)
(*     themselves                                                          *)

Alone == (\A t, u \in Tasks : t = u) /\ ~SwitchesMidway

(* RecordNamesOwnCommit, of one record. *)
NamesOwn(t, e) ==
  /\ e.commit[1] = e.into
  /\ e.commit[2] \in DOMAIN log[e.into]
  /\ log[e.into][e.commit[2]].task = t
  /\ log[e.into][e.commit[2]].adds = (e.type = "applied")

(* The last commit of a branch is of this kind. *)
EndsWith(b, adds) == log[b] # <<>> /\ log[b][Len(log[b])].adds = adds

(* What git did for a call that is past it. *)
Made(c) ==
  /\ call[c].pc \in {"head", "record"}
  /\ call[c].op = "undo" \/ call[c].before # HeadOf(call[c].into)

GitInv(c) ==
  InFlight(c) =>
    /\ call[c].into = checkout
    /\ call[c].record = NoRecord \/ NamesOwn(call[c].task, call[c].record)
    /\ call[c].pc = "git" /\ call[c].op = "apply" => call[c].before = HeadOf(call[c].into)
    /\ call[c].pc \in {"head", "record"} /\ call[c].op = "apply" =>
         /\ call[c].before[1] = call[c].into /\ call[c].before[2] <= Len(log[call[c].into])
    /\ Made(c) => EndsWith(call[c].into, call[c].op = "apply")
    /\ call[c].pc = "record" => call[c].commit = HeadOf(call[c].into)

Matches(t) ==
  \A b \in Branches : Effective(b, t) <=> /\ LastRecord(events[t]).type = "applied"
                                          /\ LastRecord(events[t]).into = b

(* What the branches hold between two records. *)
BranchInv ==
  breaks = 0 =>
    /\ (\A c \in Callers : ~Made(c)) => \A t \in Tasks : Fits(t) => Matches(t)
    /\ \A c \in Callers : Made(c) /\ Fits(call[c].task) =>
         \A b \in Branches :
           Effective(b, call[c].task) <=> call[c].op = "apply" /\ b = call[c].into

AInv ==
  /\ RecordNamesOwnCommit
  /\ \A c \in Callers : GitInv(c)
  /\ BranchInv

-----------------------------------------------------------------------------
(*                                 Lemmas                                  *)

(* A sequence that has grown by one. *)
LEMMA Appended ==
  ASSUME NEW S, NEW seq \in Seq(S), NEW row \in S, NEW longer, longer = Append(seq, row)
  PROVE  /\ longer \in Seq(S) /\ Len(seq) \in Nat
         /\ Len(longer) = Len(seq) + 1
         /\ DOMAIN seq = 1..Len(seq) /\ DOMAIN longer = 1..(Len(seq) + 1)
         /\ \A i \in 1..Len(seq) : longer[i] = seq[i]
         /\ longer[Len(seq) + 1] = row
<1>1. /\ Append(seq, row) \in Seq(S)
      /\ Len(Append(seq, row)) = Len(seq) + 1
      /\ \A i \in 1..Len(seq) : Append(seq, row)[i] = seq[i]
      /\ Append(seq, row)[Len(seq) + 1] = row
  BY AppendProperties
<1>2. longer \in Seq(S) /\ Len(longer) = Len(seq) + 1
  BY <1>1, Zenon
<1>3. Len(seq) \in Nat /\ DOMAIN seq = 1..Len(seq) /\ DOMAIN longer = 1..(Len(seq) + 1)
  BY <1>2
<1> QED
  BY <1>1, <1>2, <1>3, Zenon

(* Branches only grow, whoever commits. *)
LogGrows ==
  /\ log' \in [Branches -> Seq(LogRow)]
  /\ \A b \in Branches :
       /\ Len(log[b]) <= Len(log'[b])
       /\ \A i \in 1..Len(log[b]) : log'[b][i] = log[b][i]

(* The constant records. *)
LEMMA Constants ==
  NoRecord \in RecordRow /\ NoRecord.type = "none" /\ NewCall \in CallRow
  BY DEF NoRecord, NewCall, RecordRow, CallRow, NoCommit, Ids

(* The head of a branch is a commit of it. *)
LEMMA HeadIsCommit ==
  ASSUME Types, NEW b \in Branches
  PROVE  /\ IsCommit(HeadOf(b)) /\ HeadOf(b) \in Ids /\ HeadOf(b) = <<b, Len(log[b])>>
         /\ Len(log[b]) \in Nat
  BY DEF Types, IsCommit, HeadOf, Ids

(* A commit stays. *)
LEMMA CommitStays ==
  ASSUME Types, LogGrows, NEW id, IsCommit(id)
  PROVE  IsCommit(id)'
<1>1. id[1] \in Branches /\ id[2] \in Nat
  BY DEF IsCommit
<1>2. log[id[1]] \in Seq(LogRow) /\ log'[id[1]] \in Seq(LogRow)
  BY <1>1 DEF Types, LogGrows
<1>3. Len(log[id[1]]) \in Nat /\ Len(log'[id[1]]) \in Nat
  BY <1>2
<1>4. id[2] <= Len(log'[id[1]])
  BY <1>1, <1>3 DEF IsCommit, LogGrows
<1> QED
  BY <1>4 DEF IsCommit

(* So does a record. *)
LEMMA RecordStays ==
  ASSUME Types, LogGrows, NEW e, IsRecord(e)
  PROVE  IsRecord(e)'
  BY CommitStays DEF IsRecord

(* The last record of a history. *)
LEMMA LastIsRecord ==
  ASSUME Types, EventInv, NEW t \in Tasks
  PROVE  /\ LastRecord(events[t]) \in RecordRow /\ IsRecord(LastRecord(events[t]))
         /\ ApplyState(t) \in RecordRow /\ IsRecord(ApplyState(t))
         /\ Fits(t) => ApplyState(t) = LastRecord(events[t])
<1>1. events[t] \in Seq(RecordRow) /\ Len(events[t]) \in Nat
      /\ DOMAIN events[t] = 1..Len(events[t])
  BY DEF Types
<1>2. \A i \in 1..Len(events[t]) : events[t][i] \in RecordRow /\ IsRecord(events[t][i])
  BY <1>1 DEF EventInv, IsRecord
<1>3. LastRecord(events[t]) \in RecordRow /\ IsRecord(LastRecord(events[t]))
  <2>1. CASE events[t] = <<>>
    BY <2>1, Constants DEF LastRecord, IsRecord
  <2>2. CASE events[t] # <<>>
    <3>1. Len(events[t]) \in 1..Len(events[t])
      BY <1>1, <2>2
    <3> QED
      BY <1>2, <2>2, <3>1 DEF LastRecord
  <2> QED
    BY <2>1, <2>2
<1>4. CASE Fits(t)
  BY <1>3, <1>4 DEF Fits, ApplyState, Visible
<1>5. CASE ~Fits(t)
  <2> DEFINE room == EventLimit - PriorEvents
             page == SubSeq(events[t], 1, room)
  <2>1. room \in Int /\ room < Len(events[t]) /\ Visible(t) = page
    BY <1>1, <1>5, LimitAssumption DEF Fits, Visible
  <2>2. CASE room < 1
    <3>1. page = <<>>
      BY <1>1, <2>1, <2>2
    <3> QED
      BY <1>3, <1>5, <2>1, <3>1, Constants DEF ApplyState, LastRecord, IsRecord
  <2>3. CASE room >= 1
    <3>1. page \in Seq(RecordRow) /\ Len(page) = room /\ page[room] = events[t][room]
      BY <1>1, <2>1, <2>3
    <3>2. page # <<>> /\ room \in 1..Len(events[t])
      BY <1>1, <2>1, <2>3, <3>1
    <3> QED
      BY <1>2, <1>3, <1>5, <2>1, <3>1, <3>2 DEF ApplyState, LastRecord
  <2> QED
    BY <2>1, <2>2, <2>3
<1> QED
  BY <1>3, <1>4, <1>5

-----------------------------------------------------------------------------
(*                          The history alternates                         *)

(* What a call knows outlives the steps of others: they need its lock to   *)
(* touch its history.                                                      *)
LEMMA FlightStays ==
  ASSUME IInv, LogGrows, NEW d \in Callers, call'[d] = call[d],
         InFlight(d) => /\ holder'[call[d].task] = d
                        /\ events'[call[d].task] = events[call[d].task]
  PROVE  FlightInv(d)'
<1>1. Types /\ FlightInv(d)
  BY DEF IInv
<1>2. CASE ~InFlight(d)
  BY <1>2 DEF FlightInv, InFlight
<1>3. CASE InFlight(d)
  <2>1. IsRecord(call[d].record)'
    BY <1>1, <1>3, RecordStays DEF FlightInv
  <2>2. (call[d].pc = "record" => IsCommit(call[d].commit))'
    BY <1>1, <1>3, CommitStays DEF FlightInv
  <2> QED
    BY <1>1, <1>3, <2>1, <2>2 DEF FlightInv, Fits, LastRecord, Refuses
<1> QED
  BY <1>2, <1>3

(* The recorded events stay. *)
LEMMA EventsStay ==
  ASSUME Types, EventInv, LogGrows, events' = events
  PROVE  EventInv'
  BY CommitStays DEF EventInv

(* A step of a running call that leaves history and locks alone. *)
LEMMA MovesOn ==
  ASSUME IInv, NEW c \in Callers, NEW row \in CallRow, call' = [call EXCEPT ![c] = row],
         InFlight(c), row.pc \in {"git", "head", "record"},
         row.op = call[c].op, row.task = call[c].task, row.into = call[c].into,
         row.record = call[c].record, row.pc = "record" => IsCommit(row.commit)',
         LogGrows, UNCHANGED <<checkout, events, holder, calls, breaks>>
  PROVE  IInv'
<1>1. Types /\ FlightInv(c) /\ call \in [Callers -> CallRow]
  BY DEF IInv, Types
<1>2. call'[c] = row /\ call' \in [Callers -> CallRow]
  BY <1>1
<1>3. Types'
  BY <1>1, <1>2 DEF Types, LogGrows
<1>4. EventInv'
  BY <1>1, EventsStay DEF IInv
<1>5. FlightInv(c)'
  <2>1. IsRecord(row.record)'
    BY <1>1, RecordStays DEF FlightInv
  <2> QED
    BY <1>1, <1>2, <2>1 DEF FlightInv, Fits, LastRecord, Refuses
<1>6. ASSUME NEW d \in Callers, d # c PROVE FlightInv(d)'
  <2>1. call'[d] = call[d]
    BY <1>1, <1>6
  <2>2. InFlight(d) => holder[call[d].task] = d
    BY DEF IInv, FlightInv
  <2> QED
    BY <2>1, <2>2, FlightStays
<1>7. CountInv' /\ \A t \in Tasks : (Fits(t) => Alternates(t))'
  BY DEF IInv, CountInv, Fits, Alternates
<1> QED
  BY <1>3, <1>4, <1>5, <1>6, <1>7 DEF IInv

(* A call that ends without a record gives its lock back. *)
LEMMA EndsUnrecorded ==
  ASSUME IInv, NEW c \in Callers, NEW how \in {"failed", "conflict", "nothing", "broken"},
         InFlight(c), Finish(c, how), breaks' \in Nat,
         UNCHANGED <<checkout, log, events, calls>>
  PROVE  IInv'
<1> DEFINE row == [call[c] EXCEPT !.pc = how]
<1>1. /\ Types /\ call \in [Callers -> CallRow] /\ call[c] \in CallRow
      /\ call[c].task \in Tasks /\ holder[call[c].task] = c
      /\ holder \in [Tasks -> Callers \cup {Nobody}]
  BY DEF IInv, Types, FlightInv
<1>2. row \in CallRow /\ row.pc = how /\ call' = [call EXCEPT ![c] = row]
  BY <1>1 DEF CallRow, Finish
<1> HIDE DEF row
<1>3. holder' = [holder EXCEPT ![call[c].task] = Nobody]
  BY DEF Finish
<1>4. Types' /\ LogGrows
  <2>1. \A b \in Branches : log[b] \in Seq(LogRow) /\ Len(log[b]) \in Nat
    BY <1>1 DEF Types
  <2> QED
    BY <1>1, <1>2, <1>3, <2>1 DEF Types, LogGrows
<1>5. EventInv'
  BY <1>1, <1>4, EventsStay DEF IInv
<1>6. FlightInv(c)'
  BY <1>1, <1>2 DEF FlightInv, InFlight
<1>7. ASSUME NEW d \in Callers, d # c PROVE FlightInv(d)'
  <2>1. call'[d] = call[d]
    BY <1>1, <1>2, <1>7
  <2>2. InFlight(d) => holder[call[d].task] = d /\ call[d].task \in Tasks
    BY DEF IInv, FlightInv
  <2>3. InFlight(d) => holder'[call[d].task] = d
    BY <1>1, <1>3, <1>7, <2>2
  <2> QED
    BY <1>4, <2>1, <2>3, FlightStays
<1>8. CountInv'
  <2>1. ASSUME NEW t \in Tasks
        PROVE  Len(events'[t]) <= calls' /\ (holder'[t] # Nobody => Len(events'[t]) < calls')
    <3>1. holder'[t] = holder[t] \/ holder'[t] = Nobody
      BY <1>1, <1>3
    <3> QED
      BY <3>1 DEF IInv, CountInv
  <2> QED
    BY <2>1 DEF IInv, CountInv
<1>9. \A t \in Tasks : (Fits(t) => Alternates(t))'
  BY DEF IInv, Fits, Alternates
<1> QED
  BY <1>4, <1>5, <1>6, <1>7, <1>8, <1>9 DEF IInv

(* prepareApply: whoever gets the lock reads the history as it is. *)
LEMMA PrepareStep ==
  ASSUME IInv, NEW c \in Callers, NEW t \in Tasks, NEW op \in {"apply", "undo"},
         PrepareApply(c, t, op)
  PROVE  IInv' /\ LogGrows
<1> DEFINE record == ApplyState(t)
           ahead == [NewCall EXCEPT !.pc = IF op = "apply" THEN "resolve" ELSE "git",
                                    !.op = op, !.task = t, !.into = checkout, !.record = record]
           refused == [NewCall EXCEPT !.pc = "refused"]
<1>1. /\ Types /\ EventInv /\ call \in [Callers -> CallRow] /\ checkout \in Branches
      /\ holder \in [Tasks -> Callers \cup {Nobody}]
      /\ ~InFlight(c) /\ holder[t] = Nobody
      /\ UNCHANGED <<checkout, log, events, breaks>>
  BY DEF IInv, Types, PrepareApply, LockTask
<1>2. record \in RecordRow /\ IsRecord(record) /\ (Fits(t) => record = LastRecord(events[t]))
  BY <1>1, LastIsRecord
<1>3. \/ /\ calls < MaxCalls /\ ~Refuses(op, checkout, record)
         /\ call' = [call EXCEPT ![c] = ahead] /\ holder' = [holder EXCEPT ![t] = c]
         /\ calls' = calls + 1
      \/ call' = [call EXCEPT ![c] = refused] /\ holder' = holder /\ calls' = calls
  BY DEF PrepareApply
<1> HIDE DEF record
<1>4. /\ ahead \in CallRow /\ ahead.pc \in {"resolve", "git"} /\ ahead.op = op
      /\ ahead.task = t /\ ahead.into = checkout /\ ahead.record = record
      /\ refused \in CallRow /\ refused.pc = "refused"
  BY <1>1, <1>2, Constants DEF NewCall, CallRow
<1> HIDE DEF ahead, refused
<1>5. LogGrows
  BY <1>1 DEF Types, LogGrows
<1>6. Types'
  <2>1. call' \in [Callers -> CallRow]
    BY <1>1, <1>3, <1>4
  <2>2. holder' \in [Tasks -> Callers \cup {Nobody}]
    BY <1>1, <1>3
  <2>3. calls' \in Nat
    BY <1>1, <1>3 DEF Types
  <2> QED
    BY <1>1, <2>1, <2>2, <2>3 DEF Types
<1>7. EventInv'
  BY <1>1, <1>5, EventsStay
<1>8. FlightInv(c)'
  <2>1. CASE call' = [call EXCEPT ![c] = refused]
    BY <1>1, <1>4, <2>1 DEF FlightInv, InFlight
  <2>2. CASE /\ ~Refuses(op, checkout, record)
             /\ call' = [call EXCEPT ![c] = ahead] /\ holder' = [holder EXCEPT ![t] = c]
    <3>1. call'[c] = ahead /\ holder'[t] = c
      BY <1>1, <2>2
    <3>3. ~Refuses(call'[c].op, call'[c].into, call'[c].record)
      BY <1>4, <2>2, <3>1
    <3>4. IsRecord(call[c].record)'
      BY <1>1, <1>2, <1>4, <3>1 DEF IsRecord, IsCommit
    <3>5. (Fits(call[c].task) => call[c].record = LastRecord(events[call[c].task]))'
      BY <1>1, <1>2, <1>4, <3>1 DEF Fits, LastRecord
    <3> QED
      BY <1>1, <1>4, <3>1, <3>3, <3>4, <3>5 DEF FlightInv, Refuses
  <2> QED
    BY <1>3, <2>1, <2>2
<1>9. ASSUME NEW d \in Callers, d # c PROVE FlightInv(d)'
  <2>1. call'[d] = call[d]
    BY <1>1, <1>3, <1>9
  <2>2. InFlight(d) => holder[call[d].task] = d /\ call[d].task \in Tasks
    BY DEF IInv, FlightInv
  <2>3. InFlight(d) => holder'[call[d].task] = d
    BY <1>1, <1>3, <2>2, CallerAssumption
  <2> QED
    BY <1>1, <1>5, <2>1, <2>3, FlightStays
<1>10. CountInv'
  <2>0. MaxCalls \in Nat /\ calls \in Nat /\ calls <= MaxCalls
    BY <1>1, EnvironmentAssumption DEF IInv, CountInv, Types
  <2>1. ASSUME NEW u \in Tasks
        PROVE  Len(events'[u]) <= calls' /\ (holder'[u] # Nobody => Len(events'[u]) < calls')
    <3>1. /\ Len(events[u]) <= calls /\ (holder[u] # Nobody => Len(events[u]) < calls)
          /\ Len(events[u]) \in Nat
      BY <1>1 DEF IInv, CountInv, Types
    <3>2. CASE holder' = holder /\ calls' = calls
      BY <1>1, <3>1, <3>2
    <3>3. CASE holder' = [holder EXCEPT ![t] = c] /\ calls' = calls + 1
      BY <1>1, <2>0, <3>1, <3>3
    <3> QED
      BY <1>3, <3>2, <3>3
  <2>2. calls' <= MaxCalls
    BY <1>3, <2>0
  <2> QED
    BY <2>1, <2>2 DEF CountInv
<1>11. \A u \in Tasks : (Fits(u) => Alternates(u))'
  BY <1>1 DEF IInv, Fits, Alternates
<1> QED
  BY <1>5, <1>6, <1>7, <1>8, <1>9, <1>10, <1>11 DEF IInv

(* The commit that git makes. *)
LEMMA CommitGrows ==
  ASSUME IInv, NEW kind \in {"merge", "revert"}, NEW t \in Tasks, NEW adds \in BOOLEAN,
         Commits(kind, t, adds)
  PROVE  /\ LogGrows
         /\ Len(log[checkout]) \in Nat /\ Len(log'[checkout]) = Len(log[checkout]) + 1
         /\ log'[checkout][Len(log[checkout]) + 1] = [kind |-> kind, task |-> t, adds |-> adds]
         /\ \A b \in Branches : b # checkout => log'[b] = log[b]
<1> DEFINE row == [kind |-> kind, task |-> t, adds |-> adds]
<1>1. log \in [Branches -> Seq(LogRow)] /\ checkout \in Branches /\ row \in LogRow
  BY DEF IInv, Types, LogRow
<1>2. log' = [log EXCEPT ![checkout] = Append(log[checkout], row)]
  BY DEF Commits
<1> HIDE DEF row
<1>3. /\ log'[checkout] = Append(log[checkout], row)
      /\ \A b \in Branches : b # checkout => log'[b] = log[b]
      /\ log[checkout] \in Seq(LogRow)
  BY <1>1, <1>2
<1>4. /\ log'[checkout] \in Seq(LogRow) /\ Len(log[checkout]) \in Nat
      /\ Len(log'[checkout]) = Len(log[checkout]) + 1
      /\ \A i \in 1..Len(log[checkout]) : log'[checkout][i] = log[checkout][i]
      /\ log'[checkout][Len(log[checkout]) + 1] = row
  BY <1>1, <1>3, Appended
<1>5. log' \in [Branches -> Seq(LogRow)]
  <2>1. \A b \in Branches : log'[b] \in Seq(LogRow)
    BY <1>1, <1>3, <1>4
  <2> QED
    BY <1>1, <1>2, <2>1
<1>6. ASSUME NEW b \in Branches
      PROVE  Len(log[b]) <= Len(log'[b]) /\ \A i \in 1..Len(log[b]) : log'[b][i] = log[b][i]
  <2>1. CASE b = checkout
    BY <1>4, <2>1
  <2>2. CASE b # checkout
    <3>1. log'[b] = log[b] /\ Len(log[b]) \in Nat
      BY <1>1, <1>3, <2>2
    <3> QED
      BY <3>1
  <2> QED
    BY <2>1, <2>2
<1> QED
  BY <1>3, <1>4, <1>5, <1>6 DEF LogGrows, row

(* A record that a call is to revert names a commit of some task. *)
LEMMA TargetIsCommit ==
  ASSUME IInv, NEW c \in Callers, InFlight(c), Reapplies(c) \/ call[c].op = "undo",
         call[c].record.commit[2] # 0
  PROVE  LET id == call[c].record.commit
         IN /\ id[1] \in Branches /\ id[2] \in 1..Len(log[id[1]])
            /\ log[id[1]][id[2]] \in LogRow
<1>1. IsCommit(call[c].record.commit)
  BY Constants DEF IInv, FlightInv, IsRecord, Refuses, Reapplies
<1> QED
  BY <1>1 DEF IInv, Types, IsCommit

(* What git did: nothing, a commit, or a failure that leaves no trace. *)
LEMMA GitFacts ==
  ASSUME IInv, NEW c \in Callers, RunGit(c)
  PROVE  /\ InFlight(c) /\ call[c].pc = "git"
         /\ UNCHANGED <<checkout, events, calls, breaks>>
         /\ \/ /\ ~Reapplies(c) /\ call[c].op = "apply" /\ log' = log /\ holder' = holder
               /\ call' = [call EXCEPT ![c].pc = "head"]
            \/ /\ ~Reapplies(c) /\ call[c].op = "apply" /\ holder' = holder
               /\ Commits("merge", call[c].task, TRUE)
               /\ call' = [call EXCEPT ![c].pc = "head"]
            \/ /\ Reapplies(c) \/ call[c].op = "undo"
               /\ holder' = holder /\ call[c].record.commit[2] # 0
               /\ LET id == call[c].record.commit
                  IN Commits("revert", log[id[1]][id[2]].task, ~log[id[1]][id[2]].adds)
               /\ call' = [call EXCEPT ![c].pc = "head"]
            \/ \E how \in {"failed", "conflict"} : Finish(c, how) /\ log' = log
<1>1. InFlight(c) /\ call[c].pc = "git" /\ UNCHANGED <<checkout, events, calls, breaks>>
  BY DEF RunGit, InFlight
<1>2. CASE ~Reapplies(c) /\ call[c].op = "apply" /\ MergeNoFF(c)
  BY <1>1, <1>2 DEF MergeNoFF
<1>3. CASE (Reapplies(c) \/ call[c].op = "undo") /\ Revert(c, call[c].record.commit)
  BY <1>1, <1>3 DEF Revert
<1>4. CASE Finish(c, "conflict") /\ log' = log
  BY <1>1, <1>4
<1> QED
  BY <1>2, <1>3, <1>4 DEF RunGit

(* The row of a call that goes on. *)
LEMMA HeadRow ==
  ASSUME IInv, NEW c \in Callers, NEW to \in {"git", "head", "record"},
         call' = [call EXCEPT ![c].pc = to]
  PROVE  \E row \in CallRow :
           /\ row.pc = to /\ row.op = call[c].op /\ row.task = call[c].task
           /\ row.into = call[c].into /\ row.record = call[c].record
           /\ row.before = call[c].before /\ row.commit = call[c].commit
           /\ call' = [call EXCEPT ![c] = row]
<1>1. call[c] \in CallRow
  BY DEF IInv, Types
<1> DEFINE row == [call[c] EXCEPT !.pc = to]
<1>2. /\ row \in CallRow
      /\ row.pc = to /\ row.op = call[c].op /\ row.task = call[c].task
      /\ row.into = call[c].into /\ row.record = call[c].record
      /\ row.before = call[c].before /\ row.commit = call[c].commit
      /\ call' = [call EXCEPT ![c] = row]
  BY <1>1 DEF CallRow
<1> HIDE DEF row
<1> QED
  BY <1>2

(* ResolveCommit, the git command and headOf. *)
LEMMA WorkStep ==
  ASSUME IInv, NEW c \in Callers, ResolveCommit(c) \/ RunGit(c) \/ ReadHead(c)
  PROVE  IInv' /\ LogGrows
<1>1. /\ Types /\ call[c] \in CallRow /\ checkout \in Branches /\ FlightInv(c)
      /\ (log' = log => LogGrows)
  <2>1. \A b \in Branches : Len(log[b]) \in Nat
    BY DEF IInv, Types
  <2> QED
    BY <2>1 DEF IInv, Types, LogGrows
<1>2. CASE ResolveCommit(c)
  <2> DEFINE row == [call[c] EXCEPT !.pc = "git", !.before = HeadOf(checkout)]
  <2>1. /\ row \in CallRow /\ row.pc = "git" /\ row.op = call[c].op /\ row.task = call[c].task
        /\ row.into = call[c].into /\ row.record = call[c].record
    BY <1>1, HeadIsCommit DEF CallRow
  <2>2. /\ InFlight(c) /\ call' = [call EXCEPT ![c] = row] /\ log' = log
        /\ UNCHANGED <<checkout, events, holder, calls, breaks>>
    BY <1>2 DEF ResolveCommit, InFlight
  <2> HIDE DEF row
  <2> QED
    BY <1>1, <2>1, <2>2, MovesOn
<1>3. CASE ReadHead(c)
  <2> DEFINE row == [call[c] EXCEPT !.pc = "record", !.commit = HeadOf(checkout)]
  <2>1. /\ row \in CallRow /\ row.pc = "record" /\ row.op = call[c].op /\ row.task = call[c].task
        /\ row.into = call[c].into /\ row.record = call[c].record
        /\ row.commit = HeadOf(checkout)
    BY <1>1, HeadIsCommit DEF CallRow
  <2>2. /\ InFlight(c) /\ call' = [call EXCEPT ![c] = row] /\ log' = log
        /\ UNCHANGED <<checkout, events, holder, calls, breaks>>
    BY <1>3 DEF ReadHead, InFlight
  <2> HIDE DEF row
  <2>3. \A id : id = HeadOf(checkout) => IsCommit(id)'
    BY <1>1, <2>2, HeadIsCommit DEF IsCommit
  <2>4. PICK r \in CallRow : r = row
    BY <2>1
  <2>5. IsCommit(r.commit)'
    BY <2>1, <2>3, <2>4
  <2> QED
    BY <1>1, <2>1, <2>2, <2>4, <2>5, MovesOn
<1>4. CASE RunGit(c)
  <2>1. /\ InFlight(c) /\ UNCHANGED <<checkout, events, calls, breaks>>
        /\ call[c].task \in Tasks
    BY <1>1, <1>4, GitFacts DEF FlightInv
  <2>2. ASSUME LogGrows, holder' = holder, call' = [call EXCEPT ![c].pc = "head"] PROVE IInv'
    <3>1. PICK row \in CallRow :
            /\ row.pc = "head" /\ row.op = call[c].op /\ row.task = call[c].task
            /\ row.into = call[c].into /\ row.record = call[c].record
            /\ call' = [call EXCEPT ![c] = row]
      BY <2>2, HeadRow
    <3> QED
      BY <2>1, <2>2, <3>1, MovesOn
  <2>3. CASE /\ log' = log /\ holder' = holder /\ call' = [call EXCEPT ![c].pc = "head"]
    BY <1>1, <2>2, <2>3
  <2>4. CASE /\ Commits("merge", call[c].task, TRUE) /\ holder' = holder
             /\ call' = [call EXCEPT ![c].pc = "head"]
    BY <2>1, <2>2, <2>4, CommitGrows
  <2>5. CASE /\ Reapplies(c) \/ call[c].op = "undo"
             /\ holder' = holder /\ call[c].record.commit[2] # 0
             /\ LET id == call[c].record.commit
                IN Commits("revert", log[id[1]][id[2]].task, ~log[id[1]][id[2]].adds)
             /\ call' = [call EXCEPT ![c].pc = "head"]
    <3> DEFINE id == call[c].record.commit
               target == log[id[1]][id[2]]
    <3>1. target \in LogRow
      BY <2>1, <2>5, TargetIsCommit
    <3>2. Commits("revert", target.task, ~target.adds)
      BY <2>5
    <3> HIDE DEF target
    <3>3. target.task \in Tasks /\ (~target.adds) \in BOOLEAN
      BY <3>1 DEF LogRow
    <3>4. LogGrows
      BY <3>2, <3>3, CommitGrows
    <3> QED
      BY <2>2, <2>5, <3>4
  <2>6. CASE \E how \in {"failed", "conflict"} : Finish(c, how) /\ log' = log
    BY <1>1, <2>1, <2>6, EndsUnrecorded DEF Types
  <2> QED
    BY <1>4, <2>3, <2>4, <2>5, <2>6, GitFacts
<1> QED
  BY <1>2, <1>3, <1>4

(* What the event says. *)
LEMMA EntryRow ==
  ASSUME IInv, NEW c \in Callers, call[c].pc = "record"
  PROVE  /\ Entry(c) \in RecordRow /\ Entry(c).type # "none" /\ Entry(c).into = call[c].into
         /\ Entry(c).commit = call[c].commit
         /\ call[c].op = "apply" => Entry(c).type = "applied"
         /\ call[c].op = "undo" =>
              Entry(c).type = "undone" /\ Entry(c).undid = call[c].record.commit
<1>1. call[c] \in CallRow
  BY DEF IInv, Types
<1>2. Reapplies(c) \in BOOLEAN
  BY DEF Reapplies
<1>3. call[c].record \in RecordRow /\ call[c].commit \in Ids /\ call[c].record.commit \in Ids
      /\ call[c].op \in {"apply", "undo"} /\ call[c].into \in Branches \cup {"none"}
      /\ NoCommit \in Ids
  BY <1>1 DEF CallRow, RecordRow, NoCommit, Ids
<1> QED
  BY <1>2, <1>3 DEF Entry, RecordRow

(* Odd and even follow each other. *)
LEMMA Parity ==
  /\ 1 % 2 = 1
  /\ \A k \in Nat : (k + 1) % 2 = 1 <=> k % 2 # 1
  OBVIOUS

(* The event that the holder of the lock appends goes on where the history *)
(* it has read ends.                                                       *)
LEMMA RecordStep ==
  ASSUME IInv, NEW c \in Callers, Record(c)
  PROVE  IInv' /\ LogGrows
<1>0. call[c].task \in Tasks
  BY DEF IInv, FlightInv, Record, InFlight
<1> PICK t \in Tasks : t = call[c].task
  BY <1>0
<1> DEFINE h == events[t]
           e == Entry(c)
           n == Len(h)
<1>1. /\ Types /\ FlightInv(c) /\ InFlight(c) /\ call[c].pc = "record"
      /\ call \in [Callers -> CallRow] /\ call[c] \in CallRow
      /\ t \in Tasks /\ holder[t] = c /\ holder \in [Tasks -> Callers \cup {Nobody}]
      /\ events \in [Tasks -> Seq(RecordRow)]
      /\ h \in Seq(RecordRow) /\ n \in Nat /\ DOMAIN h = 1..n
      /\ IsCommit(call[c].commit) /\ call[c].into \in Branches
      /\ UNCHANGED <<checkout, log, calls, breaks>>
  BY DEF IInv, Types, FlightInv, Record, InFlight
<1>2. LogGrows
  <2>1. \A b \in Branches : Len(log[b]) \in Nat
    BY <1>1 DEF Types
  <2> QED
    BY <1>1, <2>1 DEF Types, LogGrows
<1>3. CASE Finish(c, "nothing") /\ events' = events
  BY <1>1, <1>2, <1>3, EndsUnrecorded DEF Types
<1>4. CASE /\ events' = [events EXCEPT ![t] = Append(h, e)]
           /\ Finish(c, "done")
  <2> DEFINE row == [call[c] EXCEPT !.pc = "done"]
             H == Append(h, e)
  <2>1. /\ e \in RecordRow /\ e.type # "none" /\ e.into = call[c].into
        /\ e.commit = call[c].commit
        /\ call[c].op = "apply" => e.type = "applied"
        /\ call[c].op = "undo" => e.type = "undone" /\ e.undid = call[c].record.commit
    BY <1>1, EntryRow
  <2>2. row \in CallRow /\ row.pc = "done" /\ call' = [call EXCEPT ![c] = row]
        /\ holder' = [holder EXCEPT ![t] = Nobody]
    BY <1>1, <1>4 DEF Finish, CallRow
  <2> HIDE DEF e, row
  <2>3. /\ H \in Seq(RecordRow) /\ Len(H) = n + 1 /\ DOMAIN H = 1..(n + 1)
        /\ \A i \in 1..n : H[i] = h[i]
        /\ H[n + 1] = e
    BY <1>1, <2>1, Appended
  <2>4. /\ events' = [events EXCEPT ![t] = H]
    BY <1>4
  <2> HIDE DEF H
  <2>5. /\ events'[t] = H /\ \A u \in Tasks : u # t => events'[u] = events[u]
        /\ holder'[t] = Nobody /\ \A u \in Tasks : u # t => holder'[u] = holder[u]
        /\ call'[c] = row /\ \A d \in Callers : d # c => call'[d] = call[d]
    BY <1>1, <2>2, <2>4
  <2>6. Types'
    BY <1>1, <2>2, <2>3, <2>4 DEF Types
  <2>7. EventInv'
    <3>1. ASSUME NEW u \in Tasks, u # t, NEW i \in DOMAIN events[u]
          PROVE  (/\ events[u][i].type # "none" /\ events[u][i].into \in Branches
                  /\ IsCommit(events[u][i].commit))'
      BY <1>1, <2>5, <3>1 DEF IInv, EventInv, IsCommit
    <3>2. ASSUME NEW i \in 1..(n + 1)
          PROVE  /\ H[i].type # "none" /\ H[i].into \in Branches /\ IsCommit(H[i].commit)
      <4>1. CASE i \in 1..n
        BY <1>1, <2>3, <4>1 DEF IInv, EventInv
      <4>2. CASE i = n + 1
        BY <1>1, <2>1, <2>3, <4>2
      <4> QED
        BY <1>1, <4>1, <4>2
    <3> QED
      BY <1>1, <2>3, <2>5, <3>1, <3>2 DEF EventInv, IsCommit
  <2>8. FlightInv(c)'
    BY <2>2, <2>5 DEF FlightInv, InFlight
  <2>9. ASSUME NEW d \in Callers, d # c PROVE FlightInv(d)'
    <3>1. InFlight(d) => holder[call[d].task] = d /\ call[d].task \in Tasks
      BY DEF IInv, FlightInv
    <3>2. InFlight(d) => call[d].task # t
      BY <1>1, <2>9, <3>1
    <3> QED
      BY <1>2, <2>5, <2>9, <3>1, <3>2, FlightStays
  <2>10. CountInv'
    <3>1. n < calls /\ calls \in Nat
      BY <1>1, CallerAssumption DEF IInv, CountInv, Types
    <3>2. ASSUME NEW u \in Tasks
          PROVE  Len(events'[u]) <= calls' /\ (holder'[u] # Nobody => Len(events'[u]) < calls')
      <4>1. CASE u = t
        BY <1>1, <2>3, <2>5, <3>1, <4>1
      <4>2. CASE u # t
        BY <1>1, <2>5, <4>2 DEF IInv, CountInv
      <4> QED
        BY <4>1, <4>2
    <3> QED
      BY <1>1, <3>2 DEF IInv, CountInv
  <2>11. ASSUME NEW u \in Tasks, u # t PROVE (Fits(u) => Alternates(u))'
    BY <2>5, <2>11 DEF IInv, Fits, Alternates
  <2>12. ASSUME Len(H) <= EventLimit - PriorEvents, NEW i \in 1..(n + 1)
         PROVE  IF i % 2 = 1 THEN H[i].type = "applied"
                ELSE H[i].type = "undone" /\ H[i].undid = H[i - 1].commit
    <3>1. Fits(t)
      BY <1>1, <2>3, <2>12, LimitAssumption DEF Fits
    <3>2. /\ Alternates(t) /\ call[c].record = LastRecord(h)
          /\ ~Refuses(call[c].op, call[c].into, call[c].record)
      BY <1>1, <3>1 DEF IInv, FlightInv
    <3>3. CASE i \in 1..n
      <4>1. IF i % 2 = 1 THEN h[i].type = "applied"
            ELSE h[i].type = "undone" /\ h[i].undid = h[i - 1].commit
        BY <1>1, <3>2, <3>3 DEF Alternates
      <4>2. i % 2 # 1 => i - 1 \in 1..n
        BY <1>1, <3>3, Parity
      <4> QED
        BY <2>3, <3>3, <4>1, <4>2
    <3>4. CASE i = n + 1
      <4>1. CASE n = 0
        <5>1. h = <<>> /\ call[c].record.type = "none"
          BY <1>1, <3>2, <4>1, Constants DEF LastRecord
        <5>2. call[c].op = "apply"
          BY <1>1, <3>2, <5>1 DEF Refuses, CallRow
        <5> QED
          BY <2>1, <2>3, <3>4, <4>1, <5>2
      <4>2. CASE n # 0
        <5>1. n \in 1..n /\ call[c].record = h[n]
          BY <1>1, <3>2, <4>2 DEF LastRecord
        <5>2. IF n % 2 = 1 THEN h[n].type = "applied" ELSE h[n].type = "undone"
          BY <1>1, <3>2, <5>1 DEF Alternates
        <5>3. CASE n % 2 = 1
          <6>1. i % 2 # 1 /\ i - 1 = n
            <7>1. (n + 1) % 2 # 1 /\ (n + 1) - 1 = n
              <8>1. n \in Nat
                BY <1>1
              <8> HIDE DEF n
              <8> QED
                BY <5>3, <8>1, Parity
            <7> QED
              BY <3>4, <7>1
          <6>2. call[c].op = "undo"
            BY <1>1, <3>2, <5>1, <5>2, <5>3 DEF Refuses, CallRow
          <6> QED
            BY <2>1, <2>3, <3>4, <5>1, <6>1, <6>2
        <5>4. CASE n % 2 # 1
          <6>1. i % 2 = 1
            BY <1>1, <3>4, <5>4, Parity
          <6>2. call[c].op = "apply"
            BY <1>1, <3>2, <5>1, <5>2, <5>4 DEF Refuses, CallRow
          <6> QED
            BY <2>1, <2>3, <3>4, <6>1, <6>2
        <5> QED
          BY <5>3, <5>4
      <4> QED
        BY <4>1, <4>2
    <3> QED
      BY <1>1, <3>3, <3>4
  <2>13. (Fits(t) => Alternates(t))'
    BY <2>3, <2>5, <2>12 DEF Fits, Alternates
  <2> QED
    BY <1>2, <2>6, <2>7, <2>8, <2>9, <2>10, <2>11, <2>13 DEF IInv
<1> QED
  BY <1>3, <1>4 DEF Record

(* A broken call; the person's switch. *)
LEMMA RestStep ==
  ASSUME IInv, (\E c \in Callers : Break(c)) \/ (\E b \in Branches : Switch(b)) \/ UNCHANGED vars
  PROVE  IInv' /\ LogGrows
<1>1. Types /\ log' = log /\ events' = events /\ calls' = calls
  BY DEF IInv, Break, Switch, vars
<1>2. LogGrows
  <2>1. \A b \in Branches : Len(log[b]) \in Nat
    BY <1>1 DEF Types
  <2> QED
    BY <1>1, <2>1 DEF Types, LogGrows
<1>3. ASSUME NEW c \in Callers, Break(c) PROVE IInv'
  <2>1. /\ InFlight(c) /\ Finish(c, "broken") /\ breaks' \in Nat
        /\ UNCHANGED <<checkout, log, events, calls>>
    BY <1>1, <1>3 DEF Break, Types
  <2> QED
    BY <2>1, EndsUnrecorded
<1>4. ASSUME checkout' \in Branches, UNCHANGED <<holder, call, breaks>> PROVE IInv'
  <2>1. Types'
    BY <1>1, <1>4 DEF Types
  <2>2. EventInv'
    BY <1>1, <1>2, EventsStay DEF IInv
  <2>3. ASSUME NEW d \in Callers PROVE FlightInv(d)'
    BY <1>1, <1>2, <1>4, FlightStays DEF IInv, FlightInv
  <2>4. CountInv' /\ \A t \in Tasks : (Fits(t) => Alternates(t))'
    BY <1>1, <1>4 DEF IInv, CountInv, Fits, Alternates
  <2> QED
    BY <2>1, <2>2, <2>3, <2>4 DEF IInv
<1> QED
  BY <1>1, <1>2, <1>3, <1>4 DEF Switch, vars, Types

(* The invariant holds at first. *)
LEMMA Starts == Init => IInv
<1> SUFFICES ASSUME Init PROVE IInv
  OBVIOUS
<1>1. /\ \A t \in Tasks : events[t] = <<>> /\ holder[t] = Nobody
      /\ \A c \in Callers : call[c].pc = "idle"
      /\ calls = 0
  BY DEF Init, NewCall
<1>2. Types
  BY Constants DEF Init, Types
<1>3. \A t \in Tasks : Len(events[t]) = 0 /\ DOMAIN events[t] = {}
  <2>1. ASSUME NEW h, h = <<>> PROVE Len(h) = 0 /\ DOMAIN h = {}
    BY <2>1
  <2> QED
    BY <1>1, <2>1
<1>4. EventInv /\ \A t \in Tasks : Alternates(t)
  BY <1>3 DEF EventInv, Alternates
<1>5. CountInv
  BY <1>1, <1>3, EnvironmentAssumption DEF CountInv
<1>6. \A c \in Callers : FlightInv(c)
  BY <1>1 DEF FlightInv, InFlight
<1> QED
  BY <1>2, <1>4, <1>5, <1>6 DEF IInv

(* Every step keeps the invariant, and no commit is lost. *)
LEMMA Keeps ==
  ASSUME IInv, [Next]_vars
  PROVE  IInv' /\ LogGrows
  BY PrepareStep, WorkStep, RecordStep, RestStep DEF Next

(* The types, the locks and what every call knows of its history, for any  *)
(* number of tasks, callers and broken calls (prepareApply, Apply, Undo).  *)
THEOREM Invariance == Spec => []IInv
<1>1. Init => IInv
  BY Starts
<1>2. IInv /\ [Next]_vars => IInv'
  BY Keeps
<1> QED
  BY <1>1, <1>2, PTL DEF Spec

(* As long as no task has more events than the page that applyState reads, *)
(* every history alternates and every undo names the apply before it, for  *)
(* any number of tasks, whoever calls, breaks off or switches branch       *)
(* meanwhile (prepareApply, applyState, Apply, Undo).                      *)
THEOREM AlternatesWhileItFits == Spec => []((\A t \in Tasks : Fits(t)) => HistoryAlternates)
<1>1. IInv => ((\A t \in Tasks : Fits(t)) => HistoryAlternates)
  BY DEF IInv, Alternates, HistoryAlternates
<1> QED
  BY <1>1, Invariance, PTL

(* The same without the proviso, when there are too few calls to fill the  *)
(* page.                                                                   *)
THEOREM AlternatesForFewCalls ==
  ASSUME PriorEvents + MaxCalls <= EventLimit
  PROVE  Spec => []HistoryAlternates
<1>1. IInv => HistoryAlternates
  <2> SUFFICES ASSUME IInv PROVE HistoryAlternates
    OBVIOUS
  <2>1. ASSUME NEW t \in Tasks PROVE Fits(t)
    <3>1. Len(events[t]) <= calls /\ calls <= MaxCalls /\ calls \in Nat /\ Len(events[t]) \in Nat
      BY DEF IInv, CountInv, Types
    <3> QED
      BY <3>1, LimitAssumption, EnvironmentAssumption DEF Fits
  <2> QED
    BY <2>1 DEF IInv, Alternates, HistoryAlternates
<1> QED
  BY <1>1, Invariance, PTL

-----------------------------------------------------------------------------
(*                       The history tells the truth                       *)

(* A record that names its own commit goes on doing so. *)
LEMMA NamesStays ==
  ASSUME IInv, LogGrows, NEW t \in Tasks, NEW e, e.into \in Branches, NamesOwn(t, e)
  PROVE  NamesOwn(t, e)'
<1>1. /\ log[e.into] \in Seq(LogRow) /\ log'[e.into] \in Seq(LogRow)
      /\ Len(log[e.into]) <= Len(log'[e.into])
      /\ \A i \in 1..Len(log[e.into]) : log'[e.into][i] = log[e.into][i]
  BY DEF IInv, Types, LogGrows
<1>2. /\ DOMAIN log[e.into] = 1..Len(log[e.into]) /\ Len(log[e.into]) \in Nat
      /\ DOMAIN log'[e.into] = 1..Len(log'[e.into]) /\ Len(log'[e.into]) \in Nat
  BY <1>1
<1>3. e.commit[2] \in DOMAIN log'[e.into] /\ log'[e.into][e.commit[2]] = log[e.into][e.commit[2]]
  BY <1>1, <1>2 DEF NamesOwn
<1> QED
  BY <1>3 DEF NamesOwn

(* Only one call of the only task runs at a time. *)
LEMMA OneFlies ==
  ASSUME IInv, Alone, NEW c \in Callers, NEW d \in Callers, InFlight(c), InFlight(d)
  PROVE  c = d
  BY DEF IInv, FlightInv, Alone

(* What a branch holds after a commit for the only task. *)
LEMMA EffectiveAfter ==
  ASSUME IInv, Alone, NEW kind \in {"merge", "revert"}, NEW t \in Tasks, NEW adds \in BOOLEAN,
         Commits(kind, t, adds), NEW b \in Branches, NEW u \in Tasks
  PROVE  Effective(b, u)' <=> IF b = checkout THEN adds ELSE Effective(b, u)
<1> DEFINE n == Len(log[checkout])
           row == [kind |-> kind, task |-> t, adds |-> adds]
<1>1. /\ LogGrows /\ n \in Nat /\ Len(log'[checkout]) = n + 1
      /\ log'[checkout][n + 1] = row
      /\ \A d \in Branches : d # checkout => log'[d] = log[d]
  BY CommitGrows
<1>2. row.task = u /\ row.adds = adds
  BY DEF Alone
<1>3. CASE b # checkout
  BY <1>1, <1>3 DEF Effective
<1>4. CASE b = checkout
  <2>1. log'[b] \in Seq(LogRow) /\ DOMAIN log'[b] = 1..(n + 1)
    BY <1>1, <1>4 DEF LogGrows
  <2> HIDE DEF n, row
  <2>2. CASE adds
    <3>1. /\ n + 1 \in DOMAIN log'[b] /\ log'[b][n + 1].task = u /\ log'[b][n + 1].adds
          /\ \A j \in DOMAIN log'[b] : ~(j > n + 1)
      <4>1. log'[b][n + 1] = row
        BY <1>1, <1>4
      <4>2. row.adds
        BY <1>2, <2>2, Zenon
      <4>3. log'[b][n + 1].adds
        BY <4>1, <4>2, Zenon
      <4> QED
        BY <1>1, <1>2, <2>1, <4>1, <4>3
    <3> QED
      BY <1>4, <2>2, <3>1 DEF Effective
  <2>3. CASE ~adds
    <3>1. ASSUME NEW i \in 1..(n + 1), log'[b][i].adds,
                 \A j \in 1..(n + 1) : j > i => log'[b][j].task # u
          PROVE  FALSE
      <4>1. i # n + 1
        BY <1>1, <1>2, <1>4, <2>3, <3>1
      <4>2. n + 1 > i /\ n + 1 \in 1..(n + 1)
        BY <1>1, <4>1
      <4> QED
        BY <1>1, <1>2, <1>4, <3>1, <4>2
    <3> QED
      BY <1>4, <2>1, <2>3, <3>1 DEF Effective
  <2> QED
    BY <2>2, <2>3
<1> QED
  BY <1>3, <1>4

(* The records of the history, one by one. *)
LEMMA NamesAll ==
  RecordNamesOwnCommit <=> \A t \in Tasks : \A i \in DOMAIN events[t] : NamesOwn(t, events[t][i])
  BY DEF RecordNamesOwnCommit, NamesOwn

(* As long as none is added, they stay true. *)
LEMMA NamesAllStay ==
  ASSUME IInv, AInv, LogGrows, events' = events
  PROVE  RecordNamesOwnCommit'
<1>1. \A t \in Tasks : \A i \in DOMAIN events[t] : NamesOwn(t, events[t][i])
  BY NamesAll DEF AInv
<1>2. ASSUME NEW t \in Tasks, NEW i \in DOMAIN events[t] PROVE NamesOwn(t, events[t][i])'
  <2>1. events[t][i].into \in Branches /\ NamesOwn(t, events[t][i])
    BY <1>1 DEF IInv, EventInv
  <2> QED
    BY <2>1, NamesStays DEF NamesOwn
<1>3. RecordNamesOwnCommit' <=>
        \A t \in Tasks : \A i \in DOMAIN events'[t] : NamesOwn(t, events[t][i])'
  BY DEF RecordNamesOwnCommit, NamesOwn
<1> QED
  BY <1>2, <1>3

(* What applyState reads is an event of the history. *)
LEMMA StateIsEvent ==
  ASSUME IInv, NEW t \in Tasks
  PROVE  ApplyState(t) = NoRecord \/ \E i \in DOMAIN events[t] : ApplyState(t) = events[t][i]
<1>1. events[t] \in Seq(RecordRow) /\ Len(events[t]) \in Nat
      /\ DOMAIN events[t] = 1..Len(events[t])
  BY DEF IInv, Types
<1>2. CASE Fits(t)
  <2>1. CASE events[t] = <<>>
    BY <1>2, <2>1 DEF Fits, ApplyState, Visible, LastRecord
  <2>2. CASE events[t] # <<>>
    <3>1. Len(events[t]) \in 1..Len(events[t])
      BY <1>1, <2>2
    <3> QED
      BY <1>1, <1>2, <2>2, <3>1 DEF Fits, ApplyState, Visible, LastRecord
  <2> QED
    BY <2>1, <2>2
<1>3. CASE ~Fits(t)
  <2> DEFINE room == EventLimit - PriorEvents
             page == SubSeq(events[t], 1, room)
  <2>1. room \in Int /\ room < Len(events[t]) /\ Visible(t) = page
    BY <1>1, <1>3, LimitAssumption DEF Fits, Visible
  <2>2. CASE room < 1
    <3>1. page = <<>>
      BY <1>1, <2>1, <2>2
    <3> QED
      BY <2>1, <3>1 DEF ApplyState, LastRecord
  <2>3. CASE room >= 1
    <3>1. page \in Seq(RecordRow) /\ Len(page) = room /\ page[room] = events[t][room]
      BY <1>1, <2>1, <2>3
    <3>2. page # <<>> /\ room \in 1..Len(events[t])
      BY <1>1, <2>1, <2>3, <3>1
    <3> HIDE DEF page
    <3> QED
      BY <1>1, <2>1, <3>1, <3>2 DEF ApplyState, LastRecord
  <2> QED
    BY <2>1, <2>2, <2>3
<1> QED
  BY <1>2, <1>3

(* The branches and the call that runs, if one does. *)
Truth(c) ==
  breaks = 0 =>
    /\ ~Made(c) => \A t \in Tasks : Fits(t) => Matches(t)
    /\ Made(c) /\ Fits(call[c].task) =>
         \A b \in Branches :
           Effective(b, call[c].task) <=> call[c].op = "apply" /\ b = call[c].into

(* It is enough to look at that call. *)
LEMMA OnlyThisCall ==
  ASSUME NEW c \in Callers, \A d \in Callers : d # c => ~InFlight(d)',
         RecordNamesOwnCommit', GitInv(c)', Truth(c)'
  PROVE  AInv'
<1>1. \A d \in Callers : d # c => ~Made(d)' /\ GitInv(d)'
  BY DEF InFlight, Made, GitInv
<1> QED
  BY <1>1 DEF AInv, BranchInv, Truth

(* And back: a call that runs is the only one. *)
LEMMA ThisCall ==
  ASSUME IInv, AInv, Alone, NEW c \in Callers, \A d \in Callers : InFlight(d) => d = c
  PROVE  GitInv(c) /\ Truth(c)
<1>1. \A d \in Callers : d # c => ~Made(d)
  BY DEF InFlight, Made
<1> QED
  BY <1>1 DEF AInv, BranchInv, Truth

(* A call that ends without a record leaves the truth as it is, unless it  *)
(* broke off.                                                              *)
LEMMA EndsTrue ==
  ASSUME IInv, AInv, Alone, NEW c \in Callers, InFlight(c), LogGrows,
         NEW how \in {"failed", "conflict", "nothing", "broken"}, Finish(c, how),
         log' = log, events' = events, breaks' # 0 \/ (breaks' = breaks /\ ~Made(c))
  PROVE  AInv'
<1>1. /\ call \in [Callers -> CallRow] /\ call[c] \in CallRow
  BY DEF IInv, Types
<1>2. call'[c].pc = how /\ \A d \in Callers : d # c => call'[d] = call[d]
  BY <1>1 DEF Finish, CallRow
<1>3. \A d \in Callers : d # c => ~InFlight(d) /\ ~InFlight(d)'
  BY <1>2, OneFlies DEF InFlight
<1>4. GitInv(c)' /\ ~Made(c)'
  BY <1>2 DEF GitInv, InFlight, Made
<1>5. Truth(c)'
  <2>1. Truth(c)
    BY <1>3, ThisCall
  <2>2. CASE breaks' # 0
    BY <2>2 DEF Truth
  <2>3. CASE breaks' = breaks /\ ~Made(c)
    BY <1>4, <2>1, <2>3 DEF Truth, Fits, Matches, Effective, LastRecord
  <2> QED
    BY <2>2, <2>3
<1> QED
  BY <1>3, <1>4, <1>5, NamesAllStay, OnlyThisCall

(* prepareApply waits for the call that runs. *)
LEMMA PrepareTrue ==
  ASSUME IInv, AInv, Alone, LogGrows, NEW c \in Callers, NEW t \in Tasks,
         NEW op \in {"apply", "undo"}, PrepareApply(c, t, op)
  PROVE  AInv'
<1>1. /\ call \in [Callers -> CallRow] /\ holder[t] = Nobody
      /\ UNCHANGED <<checkout, log, events, breaks>>
  BY DEF IInv, Types, PrepareApply, LockTask
<1>2. \A d \in Callers : ~InFlight(d)
  BY <1>1, CallerAssumption DEF IInv, FlightInv, Alone
<1>3. /\ \A d \in Callers : d # c => call'[d] = call[d]
      /\ \/ call'[c].pc = "refused"
         \/ /\ call'[c].pc = IF op = "apply" THEN "resolve" ELSE "git"
            /\ call'[c].op = op /\ call'[c].task = t /\ call'[c].into = checkout
            /\ call'[c].record = ApplyState(t)
  <2> DEFINE record == ApplyState(t)
             ahead == [NewCall EXCEPT !.pc = IF op = "apply" THEN "resolve" ELSE "git",
                                      !.op = op, !.task = t, !.into = checkout,
                                      !.record = record]
             refused == [NewCall EXCEPT !.pc = "refused"]
  <2>1. \/ call' = [call EXCEPT ![c] = ahead]
        \/ call' = [call EXCEPT ![c] = refused]
    BY DEF PrepareApply
  <2> HIDE DEF record
  <2>2. /\ ahead.pc = (IF op = "apply" THEN "resolve" ELSE "git") /\ ahead.op = op
        /\ ahead.task = t /\ ahead.into = checkout /\ ahead.record = record
        /\ refused.pc = "refused"
    BY DEF NewCall
  <2> HIDE DEF ahead, refused
  <2>3. \/ call'[c] = refused
        \/ call'[c] = ahead
    BY <1>1, <2>1
  <2> QED
    BY <1>1, <2>1, <2>2, <2>3 DEF record
<1>4. \A d \in Callers : d # c => ~InFlight(d)'
  BY <1>2, <1>3 DEF InFlight
<1>5. ApplyState(t) = NoRecord \/ NamesOwn(t, ApplyState(t))
  BY StateIsEvent, NamesAll DEF AInv
<1>6. ~Made(c)'
  BY <1>3 DEF Made
<1>7. GitInv(c)'
  <2>1. \A e : NamesOwn(t, e) => NamesOwn(t, e)'
    BY <1>1 DEF NamesOwn
  <2>2. PICK e : e = ApplyState(t)
    OBVIOUS
  <2>3. e = NoRecord \/ NamesOwn(t, e)'
    BY <1>5, <2>1, <2>2
  <2>4. call'[c].pc # "refused" =>
          (call[c].record = NoRecord \/ NamesOwn(call[c].task, call[c].record))'
    BY <1>3, <2>2, <2>3 DEF NamesOwn
  <2> QED
    BY <1>1, <1>3, <1>6, <2>4 DEF GitInv, InFlight
<1>8. Truth(c)'
  <2>1. Truth(c) /\ ~Made(c)
    BY <1>2, ThisCall DEF InFlight, Made
  <2> QED
    BY <1>1, <1>6, <2>1 DEF Truth, Fits, Matches, Effective, LastRecord
<1> QED
  BY <1>1, <1>4, <1>7, <1>8, NamesAllStay, OnlyThisCall

(* ResolveCommit and headOf ask git and change nothing. *)
LEMMA AskTrue ==
  ASSUME IInv, AInv, Alone, LogGrows, NEW c \in Callers, ResolveCommit(c) \/ ReadHead(c)
  PROVE  AInv'
<1>1. /\ Types /\ call \in [Callers -> CallRow] /\ call[c] \in CallRow /\ InFlight(c)
      /\ checkout \in Branches
      /\ UNCHANGED <<checkout, log, events, breaks>>
  BY DEF IInv, Types, ResolveCommit, ReadHead, InFlight
<1>2. \A d \in Callers : d # c => ~InFlight(d)
  BY <1>1, OneFlies
<1>3. GitInv(c) /\ Truth(c) /\ FlightInv(c)
  BY <1>1, <1>2, ThisCall DEF IInv
<1>4. /\ \A d \in Callers : d # c => call'[d] = call[d]
      /\ call'[c].op = call[c].op /\ call'[c].task = call[c].task
      /\ call'[c].into = call[c].into /\ call'[c].record = call[c].record
      /\ \/ /\ call[c].pc = "resolve" /\ call'[c].pc = "git"
            /\ call'[c].before = HeadOf(checkout)
         \/ /\ call[c].pc = "head" /\ call'[c].pc = "record"
            /\ call'[c].before = call[c].before /\ call'[c].commit = HeadOf(checkout)
  <2>1. CASE ResolveCommit(c)
    BY <1>1, <2>1 DEF ResolveCommit, CallRow
  <2>2. CASE ReadHead(c)
    BY <1>1, <2>2 DEF ReadHead, CallRow
  <2> QED
    BY <2>1, <2>2
<1>5. \A d \in Callers : d # c => ~InFlight(d)'
  BY <1>2, <1>4 DEF InFlight
<1>6. Made(c)' <=> Made(c)
  BY <1>1, <1>4 DEF Made, HeadOf
<1>7. GitInv(c)'
  BY <1>1, <1>3, <1>4, <1>6 DEF GitInv, NamesOwn, HeadOf, EndsWith
<1>8. Truth(c)'
  BY <1>1, <1>3, <1>4, <1>6 DEF Truth, Fits, Matches, Effective, LastRecord
<1> QED
  BY <1>1, <1>5, <1>7, <1>8, NamesAllStay, OnlyThisCall

(* git makes a commit that does what the call is for. *)
LEMMA CommitTrue ==
  ASSUME IInv, AInv, Alone, NEW c \in Callers, InFlight(c), call[c].pc = "git",
         NEW kind \in {"merge", "revert"}, NEW t \in Tasks, NEW adds \in BOOLEAN,
         Commits(kind, t, adds), adds <=> call[c].op = "apply",
         call' = [call EXCEPT ![c].pc = "head"], UNCHANGED <<checkout, events, breaks>>
  PROVE  AInv'
<1> DEFINE n == Len(log[checkout])
<1>1. /\ call \in [Callers -> CallRow] /\ call[c] \in CallRow /\ checkout \in Branches
      /\ call[c].op \in {"apply", "undo"}
  BY DEF IInv, Types, CallRow
<1>2. \A d \in Callers : d # c => ~InFlight(d)
  BY OneFlies
<1>3. /\ GitInv(c) /\ Truth(c) /\ FlightInv(c) /\ ~Made(c) /\ call[c].task = t
      /\ call[c].into = checkout
  BY <1>2, ThisCall DEF IInv, Made, Alone, FlightInv, GitInv
<1>4. PICK row \in CallRow :
        /\ row.pc = "head" /\ row.op = call[c].op /\ row.task = call[c].task
        /\ row.into = call[c].into /\ row.record = call[c].record
        /\ row.before = call[c].before /\ call' = [call EXCEPT ![c] = row]
  BY HeadRow
<1>5. call'[c] = row /\ \A d \in Callers : d # c => call'[d] = call[d]
  BY <1>1, <1>4
<1>6. \A d \in Callers : d # c => ~InFlight(d)'
  BY <1>2, <1>5 DEF InFlight
<1>7. /\ LogGrows /\ n \in Nat /\ Len(log'[checkout]) = n + 1
      /\ log'[checkout][n + 1] = [kind |-> kind, task |-> t, adds |-> adds]
  BY CommitGrows
<1>8. log'[checkout][n + 1].adds = adds /\ log'[checkout] # <<>>
  BY <1>7
<1>9. Made(c)'
  <2>1. CASE call[c].op = "undo"
    BY <1>4, <1>5, <2>1 DEF Made
  <2>2. CASE call[c].op = "apply"
    <3>1. call[c].before = <<checkout, n>> /\ n # n + 1
      BY <1>3, <1>7, <2>2 DEF GitInv, HeadOf
    <3>2. call'[c].before # <<checkout, n + 1>>
      BY <1>4, <1>5, <3>1
    <3> QED
      BY <1>3, <1>4, <1>5, <1>7, <3>2 DEF Made, HeadOf
  <2> QED
    BY <1>1, <2>1, <2>2
<1>10. GitInv(c)'
  <2>1. (call[c].record = NoRecord \/ NamesOwn(call[c].task, call[c].record))'
    <3>1. call[c].record = NoRecord \/
            (NamesOwn(t, call[c].record) /\ call[c].record.into \in Branches)
      BY <1>3 DEF GitInv, FlightInv, IsRecord
    <3>2. PICK e : e = call[c].record
      OBVIOUS
    <3>3. e = NoRecord \/ NamesOwn(t, e)'
      BY <1>7, <3>1, <3>2, NamesStays
    <3> QED
      BY <1>3, <1>4, <1>5, <3>2, <3>3 DEF NamesOwn
  <2>2. EndsWith(checkout, call[c].op = "apply")'
    BY <1>4, <1>5, <1>7, <1>8 DEF EndsWith
  <2>3. call[c].op = "apply" => call[c].before[1] = checkout /\ call[c].before[2] = n
    BY <1>3 DEF GitInv, HeadOf
  <2> QED
    BY <1>3, <1>4, <1>5, <1>7, <2>1, <2>2, <2>3 DEF GitInv, EndsWith
<1>11. Truth(c)'
  <2> SUFFICES ASSUME breaks' = 0, Fits(t)', NEW b \in Branches
               PROVE  Effective(b, t)' <=> call[c].op = "apply" /\ b = checkout
    BY <1>3, <1>4, <1>5, <1>9 DEF Truth, Fits, Effective
  <2>1. Fits(t) /\ Matches(t) /\ call[c].record = LastRecord(events[t])
    BY <1>3 DEF Fits, Truth, FlightInv
  <2>2. Effective(b, t) <=> LastRecord(events[t]).type = "applied" /\ LastRecord(events[t]).into = b
    BY <2>1 DEF Matches
  <2>3. ~Refuses(call[c].op, checkout, LastRecord(events[t]))
    BY <1>3, <2>1 DEF FlightInv
  <2>4. Effective(b, t)' <=> IF b = checkout THEN adds ELSE Effective(b, t)
    BY EffectiveAfter
  <2> QED
    BY <1>1, <2>2, <2>3, <2>4 DEF Refuses
<1> QED
  BY <1>6, <1>7, <1>10, <1>11, NamesAllStay, OnlyThisCall

(* The git command: a merge that brings the change in, a revert of what    *)
(* the record names, or nothing.                                           *)
LEMMA GitTrue ==
  ASSUME IInv, AInv, Alone, LogGrows, NEW c \in Callers, RunGit(c)
  PROVE  AInv'
<1>1. /\ InFlight(c) /\ call[c].pc = "git" /\ UNCHANGED <<checkout, events, breaks>>
      /\ call \in [Callers -> CallRow] /\ call[c] \in CallRow /\ call[c].task \in Tasks
      /\ ~Made(c)
  BY GitFacts DEF IInv, Types, FlightInv, Made
<1>2. \A d \in Callers : d # c => ~InFlight(d)
  BY <1>1, OneFlies
<1>3. GitInv(c) /\ Truth(c) /\ FlightInv(c)
  BY <1>1, <1>2, ThisCall DEF IInv
<1>4. CASE /\ call[c].op = "apply" /\ log' = log
           /\ call' = [call EXCEPT ![c].pc = "head"]
  <2>1. PICK row \in CallRow :
          /\ row.pc = "head" /\ row.op = call[c].op /\ row.task = call[c].task
          /\ row.into = call[c].into /\ row.record = call[c].record
          /\ row.before = call[c].before /\ call' = [call EXCEPT ![c] = row]
    BY <1>4, HeadRow
  <2>2. call'[c] = row /\ \A d \in Callers : d # c => call'[d] = call[d]
    BY <1>1, <2>1
  <2>3. \A d \in Callers : d # c => ~InFlight(d)'
    BY <1>2, <2>2 DEF InFlight
  <2>4. call[c].before = HeadOf(call[c].into) /\ ~Made(c)'
    BY <1>1, <1>3, <1>4, <2>1, <2>2 DEF GitInv, Made, HeadOf
  <2>5. call[c].into \in Branches /\ Len(log[call[c].into]) \in Nat
        /\ call[c].before[1] = call[c].into /\ call[c].before[2] = Len(log[call[c].into])
    BY <1>1, <1>3, <2>4 DEF IInv, Types, FlightInv, HeadOf
  <2>6. GitInv(c)'
    <3>1. /\ call[c].into = checkout
          /\ call[c].record = NoRecord \/ NamesOwn(call[c].task, call[c].record)
      BY <1>1, <1>3 DEF GitInv
    <3>2. (call[c].record = NoRecord \/ NamesOwn(call[c].task, call[c].record))'
      BY <1>1, <1>4, <2>1, <2>2, <3>1 DEF NamesOwn
    <3>3. /\ call'[c].before[1] = call'[c].into
          /\ call'[c].before[2] <= Len(log'[call'[c].into])
      BY <1>4, <2>1, <2>2, <2>5
    <3> QED
      BY <1>1, <2>1, <2>2, <2>4, <3>1, <3>2, <3>3 DEF GitInv
  <2>7. Truth(c)'
    BY <1>1, <1>3, <1>4, <2>4 DEF Truth, Fits, Matches, Effective, LastRecord
  <2> QED
    BY <1>1, <2>3, <2>6, <2>7, NamesAllStay, OnlyThisCall
<1>5. CASE /\ call[c].op = "apply" /\ Commits("merge", call[c].task, TRUE)
           /\ call' = [call EXCEPT ![c].pc = "head"]
  BY <1>1, <1>5, CommitTrue
<1>6. CASE /\ Reapplies(c) \/ call[c].op = "undo"
           /\ call[c].record.commit[2] # 0
           /\ LET id == call[c].record.commit
              IN Commits("revert", log[id[1]][id[2]].task, ~log[id[1]][id[2]].adds)
           /\ call' = [call EXCEPT ![c].pc = "head"]
  <2> DEFINE id == call[c].record.commit
             target == log[id[1]][id[2]]
  <2>1. target \in LogRow
    BY <1>1, <1>6, TargetIsCommit
  <2>2. NamesOwn(call[c].task, call[c].record)
    BY <1>1, <1>3, <1>6, Constants DEF GitInv, FlightInv, Refuses, Reapplies
  <2>3. target.adds = (call[c].record.type = "applied")
    BY <2>2 DEF NamesOwn
  <2>4. (call[c].record.type = "applied") = (call[c].op = "undo")
    BY <1>1, <1>3, <1>6 DEF FlightInv, Refuses, Reapplies
  <2>5. Commits("revert", target.task, ~target.adds)
    BY <1>6
  <2> HIDE DEF target
  <2>6. target.task \in Tasks /\ (~target.adds) \in BOOLEAN
    BY <2>1 DEF LogRow
  <2>7. call[c].op \in {"apply", "undo"}
    BY <1>1 DEF CallRow
  <2>8. ~target.adds <=> call[c].op = "apply"
    BY <2>3, <2>4, <2>7
  <2> QED
    BY <1>1, <1>6, <2>5, <2>6, <2>8, CommitTrue
<1>7. CASE \E how \in {"failed", "conflict"} : Finish(c, how) /\ log' = log
  BY <1>1, <1>7, EndsTrue
<1> QED
  BY <1>4, <1>5, <1>6, <1>7, GitFacts

(* The event says what git did. *)
LEMMA RecordTrue ==
  ASSUME IInv, IInv', AInv, Alone, LogGrows, NEW c \in Callers, Record(c)
  PROVE  AInv'
<1>0. call[c].task \in Tasks
  BY DEF IInv, FlightInv, Record, InFlight
<1> PICK t \in Tasks : t = call[c].task
  BY <1>0
<1> DEFINE e == Entry(c)
           n == Len(events[t])
<1>1. /\ InFlight(c) /\ call[c].pc = "record" /\ UNCHANGED <<checkout, log, breaks>>
      /\ call \in [Callers -> CallRow] /\ call[c] \in CallRow
      /\ call[c].op \in {"apply", "undo"}
      /\ events \in [Tasks -> Seq(RecordRow)] /\ events[t] \in Seq(RecordRow) /\ n \in Nat
      /\ DOMAIN events[t] = 1..n
  BY DEF Record, InFlight, IInv, Types, CallRow
<1>2. \A d \in Callers : d # c => ~InFlight(d)
  BY <1>1, OneFlies
<1>3. /\ GitInv(c) /\ Truth(c) /\ FlightInv(c) /\ call[c].into \in Branches
      /\ call[c].commit = HeadOf(call[c].into)
  BY <1>1, <1>2, ThisCall DEF IInv, FlightInv, GitInv
<1>4. CASE Unchanged(c) /\ Finish(c, "nothing") /\ events' = events
  <2>1. ~Made(c)
    BY <1>3, <1>4 DEF Made, Unchanged
  <2> QED
    BY <1>1, <1>4, <2>1, EndsTrue
<1>5. CASE /\ ~Unchanged(c) /\ Finish(c, "done")
           /\ events' = [events EXCEPT ![t] = Append(events[t], e)]
  <2>1. Made(c)
    BY <1>1, <1>3, <1>5 DEF Made, Unchanged
  <2>2. /\ e \in RecordRow /\ e.into = call[c].into /\ e.commit = HeadOf(call[c].into)
        /\ (e.type = "applied") = (call[c].op = "apply")
    BY <1>1, <1>3, EntryRow
  <2> HIDE DEF e
  <2>3. PICK new \in RecordRow : new = e
    BY <2>2
  <2>4. NamesOwn(t, new)'
    <3>1. EndsWith(call[c].into, call[c].op = "apply")
      BY <1>1, <1>3, <2>1 DEF GitInv
    <3>2. /\ log[call[c].into] \in Seq(LogRow) /\ log[call[c].into] # <<>>
          /\ log[call[c].into][Len(log[call[c].into])].adds = (call[c].op = "apply")
      BY <1>3, <3>1 DEF EndsWith, IInv, Types
    <3>3. Len(log[call[c].into]) \in DOMAIN log[call[c].into]
          /\ log[call[c].into][Len(log[call[c].into])].task = t
      <4> DEFINE l == log[call[c].into]
      <4>1. l \in Seq(LogRow) /\ l # <<>>
        BY <3>2
      <4> HIDE DEF l
      <4>2. Len(l) \in DOMAIN l /\ l[Len(l)] \in LogRow
        <5>1. Len(l) \in Nat /\ Len(l) # 0 /\ DOMAIN l = 1..Len(l)
          BY <4>1
        <5> QED
          BY <4>1, <5>1
      <4>3. l[Len(l)].task \in Tasks
        BY <4>2 DEF LogRow
      <4> QED
        BY <4>2, <4>3 DEF l, Alone
    <3> QED
      BY <1>1, <2>2, <2>3, <3>2, <3>3 DEF NamesOwn, HeadOf
  <2>5. /\ events'[t] \in Seq(RecordRow) /\ Len(events'[t]) = n + 1
        /\ DOMAIN events'[t] = 1..(n + 1)
        /\ \A i \in 1..n : events'[t][i] = events[t][i]
        /\ events'[t][n + 1] = new
    <3>1. events'[t] = Append(events[t], new)
      BY <1>1, <1>5, <2>3
    <3> QED
      BY <1>1, <3>1, Appended
  <2>6. RecordNamesOwnCommit'
    <3>1. ASSUME NEW i \in 1..(n + 1) PROVE NamesOwn(t, events[t][i])'
      <4>1. CASE i = n + 1
        <5>1. events'[t][i] = new
          BY <2>5, <4>1
        <5> QED
          BY <2>4, <5>1 DEF NamesOwn
      <4>2. CASE i \in 1..n
        <5>1. NamesOwn(t, events[t][i])
          BY <1>1, <4>2, NamesAll DEF AInv
        <5> QED
          BY <1>1, <2>5, <4>2, <5>1 DEF NamesOwn
      <4>3. i = n + 1 \/ i \in 1..n
        BY <1>1
      <4> QED
        BY <4>1, <4>2, <4>3
    <3>2. RecordNamesOwnCommit' <=>
            \A u \in Tasks : \A i \in DOMAIN events'[u] : NamesOwn(u, events[u][i])'
      BY DEF RecordNamesOwnCommit, NamesOwn
    <3>3. \A u \in Tasks : u = t
      BY DEF Alone
    <3> QED
      BY <2>5, <3>1, <3>2, <3>3
  <2>7. call'[c].pc = "done" /\ \A d \in Callers : d # c => call'[d] = call[d]
    BY <1>1, <1>5 DEF Finish, CallRow
  <2>8. \A d \in Callers : d # c => ~InFlight(d)'
    BY <1>2, <2>7 DEF InFlight
  <2>9. GitInv(c)' /\ ~Made(c)'
    BY <2>7 DEF GitInv, InFlight, Made
  <2>10. Truth(c)'
    <3> SUFFICES ASSUME breaks' = 0, NEW u \in Tasks, Fits(u)' PROVE Matches(u)'
      BY <2>9 DEF Truth
    <3>1. u = t
      BY DEF Alone
    <3>2. Fits(t)
      BY <1>1, <2>5, <3>1, LimitAssumption DEF Fits
    <3>3. \A b \in Branches : Effective(b, t) <=> call[c].op = "apply" /\ b = call[c].into
      BY <1>1, <1>3, <2>1, <3>2 DEF Truth
    <3>4. events'[t] # <<>> /\ LastRecord(events[t])' = new
      BY <1>1, <2>5 DEF LastRecord
    <3> QED
      BY <1>1, <2>2, <2>3, <3>1, <3>3, <3>4 DEF Matches, Effective
  <2> QED
    BY <2>6, <2>8, <2>9, <2>10, OnlyThisCall
<1> QED
  BY <1>4, <1>5 DEF Record

(* A broken call; a switch between two calls. *)
LEMMA RestTrue ==
  ASSUME IInv, AInv, Alone, LogGrows,
         (\E c \in Callers : Break(c)) \/ (\E b \in Branches : Switch(b)) \/ UNCHANGED vars
  PROVE  AInv'
<1>1. ASSUME NEW c \in Callers, Break(c) PROVE AInv'
  <2>1. breaks' # 0
    BY <1>1 DEF Break, IInv, Types
  <2> QED
    BY <1>1, <2>1, EndsTrue DEF Break
<1>2. ASSUME NEW b \in Branches, Switch(b) PROVE AInv'
  <2>1. /\ \A d \in Callers : ~InFlight(d) /\ ~InFlight(d)'
        /\ UNCHANGED <<log, events, call, breaks>>
    BY <1>2 DEF Switch, Alone, InFlight
  <2>2. RecordNamesOwnCommit'
    BY <2>1, NamesAllStay
  <2>3. \A d \in Callers : GitInv(d)' /\ ~Made(d) /\ ~Made(d)'
    BY <2>1 DEF GitInv, Made, InFlight
  <2>4. BranchInv'
    BY <2>1, <2>3 DEF AInv, BranchInv, Fits, Matches, Effective, LastRecord
  <2> QED
    BY <2>2, <2>3, <2>4 DEF AInv
<1>3. CASE UNCHANGED vars
  <2>1. RecordNamesOwnCommit'
    BY <1>3 DEF vars, AInv, RecordNamesOwnCommit
  <2>2. ASSUME NEW c \in Callers PROVE GitInv(c)' /\ (Made(c)' <=> Made(c))
    BY <1>3 DEF vars, AInv, GitInv, InFlight, NamesOwn, Made, HeadOf, EndsWith
  <2>3. BranchInv'
    BY <1>3, <2>2 DEF vars, AInv, BranchInv, Fits, Matches, Effective, LastRecord
  <2> QED
    BY <2>1, <2>2, <2>3 DEF AInv
<1> QED
  BY <1>1, <1>2, <1>3

(* For one task on a checkout that the person leaves alone while a call    *)
(* runs: every record names a commit that did what it says, and as long as *)
(* no call broke off and the history fits its page, the branches hold      *)
(* exactly what the last record says (Apply, Undo).                        *)
THEOREM TruthInvariance ==
  ASSUME Alone
  PROVE  Spec => []AInv
<1>1. Init => AInv
  <2> SUFFICES ASSUME Init PROVE AInv
    OBVIOUS
  <2>1. /\ \A t \in Tasks : events[t] = <<>>
        /\ \A b \in Branches : log[b] = <<>>
        /\ \A c \in Callers : call[c].pc = "idle"
    BY DEF Init, NewCall
  <2>2. ASSUME NEW h, h = <<>> PROVE DOMAIN h = {} /\ LastRecord(h) = NoRecord
    BY <2>2 DEF LastRecord
  <2>3. \A t \in Tasks : DOMAIN events[t] = {} /\ LastRecord(events[t]).type = "none"
    BY <2>1, <2>2, Constants
  <2>4. \A b \in Branches : DOMAIN log[b] = {}
    BY <2>1, <2>2
  <2>5. \A c \in Callers : GitInv(c) /\ ~Made(c)
    BY <2>1 DEF GitInv, InFlight, Made
  <2> QED
    BY <2>3, <2>4, <2>5 DEF AInv, RecordNamesOwnCommit, BranchInv, Matches, Effective
<1>2. IInv /\ IInv' /\ AInv /\ [Next]_vars => AInv'
  BY Keeps, PrepareTrue, AskTrue, GitTrue, RecordTrue, RestTrue DEF Next
<1> QED
  BY <1>1, <1>2, Invariance, PTL DEF Spec

(* The history is true, for any number of callers, branches, calls and     *)
(* broken calls, when the calls are of one task, nobody switches branch    *)
(* while one runs, and too few calls are made to fill the page (Apply,     *)
(* Undo, applyState).                                                      *)
THEOREM HistoryTrue ==
  ASSUME Alone, PriorEvents + MaxCalls <= EventLimit
  PROVE  Spec => []HistoryIsTrue
<1>1. IInv /\ AInv => HistoryIsTrue
  <2> SUFFICES ASSUME IInv, AInv PROVE HistoryIsTrue
    OBVIOUS
  <2>1. ASSUME NEW t \in Tasks PROVE Fits(t)
    <3>1. Len(events[t]) <= calls /\ calls <= MaxCalls /\ calls \in Nat /\ Len(events[t]) \in Nat
      BY DEF IInv, CountInv, Types
    <3> QED
      BY <3>1, LimitAssumption, EnvironmentAssumption DEF Fits
  <2>2. (\A c \in Callers : ~InFlight(c)) => \A c \in Callers : ~Made(c)
    BY DEF InFlight, Made
  <2> QED
    BY <2>1, <2>2 DEF AInv, BranchInv, Matches, HistoryIsTrue, HistoryMatchesBranches
<1> QED
  BY <1>1, Invariance, TruthInvariance, PTL

=============================================================================
