------------------------------ MODULE EventLog ------------------------------
(***************************************************************************)
(* The history of tasks: transactions that append events and readers that  *)
(* follow by cursor.  A sequence number is taken when the row is inserted  *)
(* and seen when its transaction commits; AppendEvent's advisory lock, one *)
(* per task, is what lets a reader page with seq > last_seen.              *)
(*                                                                         *)
(* The transactions are told apart by the locks they take before they      *)
(* append.  PostgreSQL's part is modelled from how the store uses it: the  *)
(* conflicts of row locks, and the FOR KEY SHARE an insert takes on the    *)
(* rows it refers to.  A task has one attempt here, which only makes       *)
(* transactions wait more often.                                           *)
(***************************************************************************)
EXTENDS Integers, FiniteSets

CONSTANTS Tasks,
          Writers,            \* transactions that may be open at a time
          Readers,
          Requests,           \* the limits readers ask for
          DefaultEventLimit,
          MaxEventLimit,
          PassesLastSeq,      \* readers pass last_seq back, instead of the
                              \* highest sequence number they have seen
          MaxAppends,         \* events in one transaction
          MaxSeq              \* bound on the sequence

ASSUME LimitAssumption ==
  /\ Requests \subseteq Int
  /\ DefaultEventLimit \in Nat \ {0}
  /\ MaxEventLimit \in Nat \ {0}
ASSUME TaskAssumption == Tasks # {}
ASSUME BoundAssumption ==
  PassesLastSeq \in BOOLEAN /\ MaxAppends \in Nat /\ MaxSeq \in Nat

VARIABLES tx,        \* each transaction: what it is, and its next statement
          held,      \* row locks: <<transaction, row, mode>>
          advisory,  \* who holds the advisory lock of each task
          nextSeq,   \* the BIGSERIAL of the events table
          events,    \* the committed sequence numbers of each task
          reader     \* each reader's cursor, and what it has been given

vars == <<tx, held, advisory, nextSeq, events, reader>>

(* "fenced": a run's writes while its attempt is open (HoldLease).          *)
(* "apply": Apply and Undo (LockTask).  "cancel": Cancel, and a denial.     *)
(* "transition": becomeReady, the gate, a grant, startAttempt.  "bare": an  *)
(* event with no lock on the task row before it: the removal of a worktree, *)
(* by a run that succeeded or by the operator, and Cancel's note on the     *)
(* runner.  "renew": RenewLease.                                            *)
Kinds == {"fenced", "apply", "cancel", "transition", "bare", "renew"}
Rows  == {"task", "attempt"}
Modes == {"update", "nokey", "share"}

(* FOR UPDATE, FOR NO KEY UPDATE (what an UPDATE takes) and FOR KEY SHARE. *)
Conflict(m, n) == "update" \in {m, n} \/ (m = "nokey" /\ n = "nokey")

(* The mode in which a transaction locks a row. *)
Mode(kind, row) ==
  IF kind = "fenced" \/ (kind = "apply" /\ row = "task") THEN "update" ELSE "nokey"

(* Mistake: a transition appends its event before it locks the row. *)
TransitionAppendsFirst(kind) ==
  CASE kind \in {"bare", "transition"} -> "append"
    [] kind = "renew"                  -> "attempt"
    [] OTHER                           -> "task"

(* The statement after a transaction began, and after it locked each row. *)
FirstStatement(kind) ==
  CASE kind = "bare"  -> "append"
    [] kind = "renew" -> "attempt"
    [] OTHER          -> "task"
AfterLock(kind, row) ==
  CASE row = "task" /\ kind \in {"fenced", "cancel"} -> "attempt"
    [] kind = "renew"                                -> "wrote"
    [] OTHER                                         -> "append"

(* The rows an appended event refers to and the transaction did not create. *)
References(kind) == IF kind \in {"fenced", "bare"} THEN Rows ELSE {"task"}

Idle == [pc |-> "idle", kind |-> "bare", task |-> CHOOSE t \in Tasks : TRUE,
         seqs |-> {}]

Init ==
  /\ tx = [w \in Writers |-> Idle]
  /\ held = {}
  /\ advisory = [t \in Tasks |-> {}]
  /\ nextSeq = 1
  /\ events = [t \in Tasks |-> {}]
  /\ reader \in [Readers -> {[task |-> t, after |-> 0, seen |-> {}, page |-> {}] :
                               t \in Tasks}]

-----------------------------------------------------------------------------
(*                                 Locks                                   *)

(* Who keeps w from locking a row in a mode. *)
Holders(w, row, mode) ==
  {v \in Writers \ {w} : /\ tx[v].task = tx[w].task
                         /\ \E m \in Modes : <<v, row, m>> \in held /\ Conflict(m, mode)}

(* Mistake: the insert without the advisory lock. *)
NoAdvisoryHolders(w) == {}

AdvisoryHolders(w) == advisory[tx[w].task] \ {w}

(* Who keeps w from its next statement. *)
Blockers(w) ==
  CASE tx[w].pc \in Rows    -> Holders(w, tx[w].pc, Mode(tx[w].kind, tx[w].pc))
    [] tx[w].pc = "append"  -> AdvisoryHolders(w)
    [] tx[w].pc = "check"   -> UNION {Holders(w, row, "share") :
                                        row \in References(tx[w].kind)}
    [] OTHER                -> {}

-----------------------------------------------------------------------------
(*                              Transactions                               *)

(* A transaction, or a statement of its own, begins. *)
Begin(w, t, kind) ==
  /\ tx[w].pc = "idle"
  /\ tx' = [tx EXCEPT ![w] = [pc |-> FirstStatement(kind), kind |-> kind,
                              task |-> t, seqs |-> {}]]
  /\ UNCHANGED <<held, advisory, nextSeq, events, reader>>

(* HoldLease, LockTask, TransitionTask, FinishAttempt, RenewLease. *)
LockRow(w) ==
  LET row == tx[w].pc
      kind == tx[w].kind IN
  /\ row \in Rows
  /\ Blockers(w) = {}
  /\ held' = held \cup {<<w, row, Mode(kind, row)>>}
  /\ tx' = [tx EXCEPT ![w].pc = AfterLock(kind, row)]
  /\ UNCHANGED <<advisory, nextSeq, events, reader>>

(* Mistake: the number is one the table holds, not the sequence's next. *)
AppendReusingSeq(w) ==
  /\ tx[w].pc = "append"
  /\ AdvisoryHolders(w) = {}
  /\ nextSeq <= MaxSeq
  /\ advisory' = [advisory EXCEPT ![tx[w].task] = @ \cup {w}]
  /\ tx' = [tx EXCEPT ![w].pc = "check", ![w].seqs = @ \cup {nextSeq}]
  /\ UNCHANGED <<held, nextSeq, events, reader>>

(* AppendEvent's statement: the advisory lock first, then nextval. *)
AppendEvent(w) ==
  /\ tx[w].pc = "append"
  /\ AdvisoryHolders(w) = {}
  /\ nextSeq <= MaxSeq
  /\ advisory' = [advisory EXCEPT ![tx[w].task] = @ \cup {w}]
  /\ nextSeq' = nextSeq + 1
  /\ tx' = [tx EXCEPT ![w].pc = "check", ![w].seqs = @ \cup {nextSeq}]
  /\ UNCHANGED <<held, events, reader>>

(* The end of the statement: the rows it refers to must stay. *)
CheckReferences(w) ==
  /\ tx[w].pc = "check"
  /\ Blockers(w) = {}
  /\ held' = held \cup {<<w, row, "share">> : row \in References(tx[w].kind)}
  /\ tx' = [tx EXCEPT ![w].pc = "wrote"]
  /\ UNCHANGED <<advisory, nextSeq, events, reader>>

(* fail writes two events: the worktree is kept, and how the attempt ended. *)
AppendAnother(w) ==
  /\ tx[w].pc = "wrote"
  /\ tx[w].kind = "fenced"
  /\ Cardinality(tx[w].seqs) < MaxAppends
  /\ tx' = [tx EXCEPT ![w].pc = "append"]
  /\ UNCHANGED <<held, advisory, nextSeq, events, reader>>

(* What the end of a transaction gives back. *)
Release(w) ==
  /\ held' = {l \in held : l[1] # w}
  /\ advisory' = [t \in Tasks |-> advisory[t] \ {w}]
  /\ tx' = [tx EXCEPT ![w] = Idle]
  /\ UNCHANGED <<nextSeq, reader>>

Commit(w) ==
  /\ tx[w].pc = "wrote"
  /\ events' = [events EXCEPT ![tx[w].task] = @ \cup tx[w].seqs]
  /\ Release(w)

(* A failed statement, a lost compare-and-set or lease, a dead process, or  *)
(* the victim of a deadlock.  The sequence numbers are not given back.      *)
Rollback(w) ==
  /\ tx[w].pc # "idle"
  /\ Release(w)
  /\ UNCHANGED events

-----------------------------------------------------------------------------
(*                                Readers                                  *)

Limit(request) ==
  IF request <= 0 THEN DefaultEventLimit
  ELSE IF request > MaxEventLimit THEN MaxEventLimit
  ELSE request

(* Mistakes: the newest events first; the event at the cursor once more. *)
PageNewestFirst(t, after, limit) ==
  LET unread == {s \in events[t] : s > after} IN
  {s \in unread : Cardinality({u \in unread : u >= s}) <= limit}

PageFromCursor(t, after, limit) ==
  LET unread == {s \in events[t] : s >= after} IN
  {s \in unread : Cardinality({u \in unread : u <= s}) <= limit}

(* WHERE seq > after ORDER BY seq LIMIT limit. *)
Page(t, after, limit) ==
  LET unread == {s \in events[t] : s > after} IN
  {s \in unread : Cardinality({u \in unread : u <= s}) <= limit}

(* last_seq is left zero when the page is empty. *)
IsLastSeq(last, page) ==
  IF page = {} THEN last = 0 ELSE last \in page /\ \A s \in page : s <= last

(* The cursor a reader passes next. *)
NextCursor(after, last, page) ==
  IF page # {} \/ PassesLastSeq THEN last ELSE after

(* ListEvents, for aidev_get_task_events and `aidev task events`. *)
ListEvents(r, request) ==
  LET c == reader[r]
      page == Page(c.task, c.after, Limit(request)) IN
  /\ \E last \in page \cup {0} :
       /\ IsLastSeq(last, page)
       /\ reader' = [reader EXCEPT ![r] = [task  |-> c.task,
                                           after |-> NextCursor(c.after, last, page),
                                           seen  |-> c.seen \cup page,
                                           page  |-> page]]
  /\ UNCHANGED <<tx, held, advisory, nextSeq, events>>

Next ==
  \/ \E w \in Writers :
       \/ \E t \in Tasks, kind \in Kinds : Begin(w, t, kind)
       \/ LockRow(w) \/ AppendEvent(w) \/ CheckReferences(w)
       \/ AppendAnother(w) \/ Commit(w) \/ Rollback(w)
  \/ \E r \in Readers, request \in Requests : ListEvents(r, request)

Spec == Init /\ [][Next]_vars

-----------------------------------------------------------------------------
(*                              Properties                                 *)

PCs == {"idle", "task", "attempt", "append", "check", "wrote"}

Transaction == [pc : PCs, kind : Kinds, task : Tasks, seqs : SUBSET (Nat \ {0})]
Cursor == [task : Tasks, after : Nat, seen : SUBSET Nat, page : SUBSET Nat]

(* The type invariant.  Sequence numbers in use are below the next one.     *)
TypeOK ==
  /\ tx \in [Writers -> Transaction]
  /\ held \subseteq Writers \X Rows \X Modes
  /\ advisory \in [Tasks -> SUBSET Writers]
  /\ nextSeq \in Nat \ {0}
  /\ events \in [Tasks -> SUBSET (Nat \ {0})]
  /\ \A t \in Tasks : IsFiniteSet(events[t]) /\ \A s \in events[t] : s < nextSeq
  /\ \A w \in Writers : IsFiniteSet(tx[w].seqs) /\ \A s \in tx[w].seqs : s < nextSeq
  /\ reader \in [Readers -> Cursor]

(* "A consumer can resume from a cursor without missing an event": whatever *)
(* transactions are open while it pages, and whatever limits it asks for,   *)
(* a reader has been given every event at or below its cursor.              *)
CursorMissesNothing ==
  \A r \in Readers :
    \A s \in events[reader[r].task] : s <= reader[r].after => s \in reader[r].seen

(* "Within one task the sequence order is also the commit order": an event  *)
(* that becomes visible sorts after every event that already is.            *)
SeqIsCommitOrder ==
  [][\A t \in Tasks : \A s \in events'[t] \ events[t], u \in events[t] : u < s]_vars

(* "The order Cancel uses, so the two cannot deadlock": the transactions    *)
(* that lock the task row first never wait for each other in a circle, with *)
(* the advisory lock and the references of an event counted in.             *)
LockersNeverDeadlock ==
  \A S \in SUBSET {w \in Writers : tx[w].kind # "bare"} :
    S # {} => \E w \in S : Blockers(w) \cap S = {}

(* "Follow along": a reader is never given an event twice.                  *)
ReadsNothingTwice ==
  [][\A r \in Readers :
       reader'[r].page # reader[r].page => reader'[r].page \cap reader[r].seen = {}]_vars

(* No circle of waiting transactions at all.  An event appended outside any *)
(* lock breaks it: it holds the advisory lock and waits for the task row,   *)
(* which HoldLease or LockTask has FOR UPDATE, and they wait for the        *)
(* advisory lock.                                                           *)
NoDeadlock ==
  \A S \in SUBSET Writers : S # {} => \E w \in S : Blockers(w) \cap S = {}

=============================================================================
