--------------------------- MODULE EventLogProofs ---------------------------
(***************************************************************************)
(* EventLog's properties, for any number of tasks, transactions and        *)
(* readers, any page sizes and any number of events.                       *)
(***************************************************************************)
EXTENDS EventLog, FiniteSetTheorems, TLAPS

(* A transaction that appended holds its task's advisory lock, alone, and   *)
(* what it appended sorts after everything committed.                       *)
AppendsAlone ==
  /\ \A w \in Writers : tx[w].seqs # {} => /\ w \in advisory[tx[w].task]
                                            /\ tx[w].pc \in {"append", "check", "wrote"}
  /\ \A t \in Tasks : \A v, w \in advisory[t] : v = w
  /\ \A w \in Writers : \A s \in tx[w].seqs, u \in events[tx[w].task] : u < s

(* A cursor is at a committed event, or at the start. *)
CursorIsCommitted ==
  \A r \in Readers : reader[r].after \in events[reader[r].task] \cup {0}

(* A reader that passes the highest number it has seen is past what it saw. *)
CursorIsHighest ==
  ~PassesLastSeq => \A r \in Readers : \A s \in reader[r].seen : s <= reader[r].after

LogInv == TypeOK /\ AppendsAlone /\ CursorIsCommitted /\ CursorIsHighest
          /\ CursorMissesNothing

-----------------------------------------------------------------------------

(* A committed transaction is idle again. *)
LEMMA IdleIsTransaction == Idle \in Transaction
  BY TaskAssumption DEF Idle, Transaction, PCs, Kinds

(* The log's invariant holds of an empty table and cursors at zero. *)
LEMMA InitInv == Init => LogInv
<1> SUFFICES ASSUME Init PROVE LogInv
  OBVIOUS
<1>1. \A w \in Writers : tx[w].seqs = {}
  BY DEF Init, Idle
<1>2. TypeOK
  <2>1. \A t \in Tasks : [task |-> t, after |-> 0, seen |-> {}, page |-> {}] \in Cursor
    BY DEF Cursor
  <2>2. reader \in [Readers -> Cursor]
    BY <2>1 DEF Init
  <2>3. \A w \in Writers : IsFiniteSet(tx[w].seqs) /\ \A s \in tx[w].seqs : s < nextSeq
    BY <1>1, FS_EmptySet
  <2> QED
    BY <2>2, <2>3, IdleIsTransaction, FS_EmptySet DEF Init, TypeOK
<1> QED
  BY <1>1, <1>2 DEF Init, LogInv, AppendsAlone, CursorIsCommitted, CursorIsHighest,
        CursorMissesNothing

-----------------------------------------------------------------------------
(*                                 Pages                                   *)

(* A page leaves out nothing at or below its last event: what sorts before  *)
(* a member of the page has no more events up to it than the member has.    *)
LEMMA PageIsPrefix ==
  ASSUME TypeOK, NEW t \in Tasks, NEW after \in Nat, NEW limit \in Nat,
         NEW last \in Page(t, after, limit),
         NEW s \in events[t], s > after, s <= last
  PROVE  s \in Page(t, after, limit)
<1> DEFINE unread == {u \in events[t] : u > after}
           upTo(m) == {u \in unread : u <= m}
<1>1. /\ last \in unread /\ s \in unread
      /\ Cardinality(upTo(last)) <= limit
  BY DEF Page
<1>2. \A u \in unread : u \in Nat
  BY DEF TypeOK
<1>3. upTo(s) \subseteq upTo(last)
  BY <1>1, <1>2
<1>4. IsFiniteSet(events[t]) /\ upTo(last) \subseteq events[t]
  BY DEF TypeOK
<1>5. IsFiniteSet(upTo(last))
  BY <1>4, FS_Subset
<1>6. /\ Cardinality(upTo(s)) <= Cardinality(upTo(last))
      /\ IsFiniteSet(upTo(s))
  BY <1>3, <1>5, FS_Subset
<1>7. Cardinality(upTo(s)) \in Nat /\ Cardinality(upTo(last)) \in Nat
  BY <1>5, <1>6, FS_CardinalityType
<1>8. Cardinality(upTo(s)) <= limit
  BY <1>1, <1>6, <1>7
<1> QED
  BY <1>1, <1>8 DEF Page

(* Whatever a reader asks for, ListEvents uses a natural number as its limit. *)
LEMMA LimitIsNat == \A request \in Requests : Limit(request) \in Nat
  BY LimitAssumption DEF Limit

(* What one call of a reader changes. *)
LEMMA ReadStep ==
  ASSUME LogInv, NEW r \in Readers, NEW request \in Requests, ListEvents(r, request)
  PROVE  /\ TypeOK'
         /\ CursorIsCommitted' /\ CursorIsHighest' /\ CursorMissesNothing'
         /\ ~PassesLastSeq => reader'[r].page \cap reader[r].seen = {}
         /\ \A q \in Readers : q # r => reader'[q] = reader[q]
<1> DEFINE c == reader[r]
           page == Page(c.task, c.after, Limit(request))
           next(last) == [task  |-> c.task,
                          after |-> NextCursor(c.after, last, page),
                          seen  |-> c.seen \cup page,
                          page  |-> page]
<1>1. PICK last \in page \cup {0} : IsLastSeq(last, page) /\ reader' = [reader EXCEPT ![r] = next(last)]
  BY DEF ListEvents
<1>2. c \in Cursor /\ c.task \in Tasks /\ c.after \in Nat
  BY DEF LogInv, TypeOK, Cursor
<1>3. events' = events /\ UNCHANGED <<tx, held, advisory, nextSeq>>
  BY DEF ListEvents
<1>4. \A s \in page : s \in events[c.task] /\ s \in Nat /\ s > c.after
  BY <1>2 DEF Page, LogInv, TypeOK
<1>5. \A s \in events[c.task] : s > c.after /\ last \in page /\ s <= last => s \in page
  BY <1>2, LimitIsNat, PageIsPrefix DEF LogInv
<1>m. \A s \in events[c.task] : s \in Nat /\ (s <= c.after => s \in c.seen)
  BY <1>2 DEF LogInv, TypeOK, CursorMissesNothing
<1>o. c.after \in events[c.task] \cup {0}
  BY DEF LogInv, CursorIsCommitted
<1>h. ~PassesLastSeq => \A s \in c.seen : s <= c.after
  BY DEF LogInv, CursorIsHighest
<1>s. \A s \in c.seen : s \in Nat
  BY <1>2 DEF Cursor
<1> HIDE DEF page, c
<1>6. /\ reader'[r] = next(last)
      /\ \A q \in Readers : q # r => reader'[q] = reader[q]
  BY <1>1 DEF LogInv, TypeOK
<1>7. NextCursor(c.after, last, page) =
        IF page = {} THEN IF PassesLastSeq THEN 0 ELSE c.after ELSE last
  BY <1>1 DEF NextCursor, IsLastSeq
<1>8. page # {} => last \in page /\ \A s \in page : s <= last
  BY <1>1 DEF IsLastSeq
<1>9. next(last) \in Cursor
  BY <1>2, <1>4, <1>7, <1>8 DEF Cursor
<1>10. TypeOK'
  BY <1>1, <1>3, <1>9 DEF LogInv, TypeOK
<1>11. /\ next(last).task = c.task
       /\ next(last).after \in events[c.task] \cup {0}
       /\ \A s \in events[c.task] : s <= next(last).after => s \in next(last).seen
  BY <1>2, <1>4, <1>5, <1>7, <1>8, <1>m, <1>o
<1>12. ~PassesLastSeq => \A s \in next(last).seen : s <= next(last).after
  BY <1>2, <1>4, <1>7, <1>8, <1>h, <1>s
<1>13. ~PassesLastSeq => page \cap c.seen = {}
  BY <1>2, <1>4, <1>h, <1>s
<1> HIDE DEF next
<1>14. CursorIsCommitted'
  BY <1>3, <1>6, <1>11 DEF LogInv, CursorIsCommitted
<1>15. CursorIsHighest'
  BY <1>6, <1>12 DEF LogInv, CursorIsHighest
<1>16. CursorMissesNothing'
  BY <1>3, <1>6, <1>11 DEF LogInv, CursorMissesNothing
<1> QED
  BY <1>6, <1>10, <1>13, <1>14, <1>15, <1>16 DEF c, next

-----------------------------------------------------------------------------
(*                              Transactions                               *)

(* Begin, LockRow, CheckReferences and AppendAnother leave the log alone.   *)
LogQuiet(w) ==
  /\ UNCHANGED <<advisory, nextSeq, events, reader>>
  /\ tx'[w] \in Transaction
  /\ tx'[w].seqs # {} => /\ tx'[w].seqs = tx[w].seqs /\ tx'[w].task = tx[w].task
                         /\ tx'[w].pc \in {"append", "check", "wrote"}
  /\ \A v \in Writers : v # w => tx'[v] = tx[v]
  /\ tx' = [tx EXCEPT ![w] = tx'[w]]

(* They take no sequence number and publish none. *)
LEMMA QuietWriter ==
  ASSUME LogInv, NEW w \in Writers,
         \/ \E t \in Tasks, kind \in Kinds : Begin(w, t, kind)
         \/ LockRow(w) \/ CheckReferences(w) \/ AppendAnother(w)
  PROVE  LogQuiet(w) /\ held' \subseteq Writers \X Rows \X Modes
<1>0. /\ tx \in [Writers -> Transaction] /\ tx[w] \in Transaction
      /\ held \subseteq Writers \X Rows \X Modes
      /\ tx[w].kind \in Kinds
  BY DEF LogInv, TypeOK, Transaction
<1>1. CASE \E t \in Tasks, kind \in Kinds : Begin(w, t, kind)
  <2> PICK t \in Tasks, kind \in Kinds : Begin(w, t, kind)
    BY <1>1
  <2> DEFINE s == [pc |-> FirstStatement(kind), kind |-> kind, task |-> t, seqs |-> {}]
  <2>1. FirstStatement(kind) \in PCs
    BY DEF FirstStatement, PCs
  <2>2. s \in Transaction /\ s.seqs = {}
    BY <2>1 DEF Transaction
  <2>3. tx' = [tx EXCEPT ![w] = s] /\ UNCHANGED <<held, advisory, nextSeq, events, reader>>
    BY DEF Begin
  <2> HIDE DEF s
  <2> QED
    BY <1>0, <2>2, <2>3 DEF LogQuiet
<1>2. ASSUME NEW pc \in PCs, pc \in {"append", "check", "wrote"} \/ tx[w].seqs = {},
             tx' = [tx EXCEPT ![w].pc = pc],
             UNCHANGED <<advisory, nextSeq, events, reader>>
      PROVE  LogQuiet(w)
  <2> DEFINE s == [tx[w] EXCEPT !.pc = pc]
  <2>1. s \in Transaction /\ s.seqs = tx[w].seqs /\ s.task = tx[w].task /\ s.pc = pc
    BY <1>0, <1>2 DEF Transaction
  <2>2. tx' = [tx EXCEPT ![w] = s]
    BY <1>2
  <2> HIDE DEF s
  <2> QED
    BY <1>0, <1>2, <2>1, <2>2 DEF LogQuiet
<1>3. CASE LockRow(w)
  <2>1. /\ tx[w].pc \in Rows
        /\ held' = held \cup {<<w, tx[w].pc, Mode(tx[w].kind, tx[w].pc)>>}
        /\ tx' = [tx EXCEPT ![w].pc = AfterLock(tx[w].kind, tx[w].pc)]
        /\ UNCHANGED <<advisory, nextSeq, events, reader>>
    BY <1>3 DEF LockRow
  <2>2. AfterLock(tx[w].kind, tx[w].pc) \in PCs
    BY DEF AfterLock, PCs
  <2>3. Mode(tx[w].kind, tx[w].pc) \in Modes
    BY DEF Mode, Modes
  <2>4. tx[w].seqs = {}
    BY <2>1 DEF LogInv, AppendsAlone, Rows
  <2>5. LogQuiet(w)
    BY <1>2, <2>1, <2>2, <2>4
  <2>6. <<w, tx[w].pc, Mode(tx[w].kind, tx[w].pc)>> \in Writers \X Rows \X Modes
    BY <2>1, <2>3
  <2> QED
    BY <1>0, <2>1, <2>5, <2>6
<1>4. CASE CheckReferences(w)
  <2>1. /\ held' = held \cup {<<w, row, "share">> : row \in References(tx[w].kind)}
        /\ tx' = [tx EXCEPT ![w].pc = "wrote"]
        /\ UNCHANGED <<advisory, nextSeq, events, reader>>
    BY <1>4 DEF CheckReferences
  <2>2. References(tx[w].kind) \subseteq Rows /\ "share" \in Modes /\ "wrote" \in PCs
    BY DEF References, Rows, Modes, PCs
  <2>3. LogQuiet(w)
    BY <1>2, <2>1, <2>2
  <2>4. \A row \in References(tx[w].kind) : <<w, row, "share">> \in Writers \X Rows \X Modes
    BY <2>2
  <2> QED
    BY <1>0, <2>1, <2>3, <2>4
<1>5. CASE AppendAnother(w)
  BY <1>0, <1>2, <1>5 DEF AppendAnother, PCs
<1> QED
  BY <1>1, <1>3, <1>4, <1>5

(* Such a step preserves the log's invariant. *)
LEMMA QuietLog ==
  ASSUME LogInv, NEW w \in Writers, LogQuiet(w),
         held' \subseteq Writers \X Rows \X Modes
  PROVE  LogInv'
<1>1. tx' \in [Writers -> Transaction]
  BY DEF LogQuiet, LogInv, TypeOK
<1>2. \A v \in Writers : tx'[v].seqs # {} =>
         /\ tx'[v].seqs = tx[v].seqs /\ tx'[v].task = tx[v].task
         /\ tx'[v].pc \in {"append", "check", "wrote"}
  BY DEF LogQuiet, LogInv, AppendsAlone
<1>3. \A v \in Writers : IsFiniteSet(tx'[v].seqs) /\ \A s \in tx'[v].seqs : s < nextSeq
  BY <1>2, FS_EmptySet DEF LogInv, TypeOK
<1>4. TypeOK'
  BY <1>1, <1>3 DEF LogQuiet, LogInv, TypeOK
<1>5. AppendsAlone'
  <2>1. advisory' = advisory /\ events' = events
    BY DEF LogQuiet
  <2> QED
    BY <1>2, <2>1 DEF LogInv, AppendsAlone
<1>6. CursorIsCommitted' /\ CursorIsHighest' /\ CursorMissesNothing'
  BY DEF LogQuiet, LogInv, CursorIsCommitted, CursorIsHighest, CursorMissesNothing
<1> QED
  BY <1>4, <1>5, <1>6 DEF LogInv

(* The inserted number is above every other, and nobody else of the task    *)
(* has one that is not committed.                                           *)
LEMMA AppendLog ==
  ASSUME LogInv, NEW w \in Writers, AppendEvent(w)
  PROVE  LogInv'
<1> DEFINE t == tx[w].task
           s == [tx[w] EXCEPT !.pc = "check", !.seqs = @ \cup {nextSeq}]
<1>0. /\ tx \in [Writers -> Transaction] /\ tx[w] \in Transaction /\ t \in Tasks
      /\ nextSeq \in Nat \ {0} /\ advisory \in [Tasks -> SUBSET Writers]
      /\ tx[w].seqs \subseteq Nat \ {0} /\ IsFiniteSet(tx[w].seqs)
      /\ \A n \in tx[w].seqs : n < nextSeq
  BY DEF LogInv, TypeOK, Transaction
<1>1. /\ advisory' = [advisory EXCEPT ![t] = @ \cup {w}]
      /\ nextSeq' = nextSeq + 1
      /\ tx' = [tx EXCEPT ![w] = s]
      /\ held' = held /\ events' = events /\ reader' = reader
      /\ advisory[t] \subseteq {w}
  BY DEF AppendEvent, AdvisoryHolders
<1>2. /\ s \in Transaction /\ s.task = t /\ s.pc = "check"
      /\ s.seqs = tx[w].seqs \cup {nextSeq}
  BY <1>0 DEF Transaction, PCs
<1>3. IsFiniteSet(s.seqs)
  BY <1>0, <1>2, FS_AddElement
<1> HIDE DEF s, t
<1>4. /\ tx'[w] = s /\ \A v \in Writers : v # w => tx'[v] = tx[v]
      /\ tx' \in [Writers -> Transaction]
  BY <1>0, <1>1, <1>2
<1>5. /\ advisory'[t] = {w} /\ \A o \in Tasks : o # t => advisory'[o] = advisory[o]
      /\ advisory' \in [Tasks -> SUBSET Writers]
  BY <1>0, <1>1
<1>6. TypeOK'
  <2>1. \A v \in Writers : /\ IsFiniteSet(tx'[v].seqs)
                           /\ \A n \in tx'[v].seqs : n < nextSeq'
    <3> TAKE v \in Writers
    <3>2. CASE v = w
      <4>1. IsFiniteSet(tx'[v].seqs) /\ tx'[v].seqs = tx[w].seqs \cup {nextSeq}
        BY <1>2, <1>3, <1>4, <3>2
      <4>2. \A n \in tx[w].seqs \cup {nextSeq} : n < nextSeq'
        BY <1>0, <1>1
      <4> QED
        BY <4>1, <4>2
    <3>3. CASE v # w
      <4>1. tx'[v] = tx[v] /\ tx[v].seqs \subseteq Nat
        BY <1>4, <3>3 DEF LogInv, TypeOK, Transaction
      <4> QED
        BY <1>0, <1>1, <4>1 DEF LogInv, TypeOK
    <3> QED
      BY <3>2, <3>3
  <2>2. \A o \in Tasks : IsFiniteSet(events'[o]) /\ \A n \in events'[o] : n < nextSeq'
    BY <1>0, <1>1 DEF LogInv, TypeOK
  <2> QED
    BY <1>0, <1>1, <1>4, <1>5, <2>1, <2>2 DEF LogInv, TypeOK
<1>7. AppendsAlone'
  <2>1. \A v \in Writers : tx'[v].seqs # {} => /\ v \in advisory'[tx'[v].task]
                                              /\ tx'[v].pc \in {"append", "check", "wrote"}
    BY <1>0, <1>1, <1>2, <1>4, <1>5 DEF LogInv, AppendsAlone
  <2>2. \A o \in Tasks : \A u, v \in advisory'[o] : u = v
    BY <1>5 DEF LogInv, AppendsAlone
  <2>3. \A v \in Writers : \A n \in tx'[v].seqs, u \in events'[tx'[v].task] : u < n
    <3>1. \A n \in s.seqs, u \in events[t] : u < n
      BY <1>0, <1>2 DEF LogInv, TypeOK, AppendsAlone, t
    <3> QED
      BY <1>1, <1>2, <1>4, <3>1 DEF LogInv, AppendsAlone
  <2> QED
    BY <2>1, <2>2, <2>3 DEF AppendsAlone
<1>8. CursorIsCommitted' /\ CursorIsHighest' /\ CursorMissesNothing'
  BY <1>1 DEF LogInv, CursorIsCommitted, CursorIsHighest, CursorMissesNothing
<1> QED
  BY <1>6, <1>7, <1>8 DEF LogInv

(* The end of a transaction: what it appended is above every cursor. *)
LEMMA EndLog ==
  ASSUME LogInv, NEW w \in Writers, Commit(w) \/ Rollback(w)
  PROVE  /\ LogInv'
         /\ \A t \in Tasks : \A s \in events'[t] \ events[t], u \in events[t] : u < s
<1> DEFINE t == tx[w].task
<1>0. /\ tx \in [Writers -> Transaction] /\ tx[w] \in Transaction /\ t \in Tasks
      /\ advisory \in [Tasks -> SUBSET Writers]
      /\ held \subseteq Writers \X Rows \X Modes
      /\ events \in [Tasks -> SUBSET (Nat \ {0})]
      /\ nextSeq \in Nat \ {0}
      /\ tx[w].seqs \subseteq Nat \ {0} /\ IsFiniteSet(tx[w].seqs)
      /\ \A n \in tx[w].seqs : n < nextSeq
  BY DEF LogInv, TypeOK, Transaction
<1>1. /\ held' \subseteq held
      /\ advisory' = [o \in Tasks |-> advisory[o] \ {w}]
      /\ tx' = [tx EXCEPT ![w] = Idle]
      /\ nextSeq' = nextSeq /\ reader' = reader
  BY DEF Commit, Rollback, Release
<1>2. Idle \in Transaction /\ Idle.seqs = {}
  BY IdleIsTransaction DEF Idle
<1>3. PICK new \in SUBSET tx[w].seqs : events' = [events EXCEPT ![t] = @ \cup new]
  <2>1. CASE Commit(w)
    BY <1>0, <2>1 DEF Commit
  <2>2. CASE Rollback(w)
    <3>1. events' = [events EXCEPT ![t] = @ \cup {}]
      BY <1>0, <2>2 DEF Rollback
    <3> QED
      BY <3>1
  <2> QED
    BY <2>1, <2>2
<1> HIDE DEF t
<1>4. /\ \A v \in Writers : v # w => tx'[v] = tx[v]
      /\ tx'[w].seqs = {}
      /\ tx' \in [Writers -> Transaction]
  BY <1>0, <1>1, <1>2
<1>5. /\ events'[t] = events[t] \cup new
      /\ \A o \in Tasks : o # t => events'[o] = events[o]
      /\ events' \in [Tasks -> SUBSET (Nat \ {0})]
  BY <1>0, <1>3
<1>6. \A n \in new, u \in events[t] : u < n
  BY DEF LogInv, AppendsAlone, t
<1>7. TypeOK'
  <2>1. \A o \in Tasks : IsFiniteSet(events'[o]) /\ \A n \in events'[o] : n < nextSeq'
    <3>1. IsFiniteSet(new)
      BY <1>0, FS_Subset
    <3>2. IsFiniteSet(events[t] \cup new)
      BY <1>0, <3>1, FS_Union DEF LogInv, TypeOK
    <3> QED
      BY <1>0, <1>1, <1>5, <3>2 DEF LogInv, TypeOK
  <2>2. \A v \in Writers : IsFiniteSet(tx'[v].seqs) /\ \A n \in tx'[v].seqs : n < nextSeq'
    BY <1>1, <1>4, FS_EmptySet DEF LogInv, TypeOK
  <2>3. advisory' \in [Tasks -> SUBSET Writers] /\ held' \subseteq Writers \X Rows \X Modes
    BY <1>0, <1>1
  <2> QED
    BY <1>1, <1>4, <1>5, <2>1, <2>2, <2>3 DEF LogInv, TypeOK
<1>8. AppendsAlone'
  <2>1. \A v \in Writers : tx'[v].seqs # {} =>
           /\ v # w /\ tx'[v] = tx[v]
           /\ v \in advisory[tx[v].task] /\ tx[v].task \in Tasks
           /\ tx[v].pc \in {"append", "check", "wrote"}
    BY <1>4 DEF LogInv, AppendsAlone, TypeOK, Transaction
  <2>2. \A v \in Writers : tx'[v].seqs # {} => v \in advisory'[tx'[v].task]
    BY <1>1, <2>1
  <2>3. \A o \in Tasks : \A u, v \in advisory'[o] : u = v
    BY <1>1 DEF LogInv, AppendsAlone
  <2>4. \A v \in Writers : tx[v].task = t /\ v # w /\ tx[v].seqs # {} => new = {}
    BY <1>0, <2>1 DEF LogInv, AppendsAlone, t
  <2>5. \A v \in Writers : \A n \in tx'[v].seqs, u \in events'[tx'[v].task] : u < n
    BY <1>5, <2>1, <2>4 DEF LogInv, AppendsAlone
  <2> QED
    BY <2>1, <2>2, <2>3, <2>5 DEF AppendsAlone
<1>9. \A o \in Tasks : \A s \in events'[o] \ events[o], u \in events[o] : u < s
  BY <1>5, <1>6
<1>10. \A r \in Readers : /\ reader[r].task \in Tasks /\ reader[r].after \in Nat
  BY DEF LogInv, TypeOK, Cursor
<1>11. CursorIsCommitted' /\ CursorIsHighest'
  BY <1>1, <1>5, <1>10 DEF LogInv, CursorIsCommitted, CursorIsHighest
<1>12. CursorMissesNothing'
  <2> SUFFICES ASSUME NEW r \in Readers, NEW s \in events'[reader[r].task],
                      s <= reader[r].after
               PROVE  s \in reader[r].seen
    BY <1>1 DEF CursorMissesNothing
  <2>1. CASE s \in events[reader[r].task]
    BY <2>1 DEF LogInv, CursorMissesNothing
  <2>2. CASE s \notin events[reader[r].task]
    <3>1. reader[r].task = t /\ s \in new
      BY <1>5, <1>10, <2>2
    <3>2. reader[r].after < s
      BY <1>0, <1>6, <3>1 DEF LogInv, CursorIsCommitted
    <3> QED
      BY <1>0, <1>10, <3>1, <3>2
  <2> QED
    BY <2>1, <2>2
<1> QED
  BY <1>7, <1>8, <1>9, <1>11, <1>12 DEF LogInv

-----------------------------------------------------------------------------
(*                           The log's theorems                            *)

(* The invariant of the log is inductive, and commits keep the order. *)
LEMMA LogStep ==
  ASSUME LogInv, [Next]_vars
  PROVE  /\ LogInv'
         /\ \A t \in Tasks : \A s \in events'[t] \ events[t], u \in events[t] : u < s
         /\ ~PassesLastSeq => \A r \in Readers :
              reader'[r].page # reader[r].page => reader'[r].page \cap reader[r].seen = {}
<1>1. CASE UNCHANGED vars
  <2>1. UNCHANGED <<tx, held, advisory, nextSeq, events, reader>>
    BY <1>1 DEF vars
  <2> QED
    BY <2>1 DEF LogInv, TypeOK, AppendsAlone, CursorIsCommitted, CursorIsHighest,
          CursorMissesNothing
<1>2. ASSUME NEW w \in Writers,
             \/ \E t \in Tasks, kind \in Kinds : Begin(w, t, kind)
             \/ LockRow(w) \/ CheckReferences(w) \/ AppendAnother(w)
      PROVE  LogInv' /\ UNCHANGED <<events, reader>>
  BY <1>2, QuietWriter, QuietLog DEF LogQuiet
<1>3. ASSUME NEW w \in Writers, AppendEvent(w)
      PROVE  LogInv' /\ UNCHANGED <<events, reader>>
  BY <1>3, AppendLog DEF AppendEvent
<1>4. ASSUME NEW w \in Writers, Commit(w) \/ Rollback(w)
      PROVE  /\ LogInv' /\ reader' = reader
             /\ \A t \in Tasks : \A s \in events'[t] \ events[t], u \in events[t] : u < s
  BY <1>4, EndLog DEF Commit, Rollback, Release
<1>5. ASSUME NEW r \in Readers, NEW request \in Requests, ListEvents(r, request)
      PROVE  /\ LogInv' /\ events' = events
             /\ ~PassesLastSeq => reader'[r].page \cap reader[r].seen = {}
             /\ \A q \in Readers : q # r => reader'[q] = reader[q]
  <2>1. UNCHANGED <<tx, advisory, events>>
    BY <1>5 DEF ListEvents
  <2>2. AppendsAlone'
    BY <2>1 DEF LogInv, AppendsAlone
  <2> QED
    BY <1>5, <2>1, <2>2, ReadStep DEF LogInv
<1> QED
  <2>1. \/ UNCHANGED vars
        \/ \E w \in Writers :
             \/ \/ \E t \in Tasks, kind \in Kinds : Begin(w, t, kind)
                \/ LockRow(w) \/ CheckReferences(w) \/ AppendAnother(w)
             \/ AppendEvent(w)
             \/ Commit(w) \/ Rollback(w)
        \/ \E r \in Readers, request \in Requests : ListEvents(r, request)
    BY DEF Next
  <2>2. CASE UNCHANGED vars
    <3>1. events' = events /\ reader' = reader
      BY <2>2 DEF vars
    <3> QED
      BY <1>1, <2>2, <3>1
  <2>3. CASE ~UNCHANGED vars
    BY <1>2, <1>3, <1>4, <1>5, <2>1, <2>3
  <2> QED
    BY <2>2, <2>3

(* Type correctness. *)
THEOREM TypeCorrect == Spec => []TypeOK
<1>1. LogInv /\ [Next]_vars => LogInv'
  BY LogStep
<1>2. LogInv => TypeOK
  BY DEF LogInv
<1> QED
  BY InitInv, <1>1, <1>2, PTL DEF Spec

(* The advisory lock makes following by cursor safe: for any transactions   *)
(* that append meanwhile, in whatever order they commit or fail, and any    *)
(* limits, a reader has been given every event at or below its cursor.      *)
THEOREM NothingMissed == Spec => []CursorMissesNothing
<1>1. LogInv /\ [Next]_vars => LogInv'
  BY LogStep
<1>2. LogInv => CursorMissesNothing
  BY DEF LogInv
<1> QED
  BY InitInv, <1>1, <1>2, PTL DEF Spec

(* AppendEvent's numbers of one task become visible in their order. *)
THEOREM CommitOrder == Spec => SeqIsCommitOrder
<1>1. LogInv /\ [Next]_vars => LogInv'
  BY LogStep
<1>2. LogInv /\ [Next]_vars =>
        [\A t \in Tasks : \A s \in events'[t] \ events[t], u \in events[t] : u < s]_vars
  BY LogStep
<1> QED
  BY InitInv, <1>1, <1>2, PTL DEF Spec, SeqIsCommitOrder

(* A reader that passes the highest number it has seen gets each event once. *)
THEOREM OnceEach ==
  ASSUME ~PassesLastSeq
  PROVE  Spec => ReadsNothingTwice
<1>1. LogInv /\ [Next]_vars => LogInv'
  BY LogStep
<1>2. LogInv /\ [Next]_vars =>
        [\A r \in Readers :
           reader'[r].page # reader[r].page =>
             reader'[r].page \cap reader[r].seen = {}]_vars
  BY LogStep
<1> QED
  BY InitInv, <1>1, <1>2, PTL DEF Spec, ReadsNothingTwice

-----------------------------------------------------------------------------
(*                                 Locks                                   *)

(* The transactions that lock the task row before they do anything else. *)
Lockers == {"fenced", "apply", "cancel", "transition"}

(* Two transactions never hold conflicting locks on a row of one task, and  *)
(* the statement a transaction is at says what it holds.                    *)
LocksAgree ==
  \A v, w \in Writers : \A row \in Rows, m, n \in Modes :
    v # w /\ tx[v].task = tx[w].task /\ <<v, row, m>> \in held /\ <<w, row, n>> \in held =>
      ~Conflict(m, n)

HoldsAsStated(w) ==
  /\ tx[w].kind \in Lockers /\ tx[w].pc \in {"attempt", "append", "check", "wrote"} =>
       <<w, "task", Mode(tx[w].kind, "task")>> \in held
  /\ tx[w].kind = "renew" => tx[w].pc \in {"idle", "attempt", "wrote"}
  /\ \A m \in Modes : <<w, "task", m>> \in held =>
       tx[w].kind # "renew" /\ tx[w].pc \in {"attempt", "append", "check", "wrote"}
  /\ \A m \in Modes : <<w, "attempt", m>> \in held =>
       \/ tx[w].kind = "renew" /\ tx[w].pc = "wrote" /\ m = "nokey"
       \/ tx[w].kind # "renew" /\ tx[w].pc \in {"append", "check", "wrote"}

LocksFollow == \A w \in Writers : HoldsAsStated(w)

AdvisoryFollows ==
  \A t \in Tasks : \A w \in advisory[t] :
    tx[w].task = t /\ tx[w].pc \in {"append", "check", "wrote"} /\ tx[w].kind # "renew"

LockInv == LocksAgree /\ LocksFollow /\ AdvisoryFollows

(* A transaction past its locks waits for no other locker. *)
LEMMA PastLocks ==
  ASSUME TypeOK, LockInv, NEW w \in Writers, tx[w].kind \in Lockers,
         tx[w].pc \in {"append", "check", "wrote"},
         NEW v \in Writers, v \in Blockers(w)
  PROVE  tx[v].kind = "bare"
<1>0. /\ v # w /\ tx[v].kind \in Kinds
      /\ <<w, "task", Mode(tx[w].kind, "task")>> \in held
      /\ tx[w].task \in Tasks
  <2>1. tx[w].pc \notin Rows
    BY DEF Rows
  <2>2. v # w
    BY <2>1 DEF Blockers, Holders, AdvisoryHolders
  <2> QED
    BY <2>2 DEF LockInv, LocksFollow, HoldsAsStated, TypeOK, Transaction
<1>1. tx[v].task = tx[w].task
  BY <1>0 DEF Blockers, Holders, AdvisoryHolders, LockInv, AdvisoryFollows, Rows
<1>2. tx[v].kind # "renew" /\ tx[v].pc \in {"append", "check", "wrote", "attempt"}
  <2>1. CASE tx[w].pc = "append"
    BY <1>0, <2>1 DEF Blockers, AdvisoryHolders, LockInv, AdvisoryFollows, Rows
  <2>2. CASE tx[w].pc = "check"
    <3>1. PICK row \in Rows : v \in Holders(w, row, "share")
      BY <2>2 DEF Blockers, References, Rows
    <3>2. <<v, row, "update">> \in held
      BY <3>1 DEF Holders, Conflict, Modes
    <3> QED
      BY <3>2 DEF LockInv, LocksFollow, HoldsAsStated, Rows, Modes
  <2>3. tx[w].pc # "wrote"
    BY DEF Blockers, Rows
  <2> QED
    BY <2>1, <2>2, <2>3
<1>3. ASSUME tx[v].kind \in Lockers PROVE FALSE
  <2>1. <<v, "task", Mode(tx[v].kind, "task")>> \in held
    BY <1>2, <1>3 DEF LockInv, LocksFollow, HoldsAsStated
  <2>2. Conflict(Mode(tx[v].kind, "task"), Mode(tx[w].kind, "task"))
    BY DEF Conflict, Mode
  <2>3. Mode(tx[v].kind, "task") \in Modes /\ Mode(tx[w].kind, "task") \in Modes
    BY DEF Mode, Modes
  <2> QED
    BY <1>0, <1>1, <2>1, <2>2, <2>3 DEF LockInv, LocksAgree, Rows
<1> QED
  BY <1>0, <1>2, <1>3 DEF Kinds, Lockers

(* What waits for a locker before or between its locks is a locker further  *)
(* on, or a renewal that waits for nobody.                                  *)
LEMMA BeforeLocks ==
  ASSUME TypeOK, LockInv, NEW w \in Writers, tx[w].kind # "bare",
         tx[w].pc \in Rows, NEW v \in Writers, v \in Blockers(w), tx[v].kind # "bare"
  PROVE  /\ tx[w].pc = "task" => /\ tx[v].kind \in Lockers
                                 /\ tx[v].pc \in {"attempt", "append", "check", "wrote"}
         /\ tx[w].pc = "attempt" =>
              \/ tx[v].kind = "renew" /\ tx[v].pc = "wrote"
              \/ /\ tx[w].kind = "renew"
                 /\ tx[v].kind \in Lockers /\ tx[v].pc \in {"append", "check", "wrote"}
<1>0. tx[v].kind \in Kinds /\ tx[w].kind \in Kinds
  BY DEF TypeOK, Transaction
<1>1. /\ v # w /\ tx[v].task = tx[w].task
      /\ \E m \in Modes : <<v, tx[w].pc, m>> \in held
  <2>1. v \in Holders(w, tx[w].pc, Mode(tx[w].kind, tx[w].pc))
    BY DEF Blockers, Rows
  <2> QED
    BY <2>1 DEF Holders
<1>2. CASE tx[w].pc = "task"
  BY <1>0, <1>1, <1>2 DEF LockInv, LocksFollow, HoldsAsStated, Kinds, Lockers
<1>3. CASE tx[w].pc = "attempt"
  <2>1. \/ tx[v].kind = "renew" /\ tx[v].pc = "wrote"
        \/ tx[v].kind \in Lockers /\ tx[v].pc \in {"append", "check", "wrote"}
    BY <1>0, <1>1, <1>3 DEF LockInv, LocksFollow, HoldsAsStated, Kinds, Lockers
  <2>2. ASSUME tx[v].kind \in Lockers, tx[w].kind # "renew",
               tx[v].pc \in {"append", "check", "wrote"}
        PROVE  FALSE
    <3>1. /\ <<v, "task", Mode(tx[v].kind, "task")>> \in held
          /\ <<w, "task", Mode(tx[w].kind, "task")>> \in held
      BY <1>0, <1>3, <2>2 DEF LockInv, LocksFollow, HoldsAsStated, Kinds, Lockers
    <3>2. Conflict(Mode(tx[v].kind, "task"), Mode(tx[w].kind, "task"))
      BY DEF Conflict, Mode
    <3>3. Mode(tx[v].kind, "task") \in Modes /\ Mode(tx[w].kind, "task") \in Modes
      BY DEF Mode, Modes
    <3> QED
      BY <1>1, <3>1, <3>2, <3>3 DEF LockInv, LocksAgree, Rows
  <2> QED
    BY <1>3, <2>1, <2>2
<1> QED
  BY <1>2, <1>3 DEF Rows

(* So a circle of them would have a member that waits for none of them. *)
LEMMA NoCircle == TypeOK /\ LockInv => LockersNeverDeadlock
<1> SUFFICES ASSUME TypeOK, LockInv,
                    NEW S \in SUBSET {w \in Writers : tx[w].kind # "bare"},
                    \A w \in S : Blockers(w) \cap S # {}
             PROVE  S = {}
  BY DEF LockersNeverDeadlock
<1>0. \A w \in S : /\ w \in Writers /\ tx[w].kind # "bare"
                   /\ tx[w].kind = "renew" \/ tx[w].kind \in Lockers
                   /\ tx[w].pc \in PCs
  BY DEF TypeOK, Transaction, Kinds, Lockers
<1>1. \A w \in S : tx[w].pc \notin {"idle", "wrote"}
  BY DEF Blockers, Rows
<1>2. \A w \in S : tx[w].kind \in Lockers => tx[w].pc \notin {"append", "check"}
  BY <1>0, PastLocks
<1>3. \A w \in S : tx[w].kind = "renew" => tx[w].pc = "attempt"
  BY <1>0, <1>1 DEF LockInv, LocksFollow, HoldsAsStated
<1>4. \A w \in S : tx[w].pc \in Rows
  BY <1>0, <1>1, <1>2, <1>3 DEF PCs, Rows
<1>5. \A w \in S : tx[w].pc # "attempt"
  BY <1>0, <1>1, <1>2, <1>4, BeforeLocks
<1>6. \A w \in S : tx[w].pc # "task"
  BY <1>0, <1>1, <1>2, <1>4, <1>5, BeforeLocks
<1> QED
  BY <1>4, <1>5, <1>6 DEF Rows

(* At first nobody holds a lock. *)
LEMMA LockInit == Init => LockInv
<1> SUFFICES ASSUME Init PROVE LockInv
  OBVIOUS
<1>1. \A w \in Writers : tx[w].kind = "bare"
  BY DEF Init, Idle
<1> QED
  BY <1>1 DEF Init, LockInv, LocksAgree, LocksFollow, HoldsAsStated, AdvisoryFollows, Lockers

(* A transaction takes a lock nobody keeps it from, and comes to hold what  *)
(* its next statement says.                                                 *)
LEMMA LockStep ==
  ASSUME TypeOK, LockInv, NEW w \in Writers, LockRow(w)
  PROVE  LockInv'
<1> DEFINE row == tx[w].pc
           kind == tx[w].kind
           mode == Mode(kind, row)
           s == [tx[w] EXCEPT !.pc = AfterLock(kind, row)]
<1>0. /\ tx \in [Writers -> Transaction] /\ tx[w] \in Transaction /\ kind \in Kinds
      /\ row \in Rows
  BY DEF TypeOK, Transaction, LockRow
<1>1. /\ held' = held \cup {<<w, row, mode>>}
      /\ tx' = [tx EXCEPT ![w] = s] /\ advisory' = advisory
      /\ Blockers(w) = {}
  BY DEF LockRow
<1>2. /\ s.kind = kind /\ s.task = tx[w].task /\ s.pc = AfterLock(kind, row)
  BY <1>0 DEF Transaction
<1>3. /\ tx'[w] = s /\ \A v \in Writers : v # w => tx'[v] = tx[v]
  BY <1>0, <1>1
<1>4. Holders(w, row, mode) = {}
  BY <1>0, <1>1 DEF Blockers, Rows
<1>5. mode \in Modes /\ (kind = "renew" => mode = "nokey")
  BY DEF Mode, Modes
<1>6. /\ AfterLock(kind, row) \in {"attempt", "append", "wrote"}
      /\ row = "attempt" => AfterLock(kind, row) = IF kind = "renew" THEN "wrote" ELSE "append"
  BY DEF AfterLock
<1>7. kind = "renew" => row = "attempt"
  BY <1>0 DEF LockInv, LocksFollow, HoldsAsStated, Rows
<1>8. \A m \in Modes : <<w, "attempt", m>> \notin held
  BY <1>0 DEF LockInv, LocksFollow, HoldsAsStated, Rows
<1>9. \A m \in Modes : <<w, "task", m>> \in held => row = "attempt"
  BY <1>0 DEF LockInv, LocksFollow, HoldsAsStated, Rows
<1>10. \A v \in Writers, m \in Modes :
         v # w /\ tx[v].task = tx[w].task /\ <<v, row, m>> \in held => ~Conflict(m, mode)
  BY <1>4 DEF Holders
<1>11. row = "attempt" /\ kind \in Lockers => <<w, "task", Mode(kind, "task")>> \in held
  BY DEF LockInv, LocksFollow, HoldsAsStated
<1> HIDE DEF row, kind, mode, s
<1>12. LocksAgree'
  <2> SUFFICES ASSUME NEW u \in Writers, NEW v \in Writers, NEW x \in Rows,
                      NEW m \in Modes, NEW n \in Modes,
                      u # v, tx'[u].task = tx'[v].task,
                      <<u, x, m>> \in held', <<v, x, n>> \in held'
               PROVE  ~Conflict(m, n)
    BY DEF LocksAgree
  <2>1. tx[u].task = tx[v].task
    BY <1>2, <1>3
  <2>2. Conflict(m, n) = Conflict(n, m)
    BY DEF Conflict
  <2>3. CASE u # w /\ v # w
    BY <1>1, <2>1, <2>3 DEF LockInv, LocksAgree
  <2>4. ASSUME NEW p \in Writers, NEW a \in Modes, p # w, tx[p].task = tx[w].task,
               NEW b \in Modes, <<p, x, a>> \in held', <<w, x, b>> \in held'
        PROVE  ~Conflict(a, b)
    <3>1. <<p, x, a>> \in held
      BY <1>1, <2>4
    <3>2. <<w, x, b>> \in held \/ (x = row /\ b = mode)
      BY <1>1, <2>4
    <3> QED
      BY <1>10, <2>4, <3>1, <3>2 DEF LockInv, LocksAgree
  <2> QED
    BY <2>1, <2>2, <2>3, <2>4
<1>13. LocksFollow'
  <2> SUFFICES ASSUME NEW v \in Writers
               PROVE  /\ tx'[v].kind \in Lockers
                         /\ tx'[v].pc \in {"attempt", "append", "check", "wrote"} =>
                           <<v, "task", Mode(tx'[v].kind, "task")>> \in held'
                      /\ tx'[v].kind = "renew" => tx'[v].pc \in {"idle", "attempt", "wrote"}
                      /\ \A m \in Modes : <<v, "task", m>> \in held' =>
                           /\ tx'[v].kind # "renew"
                           /\ tx'[v].pc \in {"attempt", "append", "check", "wrote"}
                      /\ \A m \in Modes : <<v, "attempt", m>> \in held' =>
                           \/ /\ tx'[v].kind = "renew" /\ tx'[v].pc = "wrote"
                              /\ m = "nokey"
                           \/ /\ tx'[v].kind # "renew"
                              /\ tx'[v].pc \in {"append", "check", "wrote"}
    BY DEF LocksFollow, HoldsAsStated
  <2>1. CASE v # w
    BY <1>1, <1>3, <2>1 DEF LockInv, LocksFollow, HoldsAsStated
  <2>2. CASE v = w
    <3>1. tx'[v].kind = kind /\ tx'[v].pc = AfterLock(kind, row)
      BY <1>2, <1>3, <2>2
    <3>2. \A x \in Rows, m \in Modes : <<w, x, m>> \in held' <=>
            <<w, x, m>> \in held \/ (x = row /\ m = mode)
      BY <1>1
    <3>3. kind \in Lockers => <<v, "task", Mode(kind, "task")>> \in held'
      BY <1>0, <1>1, <1>11, <2>2 DEF Rows, mode
    <3>4. kind = "renew" => AfterLock(kind, row) = "wrote"
      BY <1>6, <1>7
    <3>5. \A m \in Modes : <<v, "task", m>> \in held' => kind # "renew"
      BY <1>7, <1>9, <2>2, <3>2 DEF Rows, LockInv, LocksFollow, HoldsAsStated, kind
    <3>6. \A m \in Modes : <<v, "attempt", m>> \in held' => row = "attempt" /\ m = mode
      BY <1>8, <2>2, <3>2 DEF Rows
    <3> QED
      BY <1>5, <1>6, <2>2, <3>1, <3>3, <3>4, <3>5, <3>6
  <2> QED
    BY <2>1, <2>2
<1>14. AdvisoryFollows'
  <2>1. \A t \in Tasks : w \notin advisory[t]
    BY <1>0 DEF LockInv, AdvisoryFollows, Rows, row
  <2> QED
    BY <1>1, <1>3, <2>1 DEF LockInv, AdvisoryFollows, TypeOK
<1> QED
  BY <1>12, <1>13, <1>14 DEF LockInv

(* The references of an event are locked when nobody has them FOR UPDATE. *)
LEMMA ReferenceStep ==
  ASSUME TypeOK, LockInv, NEW w \in Writers, CheckReferences(w)
  PROVE  LockInv'
<1> DEFINE kind == tx[w].kind
           s == [tx[w] EXCEPT !.pc = "wrote"]
<1>0. /\ tx \in [Writers -> Transaction] /\ tx[w] \in Transaction
      /\ tx[w].pc = "check" /\ References(kind) \subseteq Rows
  BY DEF TypeOK, CheckReferences, References, Rows
<1>1. /\ held' = held \cup {<<w, row, "share">> : row \in References(kind)}
      /\ tx' = [tx EXCEPT ![w] = s] /\ advisory' = advisory
      /\ Blockers(w) = {}
  BY DEF CheckReferences
<1>2. /\ s.kind = kind /\ s.task = tx[w].task /\ s.pc = "wrote"
  BY <1>0 DEF Transaction
<1> HIDE DEF s
<1>3. tx'[w] = s /\ \A v \in Writers : v # w => tx'[v] = tx[v]
  BY <1>0, <1>1
<1>4. \A row \in References(kind) : Holders(w, row, "share") = {}
  <2>1. Blockers(w) = UNION {Holders(w, row, "share") : row \in References(kind)}
    BY <1>0 DEF Blockers, Rows
  <2> QED
    BY <1>1, <2>1
<1>5. kind # "renew"
  BY <1>0 DEF LockInv, LocksFollow, HoldsAsStated
<1>6. \A v \in Writers, x \in References(kind), m \in Modes :
        v # w /\ tx[v].task = tx[w].task /\ <<v, x, m>> \in held => ~Conflict(m, "share")
  BY <1>4 DEF Holders
<1>7. \A v \in Writers, x \in Rows, m \in Modes :
        <<v, x, m>> \in held' =>
          \/ <<v, x, m>> \in held
          \/ v = w /\ x \in References(kind) /\ m = "share"
  BY <1>1
<1> HIDE DEF kind
<1>8. LocksAgree'
  <2> SUFFICES ASSUME NEW u \in Writers, NEW v \in Writers, NEW x \in Rows,
                      NEW m \in Modes, NEW n \in Modes,
                      u # v, tx'[u].task = tx'[v].task,
                      <<u, x, m>> \in held', <<v, x, n>> \in held'
               PROVE  ~Conflict(m, n)
    BY DEF LocksAgree
  <2>1. tx[u].task = tx[v].task
    BY <1>2, <1>3
  <2>2. Conflict(m, n) = Conflict(n, m)
    BY DEF Conflict
  <2>3. CASE <<u, x, m>> \in held /\ <<v, x, n>> \in held
    BY <2>1, <2>3 DEF LockInv, LocksAgree
  <2>4. CASE <<u, x, m>> \notin held
    <3>1. u = w /\ x \in References(kind) /\ m = "share" /\ <<v, x, n>> \in held
      BY <1>7, <2>4
    <3> QED
      BY <1>6, <2>1, <2>2, <3>1
  <2>5. CASE <<v, x, n>> \notin held
    <3>1. v = w /\ x \in References(kind) /\ n = "share" /\ <<u, x, m>> \in held
      BY <1>7, <2>5
    <3> QED
      BY <1>6, <2>1, <3>1
  <2> QED
    BY <2>3, <2>4, <2>5
<1>9. LocksFollow'
  <2>1. \A v \in Writers : v # w => tx'[v] = tx[v] /\
          \A x \in Rows, m \in Modes : <<v, x, m>> \in held' => <<v, x, m>> \in held
    BY <1>3, <1>7
  <2>2. tx'[w].kind = kind /\ tx'[w].pc = "wrote" /\ held \subseteq held'
    BY <1>1, <1>2, <1>3
  <2>3. kind \in Lockers => <<w, "task", Mode(kind, "task")>> \in held'
    BY <1>0, <2>2 DEF LockInv, LocksFollow, HoldsAsStated, kind
  <2>4. "task" \in Rows /\ "attempt" \in Rows
    BY DEF Rows
  <2> QED
    BY <1>5, <2>1, <2>2, <2>3, <2>4 DEF LockInv, LocksFollow, HoldsAsStated
<1>10. AdvisoryFollows'
  BY <1>1, <1>2, <1>3, <1>5 DEF LockInv, AdvisoryFollows, TypeOK
<1> QED
  BY <1>8, <1>9, <1>10 DEF LockInv

(* Steps that take no row lock. *)
LEMMA OtherLockSteps ==
  ASSUME TypeOK, LockInv, NEW w \in Writers,
         \/ \E t \in Tasks, kind \in Kinds : Begin(w, t, kind)
         \/ AppendEvent(w) \/ AppendAnother(w) \/ Commit(w) \/ Rollback(w)
  PROVE  LockInv'
<1>0. /\ tx \in [Writers -> Transaction] /\ tx[w] \in Transaction
      /\ advisory \in [Tasks -> SUBSET Writers] /\ tx[w].task \in Tasks
      /\ tx[w].kind \in Kinds
      /\ held \subseteq Writers \X Rows \X Modes
  BY DEF TypeOK, Transaction
<1>1. CASE \E t \in Tasks, kind \in Kinds : Begin(w, t, kind)
  <2> PICK t \in Tasks, kind \in Kinds : Begin(w, t, kind)
    BY <1>1
  <2> DEFINE s == [pc |-> FirstStatement(kind), kind |-> kind, task |-> t, seqs |-> {}]
  <2>1. tx' = [tx EXCEPT ![w] = s] /\ tx[w].pc = "idle" /\ held' = held /\ advisory' = advisory
    BY DEF Begin
  <2>2. /\ s.kind = kind /\ s.pc = FirstStatement(kind)
        /\ kind = "renew" => s.pc = "attempt"
        /\ kind \in Lockers => s.pc = "task"
    BY DEF FirstStatement, Lockers
  <2> HIDE DEF s
  <2>3. tx'[w] = s /\ \A v \in Writers : v # w => tx'[v] = tx[v]
    BY <1>0, <2>1
  <2>4. /\ \A m \in Modes : <<w, "task", m>> \notin held /\ <<w, "attempt", m>> \notin held
        /\ \A o \in Tasks : w \notin advisory[o]
    BY <2>1 DEF LockInv, LocksFollow, HoldsAsStated, AdvisoryFollows
  <2>5. LocksAgree'
    BY <2>1, <2>3, <2>4 DEF LockInv, LocksAgree, Rows
  <2>6. LocksFollow'
    <3>1. /\ tx'[w].kind \in Lockers => tx'[w].pc = "task"
          /\ tx'[w].kind = "renew" => tx'[w].pc = "attempt"
      BY <2>2, <2>3
    <3>2. /\ ~(tx'[w].kind \in Lockers /\ tx'[w].pc \in {"attempt", "append", "check", "wrote"})
          /\ tx'[w].kind = "renew" => tx'[w].pc \in {"idle", "attempt", "wrote"}
          /\ \A m \in Modes : <<w, "task", m>> \notin held' /\ <<w, "attempt", m>> \notin held'
      BY <2>1, <2>4, <3>1
    <3>3. held' = held
      BY <2>1
    <3>4. ASSUME NEW v \in Writers, v # w
          PROVE  HoldsAsStated(v)'
      BY <2>3, <3>3, <3>4 DEF LockInv, LocksFollow, HoldsAsStated
    <3>5. HoldsAsStated(w)'
      BY <3>2 DEF HoldsAsStated
    <3> QED
      BY <3>4, <3>5 DEF LocksFollow
  <2>7. AdvisoryFollows'
    BY <1>0, <2>1, <2>3, <2>4 DEF LockInv, AdvisoryFollows
  <2> QED
    BY <2>5, <2>6, <2>7 DEF LockInv
<1>2. ASSUME NEW pc \in {"check", "append"}, NEW s,
             s.pc = pc, s.kind = tx[w].kind, s.task = tx[w].task,
             tx[w].pc \in {"append", "wrote"}, tx[w].kind # "renew",
             tx' = [tx EXCEPT ![w] = s], held' = held,
             \A o \in Tasks : \A v \in advisory'[o] :
               v \in advisory[o] \/ (v = w /\ o = tx[w].task)
      PROVE  LockInv'
  <2>1. tx'[w] = s /\ \A v \in Writers : v # w => tx'[v] = tx[v]
    BY <1>0, <1>2
  <2>2. LocksAgree'
    BY <1>2, <2>1 DEF LockInv, LocksAgree
  <2>3. LocksFollow'
    <3>1. /\ tx'[w].kind = tx[w].kind /\ tx[w].kind # "renew"
          /\ tx'[w].pc \in {"append", "check", "wrote"}
          /\ tx[w].pc \in {"append", "check", "wrote"}
          /\ held' = held
      BY <1>2, <2>1
    <3> QED
      BY <2>1, <3>1 DEF LockInv, LocksFollow, HoldsAsStated
  <2>4. AdvisoryFollows'
    BY <1>0, <1>2, <2>1 DEF LockInv, AdvisoryFollows
  <2> QED
    BY <2>2, <2>3, <2>4 DEF LockInv
<1>3. CASE AppendEvent(w)
  <2> DEFINE s == [tx[w] EXCEPT !.pc = "check", !.seqs = @ \cup {nextSeq}]
  <2>1. /\ tx[w].pc = "append" /\ tx' = [tx EXCEPT ![w] = s] /\ held' = held
        /\ advisory' = [advisory EXCEPT ![tx[w].task] = @ \cup {w}]
    BY <1>3 DEF AppendEvent
  <2>2. s.pc = "check" /\ s.kind = tx[w].kind /\ s.task = tx[w].task
    BY <1>0 DEF Transaction
  <2>3. tx[w].kind # "renew"
    BY <2>1 DEF LockInv, LocksFollow, HoldsAsStated
  <2> HIDE DEF s
  <2>4. \A o \in Tasks : \A v \in advisory'[o] :
          v \in advisory[o] \/ (v = w /\ o = tx[w].task)
    BY <1>0, <2>1
  <2> QED
    BY <1>2, <2>1, <2>2, <2>3, <2>4
<1>4. CASE AppendAnother(w)
  <2> DEFINE s == [tx[w] EXCEPT !.pc = "append"]
  <2>1. /\ tx[w].pc = "wrote" /\ tx[w].kind = "fenced" /\ tx' = [tx EXCEPT ![w] = s]
        /\ held' = held /\ advisory' = advisory
    BY <1>4 DEF AppendAnother
  <2>2. s.pc = "append" /\ s.kind = tx[w].kind /\ s.task = tx[w].task
    BY <1>0 DEF Transaction
  <2> HIDE DEF s
  <2> QED
    BY <1>2, <2>1, <2>2
<1>5. CASE Commit(w) \/ Rollback(w)
  <2>1. /\ held' = {l \in held : l[1] # w}
        /\ advisory' = [t \in Tasks |-> advisory[t] \ {w}]
        /\ tx' = [tx EXCEPT ![w] = Idle]
    BY <1>5 DEF Commit, Rollback, Release
  <2>2. Idle.kind = "bare"
    BY DEF Idle
  <2>3. tx'[w] = Idle /\ \A v \in Writers : v # w => tx'[v] = tx[v]
    BY <1>0, <2>1
  <2>4. \A v \in Writers, x \in Rows, m \in Modes :
          <<v, x, m>> \in held' <=> v # w /\ <<v, x, m>> \in held
    BY <2>1
  <2>5. /\ "task" \in Rows /\ "attempt" \in Rows
        /\ \A kind, row : Mode(kind, row) \in Modes
    BY DEF Rows, Mode, Modes
  <2>6. LocksAgree'
    BY <2>3, <2>4 DEF LockInv, LocksAgree
  <2>7. LocksFollow'
    BY <2>2, <2>3, <2>4, <2>5 DEF LockInv, LocksFollow, HoldsAsStated, Lockers
  <2>8. AdvisoryFollows'
    BY <1>0, <2>1, <2>3 DEF LockInv, AdvisoryFollows
  <2> QED
    BY <2>6, <2>7, <2>8 DEF LockInv
<1> QED
  BY <1>1, <1>3, <1>4, <1>5

(* Whatever locks the task row first - the fence, Cancel, Apply, a          *)
(* transition - and the lease's renewal never wait for each other in a      *)
(* circle, however many there are.                                          *)
THEOREM OrderedLocks == Spec => []LockersNeverDeadlock
<1>1. LogInv /\ [Next]_vars => LogInv'
  BY LogStep
<1>2. LogInv => TypeOK
  BY DEF LogInv
<1>3. TypeOK /\ LockInv /\ [Next]_vars => LockInv'
  <2> SUFFICES ASSUME TypeOK, LockInv, [Next]_vars PROVE LockInv'
    OBVIOUS
  <2>1. CASE UNCHANGED <<tx, held, advisory>>
    BY <2>1 DEF LockInv, LocksAgree, LocksFollow, HoldsAsStated, AdvisoryFollows
  <2>2. ASSUME NEW r \in Readers, NEW request \in Requests, ListEvents(r, request)
        PROVE  UNCHANGED <<tx, held, advisory>>
    BY <2>2 DEF ListEvents
  <2> QED
    BY <2>1, <2>2, LockStep, ReferenceStep, OtherLockSteps DEF Next, vars
<1> QED
  BY InitInv, LockInit, NoCircle, <1>1, <1>2, <1>3, PTL DEF Spec
=============================================================================
