--------------------------- MODULE RequestsProofs ---------------------------
(***************************************************************************)
(* Proofs about Requests, for any schema, any processes and batches: the   *)
(* ConfigDB lock isolates a handle from its first write to its commit; and *)
(* no commit makes a table outgrow its max-elements.                       *)
(***************************************************************************)
EXTENDS Requests, FoldLemmas

\* The writes that are not committed are those of the holder of the lock.
HolderWrites == \A p \in Process : tx[p].over # NoRows => lock = p

\* The shape of the state that the steps rely on.
IsTx(t) == t = Tx(t.over, t.cache, t.counts, t.now, t.watched, t.stale)
Shape ==
  /\ DOMAIN tx = Process /\ tx = [p \in Process |-> tx[p]]
  /\ \A p \in Process : IsTx(tx[p])
  /\ db = [r \in Row |-> db[r]]
PcShape == DOMAIN pc = Process

IInv == Shape /\ PcShape /\ HolderWrites

\* Initially no handle has written.
LEMMA InitIInv == Init => IInv
<1> SUFFICES ASSUME Init PROVE IInv
  OBVIOUS
<1>1. \A p \in Process : tx[p] = NewTx
  BY DEF Init
<1>2. IsTx(NewTx) /\ NewTx.over = NoRows
  BY DEF IsTx, NewTx, Tx
<1>3. db = [r \in Row |-> db[r]]
  BY RequestsAssumption DEF Init
<1>4. DOMAIN tx = Process /\ DOMAIN pc = Process
  BY DEF Init
<1> QED
  BY <1>1, <1>2, <1>3, <1>4 DEF Init, IInv, Shape, PcShape, HolderWrites

\* The steps that write no row and do not commit leave the lock and the writes.
Quiet ==
  /\ db' = db /\ lock' = lock
  /\ DOMAIN tx' = Process /\ tx' = [q \in Process |-> tx'[q]]
  /\ \A q \in Process : IsTx(tx'[q]) /\ tx'[q].over = tx[q].over

\* A step that is quiet preserves the invariant.
LEMMA QuietStep ==
  ASSUME IInv, Quiet
  PROVE  (Shape /\ HolderWrites)'
  BY DEF IInv, Shape, HolderWrites, Quiet

\* Steps of a process that leave the transactions alone.
LEMMA UnchangedIsQuiet ==
  ASSUME Shape, UNCHANGED <<db, lock, tx>>
  PROVE  Quiet
  BY DEF Shape, Quiet

\* AppendWatchTx adds tables and nothing else.
LEMMA WatchIsQuiet ==
  ASSUME Shape, NEW p \in Process, Watch(p)
  PROVE  Quiet
<1>1. /\ db' = db /\ lock' = lock
      /\ \E w : tx' = [tx EXCEPT ![p].watched = w]
  BY DEF Watch
<1>2. PICK w : tx' = [tx EXCEPT ![p].watched = w]
  BY <1>1
<1>3. DOMAIN tx' = Process /\ tx' = [q \in Process |-> tx'[q]]
  BY <1>2 DEF Shape
<1>4. ASSUME NEW q \in Process
      PROVE  IsTx(tx'[q]) /\ tx'[q].over = tx[q].over
  <2>1. IsTx(tx[q])
    BY DEF Shape
  <2>2. tx'[q] = IF q = p THEN [tx[q] EXCEPT !.watched = w] ELSE tx[q]
    BY <1>2 DEF Shape
  <2> QED
    BY <2>1, <2>2 DEF IsTx, Tx
<1> QED
  BY <1>1, <1>3, <1>4 DEF Quiet

\* doCVL changes the CVL session and what is to be written.
LEMMA ValidateIsQuiet ==
  ASSUME Shape, NEW p \in Process, Validate(p)
  PROVE  Quiet
<1>1. /\ db' = db /\ lock' = lock
      /\ \E a, b, c : tx' = [tx EXCEPT ![p].cache = a, ![p].counts = b,
                                     ![p].now = c]
  <2> DEFINE edits == EditsOf(View(p), Head(todo[p]))
             e == ValidateEditConfig(View(p), tx[p].cache, tx[p].counts, edits)
  <2>1. tx' = [tx EXCEPT
             ![p].cache = CacheAfter(@, edits, e),
             ![p].counts = CountsAfter(View(p), @, edits),
             ![p].now = IF e = "ok" THEN edits ELSE <<>>]
    BY DEF Validate
  <2>2. tx' = [tx EXCEPT
             ![p].cache = CacheAfter(tx[p].cache, edits, e),
             ![p].counts = CountsAfter(View(p), tx[p].counts, edits),
             ![p].now = IF e = "ok" THEN edits ELSE <<>>]
    BY <2>1
  <2> HIDE DEF edits, e
  <2>3. db' = db /\ lock' = lock
    BY DEF Validate
  <2> QED
    BY <2>2, <2>3
<1>2. PICK a, b, c : tx' = [tx EXCEPT ![p].cache = a, ![p].counts = b,
                                     ![p].now = c]
  BY <1>1
<1>3. DOMAIN tx' = Process /\ tx' = [q \in Process |-> tx'[q]]
  BY <1>2 DEF Shape
<1>4. ASSUME NEW q \in Process
      PROVE  IsTx(tx'[q]) /\ tx'[q].over = tx[q].over
  <2>1. IsTx(tx[q])
    BY DEF Shape
  <2>2. tx'[q] = IF q = p
                 THEN [tx[q] EXCEPT !.cache = a, !.counts = b, !.now = c]
                 ELSE tx[q]
    BY <1>2 DEF Shape
  <2> QED
    BY <2>1, <2>2 DEF IsTx, Tx
<1> QED
  BY <1>1, <1>3, <1>4 DEF Quiet

\* An edit that the lock refuses is forgotten.
LEMMA LockRefusedIsQuiet ==
  ASSUME Shape, NEW p \in Process, LockRefused(p)
  PROVE  Quiet
<1>1. db' = db /\ lock' = lock /\ tx' = [tx EXCEPT ![p].now = <<>>]
  BY DEF LockRefused
<1>3. DOMAIN tx' = Process /\ tx' = [q \in Process |-> tx'[q]]
  BY <1>1 DEF Shape
<1>4. ASSUME NEW q \in Process
      PROVE  IsTx(tx'[q]) /\ tx'[q].over = tx[q].over
  <2>1. IsTx(tx[q])
    BY DEF Shape
  <2>2. tx'[q] = IF q = p THEN [tx[q] EXCEPT !.now = <<>>] ELSE tx[q]
    BY <1>1 DEF Shape
  <2> QED
    BY <2>1, <2>2 DEF IsTx, Tx
<1> QED
  BY <1>1, <1>3, <1>4 DEF Quiet

\* A write is made with the lock, which no other process holds then.
LEMMA WriteStep ==
  ASSUME IInv, NEW p \in Process, Write(p)
  PROVE  (Shape /\ HolderWrites)'
<1>1. /\ db' = db /\ lock' = p /\ lock \in {None, p}
      /\ \E a : tx' = [tx EXCEPT ![p].over = a, ![p].now = <<>>]
  <2> DEFINE row == Head(todo[p]).row
             w == Written(tx[p].now, View(p)[row])
  <2>1. tx' = [tx EXCEPT ![p].over = With(@, row, w), ![p].now = <<>>]
    BY DEF Write
  <2>2. tx' = [tx EXCEPT ![p].over = With(tx[p].over, row, w), ![p].now = <<>>]
    BY <2>1
  <2> HIDE DEF row, w
  <2>3. db' = db /\ lock' = p /\ lock \in {None, p}
    BY DEF Write, Lockable
  <2> QED
    BY <2>2, <2>3
<1>2. PICK a : tx' = [tx EXCEPT ![p].over = a, ![p].now = <<>>]
  BY <1>1
<1>3. DOMAIN tx' = Process /\ tx' = [q \in Process |-> tx'[q]]
  BY <1>2 DEF IInv, Shape
<1>4. ASSUME NEW q \in Process
      PROVE  IsTx(tx'[q]) /\ (tx'[q].over # NoRows => lock' = q)
  <2>1. CASE q = p
    <3>1. IsTx(tx[p])
      BY DEF IInv, Shape
    <3>2. tx'[p] = [tx[p] EXCEPT !.over = a, !.now = <<>>]
      BY <1>2 DEF IInv, Shape
    <3> QED
      BY <1>1, <2>1, <3>1, <3>2 DEF IsTx, Tx
  <2>2. CASE q # p
    <3>1. tx'[q] = tx[q]
      BY <1>2, <2>2 DEF IInv, Shape
    <3>2. lock # q
      BY <1>1, <2>2, RequestsAssumption
    <3> QED
      BY <3>1, <3>2 DEF IInv, Shape, HolderWrites
  <2> QED
    BY <2>1, <2>2
<1> QED
  BY <1>1, <1>3, <1>4 DEF IInv, Shape, HolderWrites

\* A process without the lock has nothing to commit.
LEMMA CommitWrites ==
  ASSUME IInv, NEW p \in Process, Commit(p), db' # db
  PROVE  Commits(p) /\ lock = p
<1>1. Committed(p) /\ db' = View(p) /\ Goto(p, "done")
  BY DEF Commit
<1>2. pc[p] = "next" /\ pc'[p] = "done"
  BY <1>1 DEF Commit, Goto, IInv, PcShape
<1>3. tx[p].over # NoRows
  <2> SUFFICES ASSUME tx[p].over = NoRows PROVE FALSE
    OBVIOUS
  <2>1. View(p) = db
    BY DEF IInv, Shape, View, NoRows
  <2> QED
    BY <1>1, <2>1
<1> QED
  BY <1>2, <1>3 DEF Commits, IInv, HolderWrites

\* Every step goes to another place or stays.
LEMMA PcStep ==
  ASSUME PcShape, [Next]_vars
  PROVE  PcShape'
<1>1. ASSUME NEW p \in Process, NEW place, Goto(p, place)
      PROVE  PcShape'
  BY <1>1 DEF PcShape, Goto
<1>2. CASE UNCHANGED pc
  BY <1>2 DEF PcShape
<1>3. ASSUME NEW p \in Process, Begin(p) \/ Step(p)
      PROVE  UNCHANGED pc \/ \E place : Goto(p, place)
  <2>1. ASSUME NotFound(p) PROVE \E place : Goto(p, place)
    BY <2>1 DEF NotFound
  <2>2. ASSUME NEW e, ReturnsError(p, e) PROVE \E place : Goto(p, place)
    BY <2>1, <2>2 DEF ReturnsError
  <2>3. CASE Validate(p)
    BY <2>2, <2>3 DEF Validate
  <2>4. CASE LockRefused(p)
    BY <2>2, <2>4 DEF LockRefused
  <2>5. CASE TranslateNotFound(p)
    BY <2>1, <2>5 DEF TranslateNotFound
  <2>6. CASE Commit(p)
    BY <2>6 DEF Commit
  <2>7. CASE Begin(p) \/ Translate(p) \/ Watch(p) \/ ExpandItem(p) \/ Write(p)
             \/ Processed(p) \/ NextRequest(p) \/ Close(p)
    BY <2>7 DEF Begin, Translate, Watch, ExpandItem, Write, Processed,
                NextRequest, Close
  <2> QED
    BY <1>3, <2>3, <2>4, <2>5, <2>6, <2>7 DEF Step
<1> QED
  BY <1>1, <1>2, <1>3 DEF Next, vars

\* A commit marks transactions as overtaken, and leaves the lock.
LEMMA CommitStep ==
  ASSUME IInv, NEW p \in Process, Commit(p)
  PROVE  (Shape /\ HolderWrites)'
<1>1. CASE ~Committed(p)
  <2>1. UNCHANGED <<db, lock, tx>>
    BY <1>1 DEF Commit
  <2> QED
    BY <2>1, UnchangedIsQuiet, QuietStep DEF IInv
<1>2. CASE Committed(p)
  <2>1. /\ db' = View(p) /\ lock' = lock
        /\ tx' = [q \in Process |->
             IF q # p /\ tx[q].watched \cap WrittenTables(p) # {}
             THEN [tx[q] EXCEPT !.stale = TRUE] ELSE tx[q]]
    BY <1>2 DEF Commit
  <2>2. db' = [r \in Row |-> db'[r]]
    BY <2>1 DEF View
  <2>3. ASSUME NEW q \in Process
        PROVE  IsTx(tx'[q]) /\ tx'[q].over = tx[q].over
    <3>1. IsTx(tx[q])
      BY DEF IInv, Shape
    <3>2. \/ tx'[q] = [tx[q] EXCEPT !.stale = TRUE]
          \/ tx'[q] = tx[q]
      BY <2>1
    <3> QED
      BY <3>1, <3>2 DEF IsTx, Tx
  <2> QED
    BY <2>1, <2>2, <2>3 DEF IInv, Shape, HolderWrites
<1> QED
  BY <1>1, <1>2

\* DeleteDB forgets the writes, and frees the lock if it is its own.
LEMMA CloseStep ==
  ASSUME IInv, NEW p \in Process, Close(p)
  PROVE  (Shape /\ HolderWrites)'
<1>1. /\ db' = db /\ lock' = (IF lock = p THEN None ELSE lock)
      /\ tx' = [tx EXCEPT ![p] = NewTx]
  BY DEF Close
<1>2. IsTx(NewTx) /\ NewTx.over = NoRows
  BY DEF IsTx, NewTx, Tx
<1>3. DOMAIN tx' = Process /\ tx' = [q \in Process |-> tx'[q]]
  BY <1>1 DEF IInv, Shape
<1>4. ASSUME NEW q \in Process
      PROVE  IsTx(tx'[q]) /\ (tx'[q].over # NoRows => lock' = q)
  <2>1. tx'[q] = IF q = p THEN NewTx ELSE tx[q]
    BY <1>1 DEF IInv, Shape
  <2>2. CASE q = p
    BY <1>2, <2>1, <2>2
  <2>3. CASE q # p
    BY <1>1, <2>1, <2>3 DEF IInv, Shape, HolderWrites
  <2> QED
    BY <2>2, <2>3
<1> QED
  BY <1>1, <1>3, <1>4 DEF IInv, Shape, HolderWrites

\* The steps that leave ConfigDB, the lock and the transactions alone.
Aside(p) ==
  Begin(p) \/ Translate(p) \/ TranslateNotFound(p) \/ ExpandItem(p)
    \/ Processed(p) \/ NextRequest(p)

\* They do.
LEMMA AsideIsUnchanged ==
  ASSUME NEW p \in Process, Aside(p)
  PROVE  UNCHANGED <<db, lock, tx>>
  BY DEF Aside, Begin, Translate, TranslateNotFound, ExpandItem, Processed,
         NextRequest

\* Every step preserves the invariant.
LEMMA IInvStep ==
  ASSUME IInv, [Next]_vars
  PROVE  IInv'
<1>1. PcShape'
  BY PcStep DEF IInv
<1>2. CASE UNCHANGED vars
  BY <1>1, <1>2, UnchangedIsQuiet, QuietStep DEF IInv, vars
<1>3. ASSUME NEW p \in Process, Begin(p) \/ Step(p)
      PROVE  (Shape /\ HolderWrites)'
  <2>1. CASE Aside(p)
    BY <2>1, AsideIsUnchanged, UnchangedIsQuiet, QuietStep DEF IInv
  <2>2. CASE Watch(p)
    BY <2>2, WatchIsQuiet, QuietStep DEF IInv
  <2>3. CASE Validate(p)
    BY <2>3, ValidateIsQuiet, QuietStep DEF IInv
  <2>4. CASE LockRefused(p)
    BY <2>4, LockRefusedIsQuiet, QuietStep DEF IInv
  <2>5. CASE Write(p)
    BY <2>5, WriteStep
  <2>6. CASE Commit(p)
    BY <2>6, CommitStep
  <2>7. CASE Close(p)
    BY <2>7, CloseStep
  <2> QED
    BY <1>3, <2>1, <2>2, <2>3, <2>4, <2>5, <2>6, <2>7 DEF Step, Aside
<1> QED
  BY <1>1, <1>2, <1>3 DEF Next, IInv

\* A handle that has written holds the ConfigDB lock (doWrite), so that two
\* handles never have uncommitted writes at once.
THEOREM HolderWritesAlways == Spec => []HolderWrites
<1>1. IInv => HolderWrites
  BY DEF IInv
<1> QED
  BY InitIInv, IInvStep, <1>1, PTL DEF Spec

\* Only a commit changes ConfigDB, and when a handle has written only its own:
\* the others that may still commit have nothing to write.
LEMMA ChangesAreCommits ==
  ASSUME IInv, Next, db' # db
  PROVE  \E p \in Process : Commits(p) /\ lock = p
<1>1. PICK p \in Process : Begin(p) \/ Step(p)
  BY DEF Next
<1>2. Commit(p)
  <2>1. ~Aside(p)
    BY AsideIsUnchanged
  <2>2. ~Watch(p) /\ ~Validate(p) /\ ~LockRefused(p) /\ ~Write(p) /\ ~Close(p)
    BY DEF Watch, Validate, LockRefused, Write, Close
  <2> QED
    BY <1>1, <2>1, <2>2 DEF Step, Aside
<1> QED
  BY <1>2, CommitWrites

\* Once a handle has written, nothing but its own commit changes ConfigDB: what
\* it reads until then stays true.
THEOREM WriterIsAloneAlways == Spec => WriterIsAlone
<1>1. ASSUME IInv, [Next]_vars
      PROVE  [\A p \in Process :
                tx[p].over # NoRows /\ db' # db => Commits(p)]_vars
  <2>1. CASE UNCHANGED vars
    BY <2>1
  <2>2. CASE Next
    <3>1. ASSUME NEW p \in Process, tx[p].over # NoRows, db' # db
          PROVE  Commits(p)
      <4>1. lock = p
        BY <1>1, <3>1 DEF IInv, HolderWrites
      <4> QED
        BY <1>1, <2>2, <3>1, <4>1, ChangesAreCommits
    <3> QED
      BY <3>1
  <2> QED
    BY <1>1, <2>1, <2>2
<1> QED
  BY InitIInv, IInvStep, <1>1, PTL DEF Spec, WriterIsAlone

-----------------------------------------------------------------------------
(***************************************************************************)
(* The inductive invariant for the sizes of tables, as operators of the    *)
(* part of the state that concerns one process.                            *)
(***************************************************************************)
ViewOf(d, over) == [r \in Row |-> IF r \in DOMAIN over THEN over[r] ELSE d[r]]

\* The tables that the DELETEs of a batch may take rows from.
TablesDeleted(b) == UNION {DeletedTables(r) : r \in ToSet(b.requests)}

\* Items whose work is to delete rows.
DeletesRow(i) == i.do = "delete" /\ i.data = Absent
Deleting(i) == i.do \in {"DeleteEntry", "prefix", "rows", "table"} \/ DeletesRow(i)

Kinds == Calls \cup {"create", "update", "replace", "delete", "table", "rows", "prefix"}

\* An item deletes rows of the tables D, or writes to a table in W.
ItemOK(i, D, W) ==
  /\ i.do \in Kinds
  /\ i.do \notin {"table", "rows", "prefix"} => i.row \in Row
  /\ i.do = "DeleteEntryFields" => DOMAIN i.data # {}
  /\ Deleting(i) => i.row[1] \in D
  /\ i.do = "table" \/ DeletesRow(i) => ChildTables(i.row[1]) \subseteq D
  /\ ~Deleting(i) => i.row[1] \in W

\* Item b comes after a: no row is deleted twice, and all work is of a kind.
Apart(a, b) ==
  /\ a.do = "DeleteEntry" /\ b.do = "DeleteEntry" => a.row # b.row
  /\ a.do = "prefix" /\ b.do \in {"prefix", "DeleteEntry"} => a.row[1] # b.row[1]
  /\ a.do \in {"table", "rows"} => b.do \in {"table", "rows"}
  /\ ~DeletesRow(a) /\ ~DeletesRow(b)
  /\ Deleting(a) <=> Deleting(b)

\* The rows that are about to be deleted are there.
Present(view, i) ==
  i.do = "DeleteEntry" \/ DeletesRow(i) => IsPopulated(view[i.row])

IsSequence(s) == \E S : s \in Seq(S)
TodoOK(s, D, W) ==
  /\ IsSequence(s)
  /\ \A n \in DOMAIN s : ItemOK(s[n], D, W)
  /\ \A m, n \in DOMAIN s : m < n => Apart(s[m], s[n])
AllPresent(view, s) == \A n \in DOMAIN s : Present(view, s[n])

\* The tables that an item may be of before they are watched.
Watchable(place, watched) ==
  IF place \in {"process", "write"} THEN watched ELSE Table

Places == {"idle", "translate", "watch", "process", "write", "next", "done", "failed"}
Working == {"watch", "process", "write"}

\* Where a batch is, and what there is then.
PhaseOK(place, b, n, s, t) ==
  /\ place \in Places
  /\ IF place = "idle" THEN t = NewTx
     ELSE IsBatch(b) /\ n \in 1..Len(b.requests)
  /\ place \notin Working => s = <<>>
  /\ place = "write" =>
       /\ s # <<>> /\ IsCall(Head(s))
       /\ Head(s).do = "DeleteEntry" =>
            t.now = <<Edit(Head(s).row, "delete", Absent)>>

\* What there may be of table k when the edits of call h are accepted.
Coming(view, h, k) ==
  IF h.do = "DeleteEntry" THEN Existing(view, k) \ {h.row}
  ELSE Existing(view, k) \cup {r \in RowsOf(k) : r = h.row}
MayBe(d, place, s, t, k) ==
  IF place = "write" THEN Coming(ViewOf(d, t.over), Head(s), k)
  ELSE Existing(ViewOf(d, t.over), k)

CountsType == UNION {[S -> Nat] : S \in SUBSET Table}

\* The counted size covers the rows E of table k; if it is over the limit, or
\* the table has not been counted, there are no others than X of ConfigDB.
Covers(E, X, counts, k) ==
  /\ k \in DOMAIN counts => Cardinality(E) <= counts[k]
  /\ k \notin DOMAIN counts \/ counts[k] > MaxElements[k] => E \subseteq X

\* M: the tables that may be miscounted.
SizesOK(d, place, s, t, D, M) ==
  /\ t.counts \in CountsType
  /\ DOMAIN t.counts \subseteq D \cup t.watched
  /\ \A r \in DOMAIN t.over : r \in Row /\ r[1] \in D \cup t.watched
  /\ ~t.stale /\ place \notin {"done", "failed"} =>
       \A k \in DOMAIN MaxElements \ M :
         Covers(MayBe(d, place, s, t, k), Existing(d, k), t.counts, k)

\* lap: another batch was committed.  ign: an error was ignored.
ProcessInv(d, place, b, n, s, t, lap, ign) ==
  /\ PhaseOK(place, b, n, s, t)
  /\ TodoOK(s, TablesDeleted(b), Watchable(place, t.watched))
  /\ lap \/ ign \/ AllPresent(ViewOf(d, t.over), s)
  /\ SizesOK(d, place, s, t, TablesDeleted(b),
             IF lap \/ ign THEN TablesDeleted(b) ELSE {})

SizesInv(p) ==
  ProcessInv(db, pc[p], batch[p], at[p], todo[p], tx[p], overlap[p], ignored[p])

-----------------------------------------------------------------------------
(***************************************************************************)
(* The tables that a table depends on.                                     *)
(***************************************************************************)
\* A table depends on itself (GetDepTables).
LEMMA DepTablesHasTable ==
  ASSUME NEW t \in Table
  PROVE  t \in DepTables(t)
<1> DEFINE N == Cardinality(Table)
           more == [S \in SUBSET Table |->
                      S \cup {u \in Table : \E c \in S : RefersToTable(c, u)}]
           Is(f) == f = [n \in 0..N |->
                           IF n = 0 THEN {t}
                           ELSE f[n - 1] \cup
                                {u \in Table : \E c \in f[n - 1] : RefersToTable(c, u)}]
           reach == CHOOSE f : Is(f)
<1>1. N \in Nat
  BY SchemaAssumption, FS_CardinalityType
<1>2. more \in [SUBSET Table -> SUBSET Table]
  OBVIOUS
<1>3. PICK f \in [0..N -> SUBSET Table] :
        \A n \in 0..N : f[n] = IF n = 0 THEN {t} ELSE more[f[n - 1]]
  <2> DEFINE A == SUBSET Table
             b == {t}
  <2>1. b \in A /\ more \in [A -> A]
    BY <1>2
  <2> HIDE DEF more, N, A, b
  <2>2. \E f \in [0..N -> A] : IsIteration(f, more, b, N)
    BY <1>1, <2>1, IterationExists
  <2> QED
    BY <2>2 DEF A, b, IsIteration
<1>4. Is(f)
  <2>1. ASSUME NEW n \in 0..N, n # 0
        PROVE  more[f[n - 1]] = f[n - 1] \cup
                 {u \in Table : \E c \in f[n - 1] : RefersToTable(c, u)}
    <3>1. n - 1 \in 0..N
      BY <1>1, <2>1
    <3> QED
      BY <1>3, <3>1
  <2> HIDE DEF more
  <2> QED
    BY <1>3, <2>1
<1>5. Is(reach)
  BY <1>4
<1> HIDE DEF reach, N
<1>50. /\ reach[0] = {t}
       /\ \A n \in 0..N : n # 0 => reach[n - 1] \subseteq reach[n]
  BY <1>1, <1>5
<1> DEFINE T == {n \in Nat : n <= N => t \in reach[n]}
<1>6. 0 \in T
  BY <1>1, <1>50
<1>7. ASSUME NEW n \in T
      PROVE  n + 1 \in T
  <2>1. n + 1 <= N => n + 1 \in 0..N /\ n <= N /\ (n + 1) - 1 = n /\ n + 1 # 0
    BY <1>1
  <2>2. n + 1 <= N => reach[n] \subseteq reach[n + 1]
    BY <1>50, <2>1
  <2> QED
    BY <2>1, <2>2
<1>8. T \in SUBSET Nat
  OBVIOUS
<1> HIDE DEF T
<1>9. T = Nat
  BY <1>6, <1>7, <1>8, NatSetInduction
<1>10. t \in reach[N]
  BY <1>1, <1>9 DEF T
<1> QED
  BY <1>10 DEF DepTables, reach, N

(***************************************************************************)
(* The edits of a call, and what CVL makes of them.                        *)
(***************************************************************************)
\* Edits of a row that is to be there before and after.
Modifies(edits, row) ==
  \/ \E x : edits = <<Edit(row, "update", x)>>
  \/ \E x : DOMAIN x # {} /\ edits = <<Edit(row, "delete", x)>>
  \/ \E x, y : /\ DOMAIN y # {}
               /\ edits = <<Edit(row, "update", x), Edit(row, "delete", y)>>
Creates(edits, row) == \E x : edits = <<Edit(row, "create", x)>>

\* A call deletes a row, creates one or modifies one.
LEMMA EditsCases ==
  ASSUME NEW view, NEW c, IsCall(c),
         c.do = "DeleteEntryFields" => DOMAIN c.data # {}
  PROVE  IF c.do = "DeleteEntry"
         THEN EditsOf(view, c) = <<Edit(c.row, "delete", Absent)>>
         ELSE Creates(EditsOf(view, c), c.row) \/ Modifies(EditsOf(view, c), c.row)
<1>1. CASE c.do = "SetEntry"
  <2> DEFINE y == [f \in DOMAIN view[c.row] \ DOMAIN c.data |-> {}]
  <2>1. y = Absent \/ DOMAIN y # {}
    BY DEF Absent
  <2> HIDE DEF y
  <2>2. EditsOf(view, c) =
          IF ~IsPopulated(view[c.row]) THEN <<Edit(c.row, "create", c.data)>>
          ELSE <<Edit(c.row, "update", c.data)>> \o
               (IF y = Absent THEN <<>> ELSE <<Edit(c.row, "delete", y)>>)
    BY <1>1 DEF EditsOf, y
  <2>3. ASSUME NEW a, NEW b
        PROVE  <<a>> \o <<>> = <<a>> /\ <<a>> \o <<b>> = <<a, b>>
    <3>1. <<a>> \in Seq({a, b}) /\ <<b>> \in Seq({a, b}) /\ <<a, b>> \in Seq({a, b})
      OBVIOUS
    <3>2. <<a>> \o <<b>> \in Seq({a, b}) /\ Len(<<a>> \o <<b>>) = 2
          /\ \A i \in 1..2 : (<<a>> \o <<b>>)[i] = <<a, b>>[i]
      BY <3>1, ConcatProperties
    <3>3. <<a>> \o <<b>> = <<a, b>>
      BY <3>1, <3>2, SeqEqual
    <3> QED
      BY <3>1, <3>3, ConcatEmptySeq
  <2>4. CASE ~IsPopulated(view[c.row])
    BY <1>1, <2>2, <2>4 DEF Creates
  <2>5. CASE IsPopulated(view[c.row]) /\ y = Absent
    <3>1. EditsOf(view, c) = <<Edit(c.row, "update", c.data)>>
      BY <2>2, <2>3, <2>5
    <3> QED
      BY <1>1, <3>1 DEF Modifies
  <2>6. CASE IsPopulated(view[c.row]) /\ y # Absent
    <3>1. EditsOf(view, c) = <<Edit(c.row, "update", c.data), Edit(c.row, "delete", y)>>
      BY <2>2, <2>3, <2>6
    <3> QED
      BY <1>1, <2>1, <2>6, <3>1 DEF Modifies
  <2> QED
    BY <2>4, <2>5, <2>6
<1>2. CASE c.do = "CreateEntry"
  BY <1>2 DEF EditsOf, Creates
<1>3. CASE c.do = "ModEntry"
  BY <1>3 DEF EditsOf, Modifies
<1>4. CASE c.do = "DeleteEntry"
  BY <1>4 DEF EditsOf
<1>5. CASE c.do = "DeleteEntryFields"
  BY <1>5 DEF EditsOf, Modifies
<1> QED
  BY <1>1, <1>2, <1>3, <1>4, <1>5 DEF IsCall, Calls

\* The first of some errors is one of them.
LEMMA FirstErrorIsOne ==
  ASSUME NEW results, DOMAIN results \in SUBSET Nat
  PROVE  IF FirstError(results) = "ok"
         THEN \A i \in DOMAIN results : results[i] = "ok"
         ELSE \E i \in DOMAIN results : results[i] = FirstError(results)
<1> DEFINE errors == {i \in DOMAIN results : results[i] # "ok"}
<1>1. CASE errors = {}
  BY <1>1 DEF FirstError
<1>2. CASE errors # {}
  <2>1. errors \in SUBSET Nat
    OBVIOUS
  <2>2. PICK x \in errors : \A y \in errors : x <= y
    <3> HIDE DEF errors
    <3> QED
      BY <1>2, <2>1, LeastNatural
  <2>3. Min(errors) \in errors
    <3> HIDE DEF errors
    <3> QED
      BY <2>2 DEF Min
  <2>4. FirstError(results) = results[Min(errors)]
    BY <1>2 DEF FirstError
  <2> HIDE DEF errors
  <2>5. Min(errors) \in DOMAIN results /\ results[Min(errors)] # "ok"
    BY <2>3 DEF errors
  <2> QED
    BY <2>4, <2>5
<1> QED
  BY <1>1, <1>2

\* What the result of ValidateEditConfig says of its edits.
LEMMA ValidateResult ==
  ASSUME NEW view, NEW cache, NEW counts, NEW edits, DOMAIN edits \in SUBSET Nat,
         NEW e, e = ValidateEditConfig(view, cache, counts, edits)
  PROVE  /\ e = "ok" => \A i \in DOMAIN edits :
              /\ IsPopulated(view[edits[i].row]) <=> edits[i].op # "create"
              /\ edits[i].op = "create" => ~Full(view, counts, edits[i])
         /\ e = "not-exist" => \E i \in DOMAIN edits :
              ~IsPopulated(view[edits[i].row]) /\ edits[i].op # "create"
<1> DEFINE accepted == SelectSeq(cache, LAMBDA x : x.ok)
           seen == cache \o edits
           F == [i \in DOMAIN edits |-> Step1(view, accepted, counts, edits, edits[i])]
           G == [i \in DOMAIN edits |-> Step3(view, seen, edits, edits[i])]
<1>1. e = IF FirstError(F) # "ok" THEN FirstError(F) ELSE FirstError(G)
  BY DEF ValidateEditConfig
<1>2. ASSUME NEW i \in DOMAIN edits
      PROVE  /\ F[i] = "ok" \/ F[i] # "not-exist"
             /\ F[i] = "ok" /\ edits[i].op = "create" => ~Full(view, counts, edits[i])
  <2> DEFINE x == edits[i]
             acc == accepted
  <2>1. F[i] = Step1(view, acc, counts, edits, x)
    OBVIOUS
  <2> HIDE DEF F, acc, x
  <2>2. /\ F[i] # "not-exist"
        /\ F[i] = "ok" /\ x.op = "create" => ~Full(view, counts, x)
    BY <2>1 DEF Step1
  <2> QED
    BY <2>2 DEF x
<1>3. ASSUME NEW i \in DOMAIN edits
      PROVE  /\ G[i] = "ok" => (IsPopulated(view[edits[i].row]) <=> edits[i].op # "create")
             /\ G[i] = "not-exist" => ~IsPopulated(view[edits[i].row]) /\ edits[i].op # "create"
  <2> DEFINE x == edits[i]
             sn == seen
  <2>1. G[i] = Step3(view, sn, edits, x)
    OBVIOUS
  <2> HIDE DEF G, sn, x
  <2>2. /\ G[i] = "ok" => (IsPopulated(view[x.row]) <=> x.op # "create")
        /\ G[i] = "not-exist" => ~IsPopulated(view[x.row]) /\ x.op # "create"
    BY <2>1 DEF Step3
  <2> QED
    BY <2>2 DEF x
<1>4. DOMAIN F = DOMAIN edits /\ DOMAIN G = DOMAIN edits
  OBVIOUS
<1> HIDE DEF F, G
<1>5. FirstError(F) # "not-exist"
  <2>1. FirstError(F) # "ok" => \E i \in DOMAIN edits : F[i] = FirstError(F)
    BY <1>4, FirstErrorIsOne
  <2> QED
    BY <1>2, <2>1
<1>6. e = "ok" => \A i \in DOMAIN edits : F[i] = "ok" /\ G[i] = "ok"
  BY <1>1, <1>4, FirstErrorIsOne
<1>7. e = "not-exist" => \E i \in DOMAIN edits : G[i] = "not-exist"
  <2> SUFFICES ASSUME e = "not-exist" PROVE \E i \in DOMAIN edits : G[i] = "not-exist"
    OBVIOUS
  <2>1. FirstError(G) = "not-exist"
    BY <1>1, <1>5
  <2> QED
    BY <1>4, <2>1, FirstErrorIsOne
<1> QED
  BY <1>2, <1>3, <1>6, <1>7

(***************************************************************************)
(* Folds over the one or two edits of a call.                              *)
(***************************************************************************)
\* The sets of positions.
LEMMA PositionsOfOne ==
  ASSUME NEW S \in SUBSET (1..1)
  PROVE  S = {} \/ (S = {1} /\ Max(S) = 1 /\ S \ {1} = {})
<1> SUFFICES ASSUME S # {} PROVE S = {1} /\ Max(S) = 1
  OBVIOUS
<1>0. 1..1 = {1}
  OBVIOUS
<1>1. S = {1}
  BY <1>0
<1>2. Max(S) \in S
  BY MaxPosition
<1> QED
  BY <1>1, <1>2

\* Two positions.
LEMMA PositionsOfTwo ==
  ASSUME NEW S \in SUBSET (1..2)
  PROVE  \/ S = {}
         \/ S = {1} /\ Max(S) = 1 /\ S \ {1} = {}
         \/ 2 \in S /\ Max(S) = 2 /\ S \ {2} \in {{}, {1}}
<1> SUFFICES ASSUME S # {}
             PROVE  \/ S = {1} /\ Max(S) = 1
                    \/ 2 \in S /\ Max(S) = 2 /\ S \ {2} \in {{}, {1}}
  OBVIOUS
<1>0. 1..2 = {1, 2}
  OBVIOUS
<1>1. Max(S) \in S /\ \A n \in S : n <= Max(S)
  BY MaxPosition
<1>2. CASE 2 \in S
  <2>2. S \ {2} = {} \/ S \ {2} = {1}
    BY <1>0
  <2>1. Max(S) \in 1..2 /\ 2 <= Max(S)
    BY <1>1, <1>2
  <2> QED
    BY <1>2, <2>1, <2>2
<1>3. CASE 2 \notin S
  <2>1. S = {1}
    BY <1>0, <1>3
  <2> QED
    BY <1>1, <2>1
<1> QED
  BY <1>2, <1>3

\* The sizes after one edit and after two.
LEMMA CountsAfterOne ==
  ASSUME NEW view, NEW counts, NEW e
  PROVE  CountsAfter(view, counts, <<e>>) = Recount(view, counts, e)
<1> DEFINE s == <<e>>
           Is(it) == it = [S \in SUBSET DOMAIN s |->
                             IF S = {} THEN counts
                             ELSE Recount(view, it[S \ {Max(S)}], s[Max(S)])]
           g == CHOOSE it : Is(it)
           R == Recount(view, counts, e)
           it == [S \in SUBSET (1..1) |-> IF S = {} THEN counts ELSE R]
<1>0. DOMAIN s = 1..1 /\ s[1] = e
  OBVIOUS
<1>1. CountsAfter(view, counts, s) = g[DOMAIN s]
  BY DEF CountsAfter, FoldLeft, MapThenFoldSet
<1>2. Is(it)
  <2>1. ASSUME NEW S \in SUBSET (1..1), S # {}
        PROVE  it[S \ {Max(S)}] = counts /\ s[Max(S)] = e
    BY <1>0, <2>1, PositionsOfOne
  <2>2. \A S \in SUBSET (1..1) :
          it[S] = IF S = {} THEN counts ELSE Recount(view, it[S \ {Max(S)}], s[Max(S)])
    <3> SUFFICES ASSUME NEW S \in SUBSET (1..1)
                 PROVE  it[S] = IF S = {} THEN counts
                                ELSE Recount(view, it[S \ {Max(S)}], s[Max(S)])
      OBVIOUS
    <3> HIDE DEF s
    <3>1. CASE S = {}
      BY <3>1
    <3>2. CASE S # {}
      <4>1. it[S \ {Max(S)}] = counts /\ s[Max(S)] = e /\ it[S] = R
        BY <2>1, <3>2
      <4> HIDE DEF it
      <4> QED
        BY <3>2, <4>1
    <3> QED
      BY <3>1, <3>2
  <2> QED
    BY <1>0, <2>2
<1>3. Is(g)
  <2> HIDE DEF it
  <2> QED
    BY <1>2
<1>4. 1..1 # {} /\ 1..1 \in SUBSET (1..1)
  OBVIOUS
<1>5. g[1..1] = R
  <2>1. Max(1..1) = 1 /\ (1..1) \ {1} = {}
    BY <1>4, PositionsOfOne
  <2> HIDE DEF g, s
  <2>2. g[{}] = counts
    BY <1>0, <1>3
  <2> QED
    BY <1>0, <1>3, <1>4, <2>1, <2>2
<1> QED
  BY <1>0, <1>1, <1>5

\* Two edits.
LEMMA CountsAfterTwo ==
  ASSUME NEW view, NEW counts, NEW e1, NEW e2
  PROVE  CountsAfter(view, counts, <<e1, e2>>)
           = Recount(view, Recount(view, counts, e1), e2)
<1> DEFINE s == <<e1, e2>>
           Is(it) == it = [S \in SUBSET DOMAIN s |->
                             IF S = {} THEN counts
                             ELSE Recount(view, it[S \ {Max(S)}], s[Max(S)])]
           g == CHOOSE it : Is(it)
           R1 == Recount(view, counts, e1)
           R(S) == IF S = {} THEN counts ELSE R1
           it == [S \in SUBSET (1..2) |->
                    IF 2 \in S THEN Recount(view, R(S \ {2}), e2) ELSE R(S)]
<1>0. DOMAIN s = 1..2 /\ s[1] = e1 /\ s[2] = e2
  OBVIOUS
<1>1. CountsAfter(view, counts, s) = g[DOMAIN s]
  BY DEF CountsAfter, FoldLeft, MapThenFoldSet
<1>2. Is(it)
  <2>1. ASSUME NEW S \in SUBSET (1..2)
        PROVE  it[S] = IF S = {} THEN counts
                       ELSE Recount(view, it[S \ {Max(S)}], s[Max(S)])
    <3>1. CASE S = {}
      BY <3>1
    <3>2. CASE S = {1} /\ Max(S) = 1 /\ S \ {1} = {}
      <4>1. it[S] = R1 /\ it[{}] = counts
        BY <3>2
      <4> HIDE DEF it, s
      <4> QED
        BY <1>0, <3>2, <4>1
    <3>3. CASE 2 \in S /\ Max(S) = 2 /\ S \ {2} \in {{}, {1}}
      <4>1. it[S] = Recount(view, R(S \ {2}), e2) /\ it[S \ {2}] = R(S \ {2})
        BY <3>3
      <4> HIDE DEF it, s, R
      <4> QED
        BY <1>0, <3>3, <4>1
    <3> HIDE DEF it, s
    <3> QED
      BY <3>1, <3>2, <3>3, PositionsOfTwo
  <2> HIDE DEF R
  <2> QED
    BY <1>0, <2>1
<1>3. Is(g)
  <2> HIDE DEF it
  <2> QED
    BY <1>2
<1>4. 1..2 # {} /\ 1..2 \in SUBSET (1..2) /\ 1..2 # {1} /\ (1..2) \ {2} = {1}
  <2>1. 1..2 = {1, 2}
    OBVIOUS
  <2> QED
    BY <2>1
<1>5. g[1..2] = Recount(view, R1, e2)
  <2>1. Max(1..2) = 2
    BY <1>4, PositionsOfTwo
  <2>2. {1} \in SUBSET (1..2) /\ {} \in SUBSET (1..2) /\ Max({1}) = 1 /\ {1} \ {1} = {}
    <3>1. {1} \in SUBSET (1..2)
      BY <1>4
    <3> QED
      BY <3>1, PositionsOfTwo
  <2> HIDE DEF g, s
  <2>3. g[{}] = counts
    BY <1>0, <1>3, <2>2
  <2>4. g[{1}] = R1
    BY <1>0, <1>3, <2>2, <2>3
  <2> QED
    BY <1>0, <1>3, <1>4, <2>1, <2>4
<1> QED
  BY <1>0, <1>1, <1>5

\* Only the deletion of a row and its creation count.
LEMMA ModifiesCountNothing ==
  ASSUME NEW view, NEW counts, NEW edits, NEW row, Modifies(edits, row)
  PROVE  CountsAfter(view, counts, edits) = counts
<1>1. ASSUME NEW x, NEW c
      PROVE  Recount(view, c, Edit(row, "update", x)) = c
  BY DEF Recount, Edit, WholeDelete
<1>2. ASSUME NEW x, DOMAIN x # {}, NEW c
      PROVE  Recount(view, c, Edit(row, "delete", x)) = c
  BY <1>2 DEF Recount, Edit, WholeDelete
<1> QED
  BY <1>1, <1>2, CountsAfterOne, CountsAfterTwo DEF Modifies

\* A row that is deleted has no fields left.
LEMMA WrittenDelete ==
  ASSUME NEW row, NEW e
  PROVE  Written(<<Edit(row, "delete", Absent)>>, e) = Absent
<1> DEFINE x == Edit(row, "delete", Absent)
           s == <<x>>
           op(v, y) == CASE WholeDelete(y) -> Absent
                         [] FieldDelete(y) -> Without(v, DOMAIN y.data)
                         [] OTHER -> Merged(v, y.data)
           Is(it) == it = [S \in SUBSET DOMAIN s |->
                             IF S = {} THEN e ELSE op(it[S \ {Max(S)}], s[Max(S)])]
           g == CHOOSE it : Is(it)
           it == [S \in SUBSET (1..1) |-> IF S = {} THEN e ELSE Absent]
<1>0. DOMAIN s = 1..1 /\ s[1] = x
  OBVIOUS
<1>1. Written(s, e) = g[DOMAIN s]
  BY DEF Written, FoldLeft, MapThenFoldSet
<1>2. \A v : op(v, x) = Absent
  BY DEF WholeDelete, FieldDelete, Edit, Absent
<1> HIDE DEF op, s, x
<1>3. Is(it)
  <2>1. ASSUME NEW S \in SUBSET (1..1)
        PROVE  it[S] = IF S = {} THEN e ELSE op(it[S \ {Max(S)}], s[Max(S)])
    <3>1. CASE S = {}
      BY <3>1
    <3>2. CASE S = {1} /\ Max(S) = 1 /\ S \ {1} = {}
      <4>1. it[S] = Absent
        BY <3>2
      <4> HIDE DEF it
      <4> QED
        BY <1>0, <1>2, <3>2, <4>1
    <3> HIDE DEF it
    <3> QED
      BY <3>1, <3>2, PositionsOfOne
  <2> QED
    BY <1>0, <2>1
<1>4. Is(g)
  <2> HIDE DEF it
  <2> QED
    BY <1>3
<1>5. g[1..1] = Absent
  <2>1. 1..1 # {} /\ 1..1 \in SUBSET (1..1) /\ Max(1..1) = 1
    <3>1. 1..1 # {} /\ 1..1 \in SUBSET (1..1)
      OBVIOUS
    <3> QED
      BY <3>1, PositionsOfOne
  <2> HIDE DEF g
  <2> QED
    BY <1>0, <1>2, <1>4, <2>1
<1> QED
  BY <1>0, <1>1, <1>5 DEF s, x

(***************************************************************************)
(* What an item of work is replaced by.                                    *)
(***************************************************************************)
\* The sequences of a finite set have each of its elements once.
LEMMA SeqsOfSet ==
  ASSUME NEW R, IsFiniteSet(R), NEW s \in SetToSeqs(R)
  PROVE  /\ s \in Seq(R) /\ DOMAIN s = 1..Len(s) /\ Len(s) \in Nat
         /\ \A i \in 1..Len(s) : s[i] \in R
         /\ \A i, j \in 1..Len(s) : i # j => s[i] # s[j]
<1> DEFINE N == Cardinality(R)
<1>1. N \in Nat
  BY FS_CardinalityType
<1>2. s \in [1..N -> R] /\ \A i, j \in 1..N : i # j => s[i] # s[j]
  BY DEF SetToSeqs
<1> HIDE DEF N
<1>3. s \in Seq(R) /\ Len(s) = N
  BY <1>1, <1>2
<1> QED
  BY <1>1, <1>2, <1>3

\* The pieces q that item h of a table in D or W may be replaced by, all the
\* items b that come after it staying apart.
Replaces(q, h, view, D, W) ==
  /\ TodoOK(q, D, W)
  /\ Present(view, h) => AllPresent(view, q)
  /\ \A n \in DOMAIN q : \A b : Apart(h, b) => Apart(q[n], b)

\* An item for which no order counts.
Plain(i, D, W) == ItemOK(i, D, W) /\ ~Deleting(i) /\ i.do # "DeleteEntry"

\* Work that is all plain replaces an item that writes.
LEMMA PlainReplaces ==
  ASSUME NEW h, ~Deleting(h), NEW view, NEW D, NEW W, NEW C,
         \A x \in C : Plain(x, D, W), NEW q \in Seq(C)
  PROVE  Replaces(q, h, view, D, W)
<1>1. DOMAIN q = 1..Len(q) /\ \A n \in DOMAIN q : q[n] \in C
  BY ElementOfSeq, LenProperties
<1>2. \A n \in DOMAIN q : Plain(q[n], D, W)
  BY <1>1
<1>3. \A n \in DOMAIN q : /\ q[n].do \notin {"DeleteEntry", "prefix", "rows", "table"}
                          /\ ~DeletesRow(q[n]) /\ ~Deleting(q[n]) /\ ItemOK(q[n], D, W)
  BY <1>2 DEF Plain, Deleting
<1>4. IsSequence(q)
  BY DEF IsSequence
<1>5. \A n \in DOMAIN q : \A b : ~DeletesRow(b) /\ ~Deleting(b) => Apart(q[n], b)
  BY <1>3 DEF Apart
<1>6. \A b : Apart(h, b) => ~DeletesRow(b) /\ ~Deleting(b)
  BY DEF Apart
<1> QED
  BY <1>3, <1>4, <1>5, <1>6 DEF Replaces, TodoOK, AllPresent, Present

\* A call of a kind that deletes no row.
LEMMA PlainCall ==
  ASSUME NEW D, NEW W, NEW do \in {"CreateEntry", "SetEntry", "ModEntry", "DeleteEntryFields"},
         NEW row \in Row, row[1] \in W, NEW data, NEW onErr,
         do = "DeleteEntryFields" => DOMAIN data # {}
  PROVE  Plain(Call(do, row, data, onErr), D, W)
  BY DEF Plain, ItemOK, Deleting, DeletesRow, Call, Item, Kinds, Calls

\* Creating, updating or replacing a row (cmnAppCRUCommonDbOpn).
LEMMA WritingReplaces ==
  ASSUME NEW view, NEW req, NEW h, NEW D, NEW W, ItemOK(h, D, W),
         h.do \in {"create", "update", "replace"}, NEW q \in Expand(view, req, h)
  PROVE  Replaces(q, h, view, D, W)
<1>1. ~Deleting(h) /\ h.row \in Row /\ h.row[1] \in W
  BY DEF ItemOK, Deleting, DeletesRow
<1>2. ASSUME NEW do \in {"CreateEntry", "SetEntry", "ModEntry"}, NEW data
      PROVE  Replaces(<<Call(do, h.row, data, "fail")>>, h, view, D, W)
  <2> DEFINE x == Call(do, h.row, data, "fail")
  <2>1. Plain(x, D, W)
    BY <1>1, PlainCall
  <2> HIDE DEF x
  <2>2. <<x>> \in Seq({x})
    OBVIOUS
  <2>3. Replaces(<<x>>, h, view, D, W)
    BY <1>1, <2>1, <2>2, PlainReplaces
  <2> QED
    BY <2>3 DEF x
<1>3. Replaces(<<>>, h, view, D, W)
  <2>1. <<>> \in Seq({})
    OBVIOUS
  <2> QED
    BY <1>1, <2>1, PlainReplaces
<1>4. q = CreateOrUpdate(view, req, h) \/ q = ReplaceRow(view, req, h)
  BY DEF Expand
<1>5. \/ q = <<>>
      \/ \E do \in {"CreateEntry", "SetEntry", "ModEntry"} : \E data :
           q = <<Call(do, h.row, data, "fail")>>
  <2>1. CASE q = CreateOrUpdate(view, req, h)
    BY <2>1 DEF CreateOrUpdate
  <2>2. CASE q = ReplaceRow(view, req, h)
    BY <2>2 DEF ReplaceRow
  <2> QED
    BY <1>4, <2>1, <2>2
<1> QED
  BY <1>2, <1>3, <1>5

\* Deleting fields (deleteFields).
LEMMA DeleteFieldsReplaces ==
  ASSUME NEW view, NEW req, NEW h, NEW D, NEW W, ItemOK(h, D, W),
         h.do = "delete", h.data # Absent, NEW q \in Expand(view, req, h)
  PROVE  Replaces(q, h, view, D, W)
<1>1. ~Deleting(h) /\ h.row \in Row /\ h.row[1] \in W
  BY DEF ItemOK, Deleting, DeletesRow
<1>2. q = DeleteFields(view, req, h)
  BY DEF Expand
<1>3. \E rest, gone, a, b :
        q \in {<<>>,
               (IF a THEN <<>> ELSE <<Call("ModEntry", h.row, rest, "ignore")>>) \o
               (IF b THEN <<Call("ModEntry", h.row, OnlyNull, "fail")>> ELSE <<>>) \o
               (IF gone = {} THEN <<>>
                ELSE <<Call("DeleteEntryFields", h.row, [f \in gone |-> {}], "fail")>>)}
  BY <1>2 DEF DeleteFields
<1>4. PICK rest, gone, a, b :
        q \in {<<>>,
               (IF a THEN <<>> ELSE <<Call("ModEntry", h.row, rest, "ignore")>>) \o
               (IF b THEN <<Call("ModEntry", h.row, OnlyNull, "fail")>> ELSE <<>>) \o
               (IF gone = {} THEN <<>>
                ELSE <<Call("DeleteEntryFields", h.row, [f \in gone |-> {}], "fail")>>)}
  BY <1>3
<1> DEFINE x1 == Call("ModEntry", h.row, rest, "ignore")
           x2 == Call("ModEntry", h.row, OnlyNull, "fail")
           x3 == Call("DeleteEntryFields", h.row, [f \in gone |-> {}], "fail")
           C == {x1, x2} \cup (IF gone = {} THEN {} ELSE {x3})
           q1 == IF a THEN <<>> ELSE <<x1>>
           q2 == IF b THEN <<x2>> ELSE <<>>
           q3 == IF gone = {} THEN <<>> ELSE <<x3>>
<1>5. Plain(x1, D, W) /\ Plain(x2, D, W)
  BY <1>1, PlainCall
<1>6. gone # {} => Plain(x3, D, W)
  <2>1. gone # {} => DOMAIN [f \in gone |-> {}] # {}
    OBVIOUS
  <2> DEFINE data == [f \in gone |-> {}]
  <2> HIDE DEF data
  <2>2. gone # {} => Plain(Call("DeleteEntryFields", h.row, data, "fail"), D, W)
    BY <1>1, <2>1, PlainCall DEF data
  <2> QED
    BY <2>2 DEF data
<1>7. q = <<>> \/ q = q1 \o q2 \o q3
  BY <1>4
<1> HIDE DEF x1, x2, x3
<1>8. \A x \in C : Plain(x, D, W)
  BY <1>5, <1>6
<1>9. x1 \in C /\ x2 \in C /\ (gone # {} => x3 \in C)
  OBVIOUS
<1> HIDE DEF C
<1>10. /\ <<>> \in Seq(C) /\ <<x1>> \in Seq(C) /\ <<x2>> \in Seq(C)
       /\ gone # {} => <<x3>> \in Seq(C)
  BY <1>9
<1>11. q1 \in Seq(C) /\ q2 \in Seq(C) /\ q3 \in Seq(C)
  BY <1>10
<1> HIDE DEF q1, q2, q3
<1>12. q1 \o q2 \in Seq(C)
  BY <1>11, ConcatProperties
<1>13. q1 \o q2 \o q3 \in Seq(C)
  BY <1>11, <1>12, ConcatProperties
<1>14. q \in Seq(C)
  BY <1>7, <1>10, <1>13
<1> QED
  BY <1>1, <1>8, <1>14, PlainReplaces

\* c consists of elements of a and b.
Joins(c, a, b) ==
  \A n \in DOMAIN c : \/ \E m \in DOMAIN a : c[n] = a[m]
                      \/ \E m \in DOMAIN b : c[n] = b[m]

\* Work that comes one after the other.
LEMMA TodoConcat ==
  ASSUME NEW D, NEW W, NEW a, NEW b, TodoOK(a, D, W), TodoOK(b, D, W),
         \A m \in DOMAIN a : \A n \in DOMAIN b : Apart(a[m], b[n])
  PROVE  /\ TodoOK(a \o b, D, W)
         /\ Joins(a \o b, a, b)
<1>1. PICK S : a \in Seq(S)
  BY DEF TodoOK, IsSequence
<1>2. PICK T : b \in Seq(T)
  BY DEF TodoOK, IsSequence
<1> DEFINE U == S \cup T
<1>3. a \in Seq(U) /\ b \in Seq(U)
  BY <1>1, <1>2
<1> HIDE DEF U
<1> DEFINE c == a \o b
<1>4. /\ c \in Seq(U) /\ Len(c) = Len(a) + Len(b)
      /\ \A i \in 1..Len(a) + Len(b) :
           c[i] = IF i <= Len(a) THEN a[i] ELSE b[i - Len(a)]
  BY <1>3, ConcatProperties
<1>5. /\ Len(a) \in Nat /\ Len(b) \in Nat
      /\ DOMAIN a = 1..Len(a) /\ DOMAIN b = 1..Len(b)
  BY <1>3, LenProperties
<1>6. DOMAIN c = 1..Len(a) + Len(b)
  BY <1>4, LenProperties
<1> HIDE DEF c
<1>7. ASSUME NEW i \in DOMAIN c
      PROVE  \/ i \in DOMAIN a /\ c[i] = a[i]
             \/ i - Len(a) \in DOMAIN b /\ i > Len(a) /\ c[i] = b[i - Len(a)]
  <2>1. i \in 1..Len(a) + Len(b)
    BY <1>6
  <2>2. CASE i <= Len(a)
    BY <1>4, <1>5, <2>1, <2>2
  <2>3. CASE ~(i <= Len(a))
    <3>1. i - Len(a) \in 1..Len(b) /\ i > Len(a)
      BY <1>5, <2>1, <2>3
    <3> QED
      BY <1>4, <1>5, <2>1, <2>3, <3>1
  <2> QED
    BY <2>2, <2>3
<1>8. \A i \in DOMAIN c : ItemOK(c[i], D, W)
  BY <1>7 DEF TodoOK
<1>9. ASSUME NEW m \in DOMAIN c, NEW n \in DOMAIN c, m < n
      PROVE  Apart(c[m], c[n])
  <2>0. m \in Nat /\ n \in Nat
    BY <1>6
  <2>1. CASE m \in DOMAIN a /\ c[m] = a[m]
    <3>1. CASE n \in DOMAIN a /\ c[n] = a[n]
      BY <1>9, <2>1, <3>1 DEF TodoOK
    <3>2. CASE n - Len(a) \in DOMAIN b /\ n > Len(a) /\ c[n] = b[n - Len(a)]
      BY <2>1, <3>2
    <3> QED
      BY <1>7, <3>1, <3>2
  <2>2. CASE m - Len(a) \in DOMAIN b /\ m > Len(a) /\ c[m] = b[m - Len(a)]
    <3>1. ~(n \in DOMAIN a)
      BY <1>5, <1>9, <2>0, <2>2
    <3>2. n - Len(a) \in DOMAIN b /\ c[n] = b[n - Len(a)]
      BY <1>7, <3>1
    <3>3. m - Len(a) < n - Len(a)
      BY <1>5, <1>9, <2>0
    <3> QED
      BY <2>2, <3>2, <3>3 DEF TodoOK
  <2> QED
    BY <1>7, <2>1, <2>2
<1>10. IsSequence(c)
  BY <1>4 DEF IsSequence
<1>11. TodoOK(c, D, W)
  BY <1>8, <1>9, <1>10 DEF TodoOK
<1>12. Joins(c, a, b)
  BY <1>7 DEF Joins
<1> QED
  BY <1>11, <1>12 DEF c

\* A sequence of deletions of rows of R, each once.
Removes(q, R) ==
  /\ IsSequence(q)
  /\ \A n \in DOMAIN q : q[n].do = "DeleteEntry" /\ q[n].row \in R
  /\ \A m, n \in DOMAIN q : m < n => q[m].row # q[n].row

\* Deletions of the rows of a set, in any order.
LEMMA SeqsRemove ==
  ASSUME NEW R, IsFiniteSet(R), NEW s \in SetToSeqs(R), NEW E,
         NEW q, q = [i \in DOMAIN s |-> Call("DeleteEntry", s[i], Absent, E[i])]
  PROVE  Removes(q, R)
<1>1. /\ DOMAIN s = 1..Len(s) /\ Len(s) \in Nat
      /\ \A i \in 1..Len(s) : s[i] \in R
      /\ \A i, j \in 1..Len(s) : i # j => s[i] # s[j]
  BY SeqsOfSet
<1>2. \A i \in DOMAIN s : q[i].do = "DeleteEntry" /\ q[i].row = s[i]
  BY DEF Call, Item
<1>3. DOMAIN q = 1..Len(s)
  BY <1>1
<1>4. IsSequence(q)
  <2> DEFINE C == {q[i] : i \in 1..Len(s)}
  <2>1. q \in [1..Len(s) -> C]
    BY <1>1
  <2> HIDE DEF C
  <2>2. q \in Seq(C)
    BY <1>1, <2>1
  <2> QED
    BY <2>2 DEF IsSequence
<1>5. \A m, n \in DOMAIN q : m < n => m # n
  BY <1>1, <1>3
<1> QED
  BY <1>1, <1>2, <1>3, <1>4, <1>5 DEF Removes

\* They are work that may be done, on rows that are there.
LEMMA RemovesIsTodo ==
  ASSUME NEW view, NEW D, NEW W, NEW R \in SUBSET Row, NEW q, Removes(q, R),
         \A r \in R : r[1] \in D /\ IsPopulated(view[r])
  PROVE  TodoOK(q, D, W) /\ AllPresent(view, q)
<1>1. ASSUME NEW n \in DOMAIN q
      PROVE  /\ q[n].do = "DeleteEntry" /\ q[n].row \in R /\ Deleting(q[n])
             /\ ~DeletesRow(q[n])
  BY DEF Removes, Deleting, DeletesRow
<1>2. ASSUME NEW n \in DOMAIN q
      PROVE  ItemOK(q[n], D, W) /\ Present(view, q[n])
  <2>1. q[n].do = "DeleteEntry" /\ q[n].row \in R /\ ~DeletesRow(q[n])
    BY <1>1
  <2> DEFINE i == q[n]
  <2> HIDE DEF i
  <2>2. i.do = "DeleteEntry" /\ i.row \in Row /\ i.row[1] \in D /\ ~DeletesRow(i)
        /\ IsPopulated(view[i.row])
    BY <2>1 DEF i
  <2>3. Deleting(i)
    BY <2>2 DEF Deleting
  <2> HIDE DEF i
  <2>4. ItemOK(i, D, W) /\ Present(view, i)
    BY <2>2, <2>3 DEF ItemOK, Present, Kinds, Calls
  <2> QED
    BY <2>4 DEF i
<1>3. ASSUME NEW m \in DOMAIN q, NEW n \in DOMAIN q, m < n
      PROVE  Apart(q[m], q[n])
  <2>1. q[m].row # q[n].row
    BY <1>3 DEF Removes
  <2>2. q[m].do = "DeleteEntry" /\ q[n].do = "DeleteEntry"
    BY <1>1
  <2>3. ~DeletesRow(q[m]) /\ ~DeletesRow(q[n]) /\ Deleting(q[m]) /\ Deleting(q[n])
    BY <1>1
  <2> QED
    BY <2>1, <2>2, <2>3 DEF Apart
<1> QED
  BY <1>2, <1>3 DEF TodoOK, AllPresent, Removes

\* DeleteTable, DeleteKeys.
LEMMA RemovesReplaces ==
  ASSUME NEW view, NEW D, NEW W, NEW R \in SUBSET Row, NEW q, Removes(q, R),
         \A r \in R : r[1] \in D /\ IsPopulated(view[r]),
         NEW h, h.do = "rows" \/ (h.do = "prefix" /\ \A r \in R : r[1] = h.row[1])
  PROVE  Replaces(q, h, view, D, W)
<1>1. TodoOK(q, D, W) /\ AllPresent(view, q)
  BY RemovesIsTodo
<1>2. ASSUME NEW n \in DOMAIN q, NEW b, Apart(h, b)
      PROVE  Apart(q[n], b)
  <2> DEFINE a == q[n]
  <2>1. a.do = "DeleteEntry" /\ a.row \in R
    BY DEF Removes
  <2> HIDE DEF a
  <2>2. Deleting(a) /\ ~DeletesRow(a) /\ Deleting(h)
    BY <2>1 DEF Deleting, DeletesRow
  <2>3. Deleting(b) /\ ~DeletesRow(b)
    BY <1>2, <2>2 DEF Apart
  <2>4. b.do = "DeleteEntry" => a.row # b.row
    BY <1>2, <2>1 DEF Apart
  <2>5. Apart(a, b)
    BY <2>1, <2>2, <2>3, <2>4 DEF Apart
  <2> QED
    BY <2>5 DEF a
<1> QED
  BY <1>1, <1>2 DEF Replaces

\* The rows of a table are finitely many.
LEMMA ExistingFinite ==
  ASSUME NEW view, NEW t
  PROVE  /\ IsFiniteSet(Existing(view, t)) /\ Existing(view, t) \subseteq Row
         /\ \A r \in Existing(view, t) : r[1] = t /\ IsPopulated(view[r])
<1>1. Existing(view, t) \subseteq Row
  BY DEF Existing, RowsOf
<1>2. IsFiniteSet(Existing(view, t))
  BY <1>1, FS_Subset, SchemaAssumption
<1> QED
  BY <1>1, <1>2 DEF Existing, RowsOf

\* DeleteTable.
LEMMA RowsReplaces ==
  ASSUME NEW view, NEW req, NEW h, NEW D, NEW W, ItemOK(h, D, W),
         h.do = "rows", NEW q \in Expand(view, req, h)
  PROVE  Replaces(q, h, view, D, W)
<1> DEFINE R == Existing(view, h.row[1])
<1>1. q \in DeleteRows(view, h.row[1])
  BY DEF Expand
<1>2. PICK s \in SetToSeqs(R) : q = Deletions(s, "fail")
  BY <1>1 DEF DeleteRows
<1>3. /\ IsFiniteSet(R) /\ R \subseteq Row
      /\ \A r \in R : r[1] = h.row[1] /\ IsPopulated(view[r])
  BY ExistingFinite
<1>4. h.row[1] \in D
  BY DEF ItemOK, Deleting
<1> DEFINE E == [i \in DOMAIN s |-> "fail"]
<1>5. q = [i \in DOMAIN s |-> Call("DeleteEntry", s[i], Absent, E[i])]
  BY <1>2 DEF Deletions
<1> HIDE DEF R, E
<1>6. Removes(q, R)
  BY <1>3, <1>5, SeqsRemove
<1> QED
  BY <1>3, <1>4, <1>6, RemovesReplaces

\* DeleteKeys.
LEMMA PrefixReplaces ==
  ASSUME NEW view, NEW req, NEW h, NEW D, NEW W, ItemOK(h, D, W),
         h.do = "prefix", NEW q \in Expand(view, req, h)
  PROVE  Replaces(q, h, view, D, W)
<1> DEFINE R == WithPrefix(view, h.row)
<1>1. q \in DeletePrefix(view, h.row)
  BY DEF Expand
<1>2. PICK s \in SetToSeqs(R) :
        q = [i \in DOMAIN s |-> Call("DeleteEntry", s[i], Absent,
                                     IF i = Len(s) THEN "fail" ELSE "ignore")]
  BY <1>1 DEF DeletePrefix
<1>3. /\ IsFiniteSet(R) /\ R \subseteq Row
      /\ \A r \in R : r[1] = h.row[1] /\ IsPopulated(view[r])
  <2>1. R \subseteq Existing(view, h.row[1])
    BY DEF WithPrefix
  <2> HIDE DEF R
  <2> QED
    BY <2>1, ExistingFinite, FS_Subset
<1>4. h.row[1] \in D
  BY DEF ItemOK, Deleting
<1> DEFINE E == [i \in DOMAIN s |-> IF i = Len(s) THEN "fail" ELSE "ignore"]
<1>5. q = [i \in DOMAIN s |-> Call("DeleteEntry", s[i], Absent, E[i])]
  BY <1>2
<1> HIDE DEF R, E
<1>6. Removes(q, R)
  BY <1>3, <1>5, SeqsRemove
<1> QED
  BY <1>3, <1>4, <1>6, RemovesReplaces

\* The only item of a sequence.
LEMMA OneTodo ==
  ASSUME NEW x, NEW D, NEW W, ItemOK(x, D, W)
  PROVE  TodoOK(<<x>>, D, W) /\ DOMAIN <<x>> = {1} /\ <<x>>[1] = x
<1>1. DOMAIN <<x>> = {1} /\ <<x>>[1] = x /\ <<x>> \in Seq({x})
  <2>1. DOMAIN <<x>> = 1..1 /\ <<x>>[1] = x /\ <<x>> \in Seq({x})
    OBVIOUS
  <2>2. 1..1 = {1}
    OBVIOUS
  <2> QED
    BY <2>1, <2>2
<1>2. ~(1 < 1)
  OBVIOUS
<1> QED
  BY <1>1, <1>2 DEF TodoOK, IsSequence

\* processChildTablesforDelete, then DeleteTable.
LEMMA TableReplaces ==
  ASSUME NEW view, NEW req, NEW h, NEW D, NEW W, ItemOK(h, D, W),
         h.do = "table", NEW q \in Expand(view, req, h)
  PROVE  Replaces(q, h, view, D, W)
<1> DEFINE t == h.row[1]
           R == ChildRows(view, t)
           x == TableItem("rows", t)
<1>1. q \in DeleteWholeTable(view, t)
  BY DEF Expand
<1>2. PICK s \in SetToSeqs(R) : q = Deletions(s, "fail") \o <<x>>
  BY <1>1 DEF DeleteWholeTable, ChildFirst
<1>3. t \in D /\ ChildTables(t) \subseteq D
  BY DEF ItemOK, Deleting
<1>4. /\ IsFiniteSet(R) /\ R \in SUBSET Row
      /\ \A r \in R : r[1] \in D /\ IsPopulated(view[r])
  <2>1. \A r \in R : \E c \in ChildTables(t) : r \in Existing(view, c)
    BY DEF ChildRows
  <2> HIDE DEF R, t
  <2>2. \A r \in R : r \in Row /\ r[1] \in D /\ IsPopulated(view[r])
    BY <1>3, <2>1, ExistingFinite
  <2>3. IsFiniteSet(R)
    BY <2>2, FS_Subset, SchemaAssumption
  <2> QED
    BY <2>2, <2>3
<1> DEFINE E == [i \in DOMAIN s |-> "fail"]
           a == Deletions(s, "fail")
<1>5. a = [i \in DOMAIN s |-> Call("DeleteEntry", s[i], Absent, E[i])]
  BY DEF Deletions
<1>6. x.do = "rows" /\ x.row[1] = t
  BY DEF TableItem, Item
<1> HIDE DEF R, E, t, x, a
<1>7. Removes(a, R)
  BY <1>4, <1>5, SeqsRemove
<1>8. TodoOK(a, D, W) /\ AllPresent(view, a)
  BY <1>4, <1>7, RemovesIsTodo
<1>9. ItemOK(x, D, W) /\ Deleting(x) /\ ~DeletesRow(x) /\ Present(view, x)
  BY <1>3, <1>6 DEF ItemOK, Deleting, DeletesRow, Present, Kinds
<1>10. TodoOK(<<x>>, D, W) /\ DOMAIN <<x>> = {1} /\ <<x>>[1] = x
  BY <1>9, OneTodo
<1>11. ASSUME NEW m \in DOMAIN a
       PROVE  a[m].do = "DeleteEntry" /\ Deleting(a[m]) /\ ~DeletesRow(a[m])
  BY <1>7 DEF Removes, Deleting, DeletesRow
<1>12. \A m \in DOMAIN a : Apart(a[m], x)
  BY <1>6, <1>9, <1>11 DEF Apart
<1>13. \A m \in DOMAIN a : \A n \in DOMAIN <<x>> : Apart(a[m], <<x>>[n])
  BY <1>10, <1>12
<1> DEFINE xs == <<x>>
<1> HIDE DEF xs
<1>14. /\ TodoOK(a \o xs, D, W)
       /\ Joins(a \o xs, a, xs)
  BY <1>8, <1>10, <1>13, TodoConcat DEF xs
<1>15. q = a \o xs
  BY <1>2 DEF a, xs
<1>16. \A n \in DOMAIN q : (\E m \in DOMAIN a : q[n] = a[m]) \/ q[n] = x
  BY <1>10, <1>14, <1>15 DEF xs, Joins
<1>17. AllPresent(view, q)
  BY <1>8, <1>9, <1>16 DEF AllPresent
<1>18. ASSUME NEW n \in DOMAIN q, NEW b, Apart(h, b)
       PROVE  Apart(q[n], b)
  <2>1. /\ q[n].do \in {"DeleteEntry", "rows"} /\ Deleting(q[n]) /\ ~DeletesRow(q[n])
    BY <1>6, <1>9, <1>11, <1>16
  <2>2. b.do \in {"table", "rows"} /\ Deleting(b) /\ ~DeletesRow(b)
    BY <1>18 DEF Apart, Deleting
  <2> QED
    BY <2>1, <2>2 DEF Apart
<1> QED
  BY <1>14, <1>15, <1>17, <1>18 DEF Replaces

\* DeleteKeys of the child tables, then DeleteEntry.
LEMMA RowReplaces ==
  ASSUME NEW view, NEW req, NEW h, NEW D, NEW W, ItemOK(h, D, W),
         DeletesRow(h), NEW q \in Expand(view, req, h)
  PROVE  Replaces(q, h, view, D, W)
<1> DEFINE T == ChildTables(h.row[1])
           x == Call("DeleteEntry", h.row, Absent, "missing")
           I(c) == Item("prefix", <<c, h.row[2]>>, Absent, Absent, "fail")
<1>1. q \in DeleteRow(h.row)
  BY DEF Expand, DeletesRow
<1>2. PICK s \in SetToSeqs(T) : q = [i \in DOMAIN s |-> I(s[i])] \o <<x>>
  BY <1>1 DEF DeleteRow, SortDepTables
<1>3. h.row \in Row /\ h.row[1] \in D /\ T \subseteq D /\ h.row[1] \notin T
  BY DEF ItemOK, Deleting, DeletesRow, ChildTables
<1>4. IsFiniteSet(T)
  <2>1. T \subseteq Table
    BY DEF ChildTables
  <2> HIDE DEF T
  <2> QED
    BY <2>1, FS_Subset, SchemaAssumption
<1>5. /\ DOMAIN s = 1..Len(s) /\ Len(s) \in Nat
      /\ \A i \in 1..Len(s) : s[i] \in T
      /\ \A i, j \in 1..Len(s) : i # j => s[i] # s[j]
  <2> HIDE DEF T
  <2> QED
    BY <1>4, SeqsOfSet
<1>6. /\ x.do = "DeleteEntry" /\ x.row = h.row
      /\ \A c : I(c).do = "prefix" /\ I(c).row[1] = c
  BY DEF Call, Item
<1> DEFINE a == [i \in DOMAIN s |-> I(s[i])]
<1>7. DOMAIN a = 1..Len(s)
      /\ \A i \in DOMAIN a : a[i].do = "prefix" /\ a[i].row[1] = s[i] /\ s[i] \in T
  BY <1>5, <1>6
<1> HIDE DEF T, x, I
<1>8. IsSequence(a)
  <2> DEFINE C == {I(s[i]) : i \in 1..Len(s)}
  <2>1. a \in [1..Len(s) -> C]
    BY <1>5
  <2> HIDE DEF C, a
  <2>2. a \in Seq(C)
    BY <1>5, <2>1
  <2> QED
    BY <2>2 DEF IsSequence
<1> HIDE DEF a
<1>9. ASSUME NEW i \in DOMAIN a
      PROVE  /\ ItemOK(a[i], D, W) /\ Present(view, a[i]) /\ Deleting(a[i])
             /\ ~DeletesRow(a[i])
  <2>1. a[i].do = "prefix" /\ a[i].row[1] \in D
    BY <1>3, <1>7
  <2> DEFINE y == a[i]
  <2> HIDE DEF y
  <2>2. y.do = "prefix" /\ y.row[1] \in D
    BY <2>1 DEF y
  <2>3. ItemOK(y, D, W) /\ Present(view, y) /\ Deleting(y) /\ ~DeletesRow(y)
    BY <2>2 DEF ItemOK, Present, Kinds, Calls, Deleting, DeletesRow
  <2> QED
    BY <2>3 DEF y
<1>10. ASSUME NEW m \in DOMAIN a, NEW n \in DOMAIN a, m < n
       PROVE  Apart(a[m], a[n])
  <2>1. m # n
    BY <1>5, <1>7, <1>10
  <2>2. a[m].row[1] # a[n].row[1]
    BY <1>5, <1>7, <2>1
  <2>3. a[m].do = "prefix" /\ a[n].do = "prefix"
    BY <1>7
  <2>4. Deleting(a[m]) /\ Deleting(a[n]) /\ ~DeletesRow(a[m]) /\ ~DeletesRow(a[n])
    BY <1>9
  <2> QED
    BY <2>2, <2>3, <2>4 DEF Apart
<1>11. TodoOK(a, D, W)
  BY <1>8, <1>9, <1>10 DEF TodoOK
<1>12. /\ ItemOK(x, D, W) /\ Deleting(x) /\ ~DeletesRow(x)
       /\ Present(view, h) => Present(view, x)
  BY <1>3, <1>6 DEF ItemOK, Deleting, DeletesRow, Present, Kinds, Calls
<1>13. TodoOK(<<x>>, D, W) /\ DOMAIN <<x>> = {1} /\ <<x>>[1] = x
  BY <1>12, OneTodo
<1>14. ASSUME NEW m \in DOMAIN a
       PROVE  Apart(a[m], x)
  <2>1. a[m].do = "prefix" /\ a[m].row[1] # x.row[1]
    BY <1>3, <1>6, <1>7
  <2>2. Deleting(a[m]) /\ ~DeletesRow(a[m])
    BY <1>9
  <2> QED
    BY <1>6, <1>12, <2>1, <2>2 DEF Apart
<1> DEFINE xs == <<x>>
<1>15. \A m \in DOMAIN a : \A n \in DOMAIN xs : Apart(a[m], xs[n])
  BY <1>13, <1>14
<1> HIDE DEF xs
<1>16. /\ TodoOK(a \o xs, D, W)
       /\ Joins(a \o xs, a, xs)
  BY <1>11, <1>13, <1>15, TodoConcat DEF xs
<1>17. q = a \o xs
  BY <1>2 DEF a, xs
<1>18. \A n \in DOMAIN q : (\E m \in DOMAIN a : q[n] = a[m]) \/ q[n] = x
  BY <1>13, <1>16, <1>17 DEF xs, Joins
<1>19. Present(view, h) => AllPresent(view, q)
  BY <1>9, <1>12, <1>18 DEF AllPresent
<1>20. \A b : ~Apart(h, b)
  BY DEF Apart
<1> QED
  BY <1>16, <1>17, <1>19, <1>20 DEF Replaces

\* An item is replaced by work of its own kind.
LEMMA ExpandReplaces ==
  ASSUME NEW view, NEW req, NEW h, NEW D, NEW W, ItemOK(h, D, W), ~IsCall(h),
         NEW q \in Expand(view, req, h)
  PROVE  Replaces(q, h, view, D, W)
<1>1. \/ h.do \in {"create", "update", "replace"} \/ h.do = "table" \/ h.do = "rows"
      \/ h.do = "prefix" \/ DeletesRow(h) \/ (h.do = "delete" /\ h.data # Absent)
  BY DEF ItemOK, Kinds, IsCall, DeletesRow
<1> QED
  BY <1>1, WritingReplaces, DeleteFieldsReplaces, TableReplaces, RowsReplaces,
     PrefixReplaces, RowReplaces

\* What is left of the work.
LEMMA TailTodo ==
  ASSUME NEW s, NEW D, NEW W, TodoOK(s, D, W), s # <<>>
  PROVE  /\ 1 \in DOMAIN s /\ Head(s) = s[1] /\ ItemOK(Head(s), D, W)
         /\ TodoOK(Tail(s), D, W)
         /\ \A n \in DOMAIN Tail(s) : /\ Apart(Head(s), Tail(s)[n])
                                      /\ \E m \in DOMAIN s : Tail(s)[n] = s[m]
<1>1. PICK S : s \in Seq(S)
  BY DEF TodoOK, IsSequence
<1>2. /\ Len(s) \in Nat /\ DOMAIN s = 1..Len(s) /\ Len(s) # 0
  BY <1>1, LenProperties, EmptySeq
<1>3. /\ Tail(s) \in Seq(S) /\ Len(Tail(s)) = Len(s) - 1 /\ Head(s) = s[1]
      /\ \A i \in 1..Len(Tail(s)) : Tail(s)[i] = s[i + 1]
  BY <1>1, HeadTailProperties
<1>4. DOMAIN Tail(s) = 1..Len(s) - 1
  BY <1>3, LenProperties
<1>5. 1 \in DOMAIN s
  BY <1>2
<1>6. \A i \in DOMAIN Tail(s) : /\ i \in Nat /\ i + 1 \in DOMAIN s /\ 1 < i + 1
                                /\ Tail(s)[i] = s[i + 1]
  BY <1>2, <1>3, <1>4
<1>7. \A i \in DOMAIN Tail(s) : ItemOK(Tail(s)[i], D, W) /\ Apart(Head(s), Tail(s)[i])
  BY <1>3, <1>5, <1>6 DEF TodoOK
<1>8. ASSUME NEW m \in DOMAIN Tail(s), NEW n \in DOMAIN Tail(s), m < n
      PROVE  Apart(Tail(s)[m], Tail(s)[n])
  <2>1. m + 1 < n + 1
    BY <1>6, <1>8
  <2> QED
    BY <1>6, <2>1 DEF TodoOK
<1>9. TodoOK(Tail(s), D, W)
  BY <1>3, <1>7, <1>8 DEF TodoOK, IsSequence
<1> QED
  BY <1>3, <1>5, <1>6, <1>7, <1>9 DEF TodoOK

\* What is left is still there.
LEMMA TailPresent ==
  ASSUME NEW s, NEW D, NEW W, TodoOK(s, D, W), s # <<>>, NEW view, AllPresent(view, s)
  PROVE  AllPresent(view, Tail(s))
  BY TailTodo DEF AllPresent

\* No work.
LEMMA EmptyTodo ==
  ASSUME NEW D, NEW W, NEW view
  PROVE  TodoOK(<<>>, D, W) /\ AllPresent(view, <<>>)
<1>1. <<>> \in Seq({}) /\ DOMAIN <<>> = {}
  OBVIOUS
<1> QED
  BY <1>1 DEF TodoOK, AllPresent, IsSequence

\* An item is replaced.
LEMMA ExpandedTodo ==
  ASSUME NEW view, NEW req, NEW s, NEW D, NEW W, TodoOK(s, D, W), s # <<>>,
         ~IsCall(Head(s)), NEW q \in Expand(view, req, Head(s))
  PROVE  /\ TodoOK(q \o Tail(s), D, W)
         /\ AllPresent(view, s) => AllPresent(view, q \o Tail(s))
<1> DEFINE u == Tail(s)
           h == Head(s)
<1>1. /\ 1 \in DOMAIN s /\ h = s[1] /\ ItemOK(h, D, W) /\ TodoOK(u, D, W)
      /\ \A n \in DOMAIN u : Apart(h, u[n])
  BY TailTodo
<1>2. AllPresent(view, s) => Present(view, h) /\ AllPresent(view, u)
  BY <1>1, TailPresent DEF AllPresent
<1> HIDE DEF u, h
<1>3. Replaces(q, h, view, D, W)
  BY <1>1, ExpandReplaces DEF h
<1>4. TodoOK(q, D, W) /\ (Present(view, h) => AllPresent(view, q))
      /\ \A m \in DOMAIN q : \A n \in DOMAIN u : Apart(q[m], u[n])
  BY <1>1, <1>3 DEF Replaces
<1>5. TodoOK(q \o u, D, W) /\ Joins(q \o u, q, u)
  <2>1. TodoOK(q, D, W) /\ TodoOK(u, D, W)
    BY <1>1, <1>4
  <2>2. \A m \in DOMAIN q : \A n \in DOMAIN u : Apart(q[m], u[n])
    BY <1>4
  <2> QED
    BY <2>1, <2>2, TodoConcat
<1> DEFINE c == q \o u
<1> HIDE DEF c
<1>6. \A n \in DOMAIN c : (\E m \in DOMAIN q : c[n] = q[m]) \/ (\E m \in DOMAIN u : c[n] = u[m])
  BY <1>5 DEF c, Joins
<1>7. AllPresent(view, s) => AllPresent(view, c)
  BY <1>2, <1>4, <1>6 DEF AllPresent
<1> QED
  BY <1>5, <1>7 DEF u, c

(***************************************************************************)
(* The work of a request.                                                  *)
(***************************************************************************)
\* Deleting tables.
LEMMA TablesWork ==
  ASSUME NEW view, NEW D, NEW T \in SUBSET Table, NEW s \in SetToSeqs(T), NEW w,
         w = [i \in DOMAIN s |-> TableItem("table", s[i])],
         \A t \in T : t \in D /\ ChildTables(t) \subseteq D
  PROVE  TodoOK(w, D, Table) /\ AllPresent(view, w)
<1>1. IsFiniteSet(T)
  BY FS_Subset, SchemaAssumption
<1>2. DOMAIN s = 1..Len(s) /\ Len(s) \in Nat /\ \A i \in 1..Len(s) : s[i] \in T
  BY <1>1, SeqsOfSet
<1>3. \A i \in DOMAIN w : w[i].do = "table" /\ w[i].row[1] \in T
  BY <1>2 DEF TableItem, Item
<1>4. IsSequence(w)
  <2> DEFINE C == {w[i] : i \in 1..Len(s)}
  <2>1. w \in [1..Len(s) -> C]
    BY <1>2
  <2> HIDE DEF C
  <2>2. w \in Seq(C)
    BY <1>2, <2>1
  <2> QED
    BY <2>2 DEF IsSequence
<1>5. ASSUME NEW x, x.do = "table", x.row[1] \in T
      PROVE  /\ ItemOK(x, D, Table) /\ Present(view, x) /\ Deleting(x) /\ ~DeletesRow(x)
  BY <1>5 DEF ItemOK, Present, Deleting, DeletesRow, Kinds
<1>6. \A x, y : x.do = "table" /\ y.do = "table" => Apart(x, y)
  BY DEF Apart, Deleting, DeletesRow
<1> HIDE DEF Apart, ItemOK, Present
<1> QED
  BY <1>3, <1>4, <1>5, <1>6 DEF TodoOK, AllPresent

\* Writing rows, or deleting fields of them.
LEMMA RowsWork ==
  ASSUME NEW view, NEW D, NEW result, DOMAIN result.rows \in SUBSET Row,
         NEW s \in SetToSeqs(DOMAIN result.rows), NEW w,
         w = [i \in DOMAIN s |-> RowItem(result, s[i])],
         \A r \in DOMAIN result.rows :
           \/ result.op \in {"create", "update", "replace"}
           \/ result.op = "delete" /\ result.rows[r] # Absent
  PROVE  TodoOK(w, D, Table) /\ AllPresent(view, w)
<1> DEFINE R == DOMAIN result.rows
<1>1. IsFiniteSet(R)
  BY FS_Subset, SchemaAssumption
<1>2. DOMAIN s = 1..Len(s) /\ Len(s) \in Nat /\ \A i \in 1..Len(s) : s[i] \in R
  BY <1>1, SeqsOfSet
<1> DEFINE Writes(x) == /\ x.row \in Row
                        /\ \/ x.do \in {"create", "update", "replace"}
                           \/ x.do = "delete" /\ x.data # Absent
<1>3. \A i \in DOMAIN w : Writes(w[i])
  <2>1. \A r \in R : LET x == RowItem(result, r)
                     IN x.do = result.op /\ x.row = r /\ x.data = result.rows[r]
    BY DEF RowItem, Item
  <2> QED
    BY <1>2, <2>1
<1>4. IsSequence(w)
  <2> DEFINE C == {w[i] : i \in 1..Len(s)}
  <2>1. w \in [1..Len(s) -> C]
    BY <1>2
  <2> HIDE DEF C
  <2>2. w \in Seq(C)
    BY <1>2, <2>1
  <2> QED
    BY <2>2 DEF IsSequence
<1>5. \A x : Writes(x) => ~Deleting(x) /\ ~DeletesRow(x)
  BY DEF Deleting, DeletesRow
<1>6. \A r \in Row : r[1] \in Table
  BY SchemaAssumption
<1>7. \A x : Writes(x) => ItemOK(x, D, Table) /\ Present(view, x)
  BY <1>5, <1>6 DEF ItemOK, Present, Kinds, Deleting
<1>8. \A x, y : Writes(x) /\ Writes(y) => Apart(x, y)
  BY <1>5 DEF Apart
<1> HIDE DEF Writes
<1> QED
  BY <1>3, <1>4, <1>7, <1>8 DEF TodoOK, AllPresent

\* Deleting a row.
LEMMA RowWork ==
  ASSUME NEW view, NEW D, NEW row \in Row, row[1] \in D, ChildTables(row[1]) \subseteq D,
         IsPopulated(view[row]), NEW x, DeletesRow(x), x.row = row
  PROVE  TodoOK(<<x>>, D, Table) /\ AllPresent(view, <<x>>)
<1>1. ItemOK(x, D, Table)
  BY DEF ItemOK, Deleting, DeletesRow, Kinds
<1>2. TodoOK(<<x>>, D, Table) /\ DOMAIN <<x>> = {1} /\ <<x>>[1] = x
  BY <1>1, OneTodo
<1> QED
  BY <1>2 DEF AllPresent, Present

\* The only sequence of a set of one.
LEMMA SeqsOfOne ==
  ASSUME NEW x, NEW s \in SetToSeqs({x})
  PROVE  DOMAIN s = 1..1 /\ s[1] = x
<1>1. Cardinality({x}) = 1
  BY FS_Singleton
<1>2. s \in [1..1 -> {x}]
  BY <1>1 DEF SetToSeqs
<1> QED
  BY <1>2

\* A DELETE takes rows from the tables it names and from their child tables.
LEMMA NamedAreDeleted ==
  ASSUME NEW b, NEW req \in ToSet(b.requests), NEW t \in NamedTables(req)
  PROVE  t \in TablesDeleted(b) /\ ChildTables(t) \subseteq TablesDeleted(b)
<1>1. t \in DeletedTables(req) /\ ChildTables(t) \subseteq DeletedTables(req)
  BY DEF DeletedTables
<1>2. DeletedTables(req) \subseteq TablesDeleted(b)
  BY DEF TablesDeleted
<1> QED
  BY <1>1, <1>2

\* What is translated of a request.
LEMMA WritingWork ==
  ASSUME NEW req, DOMAIN req.data \subseteq Row,
         req.oper \in {"create", "update", "replace"},
         NEW D, NEW view, NEW w \in Work(XlateToDb(req))
  PROVE  TodoOK(w, D, Table) /\ AllPresent(view, w)
<1> DEFINE result == XlateToDb(req)
<1>1. result = MapCreate(req)
  BY DEF XlateToDb
<1>2. /\ result.tables = {} /\ DOMAIN result.rows = DOMAIN req.data
      /\ result.op \in {"create", "update", "replace"}
  BY <1>1 DEF MapCreate, ResultMap, Filled, OperationOf
<1> HIDE DEF result
<1>3. PICK s \in SetToSeqs(DOMAIN result.rows) :
        w = [i \in DOMAIN s |-> RowItem(result, s[i])]
  BY <1>2 DEF Work, result
<1> QED
  BY <1>2, <1>3, RowsWork

\* A DELETE is work on the tables that it names and their child tables.
LEMMA DeletingWork ==
  ASSUME NEW b, NEW req \in ToSet(b.requests), IsRequest(req), req.oper = "delete",
         NEW view, ParentExists(view, req), NEW w \in Work(XlateToDb(req))
  PROVE  TodoOK(w, TablesDeleted(b), Table) /\ AllPresent(view, w)
<1> DEFINE result == XlateToDb(req)
           D == TablesDeleted(b)
<1>0. /\ req.row \in Row /\ DOMAIN req.data \subseteq Row /\ req.level \in Levels
      /\ \A r \in DOMAIN req.data : DOMAIN req.data[r] # {}
      /\ req.row[1] \in Table
  BY SchemaAssumption DEF IsRequest
<1>1. result = MapDelete(req)
  BY DEF XlateToDb
<1>2. \A t \in NamedTables(req) : t \in D /\ ChildTables(t) \subseteq D
  BY NamedAreDeleted
<1> HIDE DEF D
<1>3. CASE req.level \in {"module", "table"}
  <2>1. /\ result.tables = NamedTables(req) /\ result.tables \subseteq Table
        /\ result.tables # {}
    <3>1. CASE req.level = "module"
      BY <1>0, <1>1, <3>1 DEF MapDelete, ResultMap, NamedTables
    <3>2. CASE req.level = "table"
      BY <1>0, <1>1, <3>2 DEF MapDelete, ResultMap, NamedTables
    <3> QED
      BY <1>3, <3>1, <3>2
  <2> HIDE DEF result
  <2>2. PICK s \in SetToSeqs(result.tables) :
          w = [i \in DOMAIN s |-> TableItem("table", s[i])]
    BY <2>1 DEF Work, SortDepTables, result
  <2> QED
    BY <1>2, <2>1, <2>2, TablesWork DEF D
<1>4. CASE req.level = "row"
  <2>1. /\ result.tables = {} /\ result.rows = With(NoRows, req.row, Absent)
        /\ result.op = "delete"
    BY <1>1, <1>4 DEF MapDelete, ResultMap
  <2>2. DOMAIN result.rows = {req.row} /\ result.rows[req.row] = Absent
    BY <2>1 DEF With, NoRows
  <2> HIDE DEF result
  <2>3. PICK s \in SetToSeqs({req.row}) :
          w = [i \in DOMAIN s |-> RowItem(result, s[i])]
    BY <2>1, <2>2 DEF Work, result
  <2>4. DOMAIN s = 1..1 /\ s[1] = req.row
    BY SeqsOfOne
  <2> DEFINE x == RowItem(result, req.row)
  <2>5. w = <<x>>
    BY <2>3, <2>4
  <2>6. DeletesRow(x) /\ x.row = req.row
    BY <2>1, <2>2 DEF RowItem, Item, DeletesRow
  <2>7. IsPopulated(view[req.row])
    BY <1>4 DEF ParentExists
  <2>8. req.row[1] \in D /\ ChildTables(req.row[1]) \subseteq D
    BY <1>2, <1>4 DEF NamedTables
  <2> HIDE DEF x
  <2>9. TodoOK(<<x>>, D, Table) /\ AllPresent(view, <<x>>)
    BY <1>0, <2>6, <2>7, <2>8, RowWork
  <2> QED
    BY <2>5, <2>9 DEF D
<1>5. CASE req.level \in {"field", "value"}
  <2>1. /\ result.tables = {} /\ DOMAIN result.rows \subseteq Row
        /\ \A r \in DOMAIN result.rows :
             result.op = "update" \/ (result.op = "delete" /\ result.rows[r] # Absent)
    <3>1. CASE req.level = "field"
      <4> DEFINE default == DefaultsOf[req.row[1]]
      <4>1. \/ result = ResultMap("update", {},
                          With(NoRows, req.row, With(Absent, req.field, default[req.field])), NoRows)
            \/ result = ResultMap("delete", {}, With(NoRows, req.row, With(Absent, req.field, {})), NoRows)
        BY <1>1, <3>1 DEF MapDelete, DeletedLeaf
      <4>2. \A x : DOMAIN With(Absent, req.field, x) # DOMAIN Absent
        BY DEF Absent, With
      <4>3. \A x : DOMAIN With(NoRows, req.row, x) = {req.row}
                  /\ With(NoRows, req.row, x)[req.row] = x
        BY DEF NoRows, With
      <4> QED
        BY <1>0, <4>1, <4>2, <4>3 DEF ResultMap
    <3>2. CASE req.level = "value"
      <4>1. result = ResultMap("delete", {}, req.data, NoRows)
        BY <1>1, <3>2 DEF MapDelete
      <4>2. \A x : DOMAIN x # {} => x # Absent
        BY DEF Absent
      <4> QED
        BY <1>0, <4>1, <4>2 DEF ResultMap
    <3> QED
      BY <1>5, <3>1, <3>2
  <2> HIDE DEF result
  <2>2. PICK s \in SetToSeqs(DOMAIN result.rows) :
          w = [i \in DOMAIN s |-> RowItem(result, s[i])]
    BY <2>1 DEF Work, result
  <2>3. \A r \in DOMAIN result.rows :
           \/ result.op \in {"create", "update", "replace"}
           \/ result.op = "delete" /\ result.rows[r] # Absent
    BY <2>1
  <2> QED
    BY <2>1, <2>2, <2>3, RowsWork
<1> QED
  BY <1>0, <1>3, <1>4, <1>5 DEF Levels

\* The requests of a batch.
LEMMA RequestsOfBatch ==
  ASSUME NEW b, IsBatch(b), NEW n \in 1..Len(b.requests)
  PROVE  /\ b.requests[n] \in ToSet(b.requests) /\ IsRequest(b.requests[n])
         /\ Len(b.requests) \in Nat /\ Len(b.requests) # 0
<1>1. b.requests \in Seq(ToSet(b.requests)) /\ b.requests # <<>>
  BY DEF IsBatch
<1>2. /\ DOMAIN b.requests = 1..Len(b.requests) /\ Len(b.requests) \in Nat
      /\ Len(b.requests) # 0
  BY <1>1, LenProperties, EmptySeq
<1>3. b.requests[n] \in ToSet(b.requests)
  BY <1>1, ElementOfSeq
<1> QED
  BY <1>2, <1>3 DEF IsBatch

\* A request, which Bulk may run as REPLACE.
LEMMA TranslatedWork ==
  ASSUME NEW b, IsBatch(b), NEW n \in 1..Len(b.requests),
         NEW req, req \in {b.requests[n], [b.requests[n] EXCEPT !.oper = "replace"]},
         NEW view, ParentExists(view, req), NEW w \in Work(XlateToDb(req))
  PROVE  TodoOK(w, TablesDeleted(b), Table) /\ AllPresent(view, w)
<1> DEFINE asked == b.requests[n]
<1>1. asked \in ToSet(b.requests) /\ IsRequest(asked)
  BY RequestsOfBatch
<1> HIDE DEF asked
<1>2. /\ req.oper = "delete" => req = asked
      /\ req.oper \in {"create", "update", "replace", "delete"}
      /\ DOMAIN req.data \subseteq Row
  <2>1. asked = Request(asked.oper, asked.level, asked.row, asked.field, asked.data,
                        asked.check, asked.keep)
    BY <1>1 DEF IsRequest
  <2>2. req = asked \/ req = [asked EXCEPT !.oper = "replace"]
    BY DEF asked
  <2>3. CASE req = asked
    BY <1>1, <2>3 DEF IsRequest
  <2>4. CASE req = [asked EXCEPT !.oper = "replace"]
    <3>1. req.oper = "replace" /\ req.data = asked.data
      BY <2>1, <2>4 DEF Request
    <3> QED
      BY <1>1, <3>1 DEF IsRequest
  <2> QED
    BY <2>2, <2>3, <2>4
<1>3. CASE req.oper = "delete"
  BY <1>1, <1>2, <1>3, DeletingWork
<1>4. CASE req.oper # "delete"
  BY <1>2, <1>4, WritingWork
<1> QED
  BY <1>3, <1>4

(***************************************************************************)
(* The sizes that CVL keeps.                                               *)
(***************************************************************************)
\* The size of a table is a number.
LEMMA SizeIsNat ==
  ASSUME NEW view, NEW c \in CountsType, NEW k
  PROVE  /\ Cardinality(Existing(view, k)) \in Nat /\ Size(view, c, k) \in Nat
         /\ k \in DOMAIN c => c[k] \in Nat /\ k \in Table
<1>1. Cardinality(Existing(view, k)) \in Nat
  BY ExistingFinite, FS_CardinalityType
<1>2. k \in DOMAIN c => c[k] \in Nat /\ k \in Table
  BY DEF CountsType
<1> QED
  BY <1>1, <1>2 DEF Size

\* A count that is kept for one more table.
LEMMA WithCount ==
  ASSUME NEW c \in CountsType, NEW k \in Table, NEW n \in Nat
  PROVE  With(c, k, n) \in CountsType
<1>1. PICK S \in SUBSET Table : c \in [S -> Nat]
  BY DEF CountsType
<1>2. With(c, k, n) \in [S \cup {k} -> Nat]
  BY <1>1 DEF With
<1>3. S \cup {k} \in SUBSET Table
  BY <1>1
<1> QED
  BY <1>2, <1>3 DEF CountsType

\* The counts of the other tables than t.
SameElsewhere(d, c, t) ==
  \A k : k # t => /\ k \in DOMAIN d <=> k \in DOMAIN c
                  /\ k \in DOMAIN c => d[k] = c[k]

\* Recount of an edit only counts its own table.
LEMMA RecountType ==
  ASSUME NEW view, NEW c \in CountsType, NEW e
  PROVE  /\ Recount(view, c, e) \in CountsType
         /\ DOMAIN Recount(view, c, e) \subseteq DOMAIN c \cup {e.row[1]}
         /\ SameElsewhere(Recount(view, c, e), c, e.row[1])
<1>1. CASE ~(HasLimit(e) /\ (e.op = "create" \/ WholeDelete(e)))
  BY <1>1 DEF Recount, SameElsewhere
<1>2. CASE HasLimit(e) /\ (e.op = "create" \/ WholeDelete(e))
  <2>1. PICK new : /\ Recount(view, c, e) = With(c, e.row[1], new)
                   /\ LET size == Size(view, c, e.row[1])
                      IN new = CASE e.op = "create" /\ ~Full(view, c, e) -> size + 1
                                 [] WholeDelete(e) /\ size > 0 -> size - 1
                                 [] OTHER -> size
    BY <1>2 DEF Recount
  <2> DEFINE size == Size(view, c, e.row[1])
  <2>2. size \in Nat
    BY SizeIsNat
  <2>3. ~(e.op = "create" /\ WholeDelete(e))
    BY DEF WholeDelete
  <2>4. new \in {size + 1, size - 1, size} /\ (new = size - 1 => size > 0 \/ new = size)
    <3>1. CASE e.op = "create" /\ ~Full(view, c, e)
      BY <2>1, <2>2, <2>3, <3>1
    <3>2. CASE WholeDelete(e) /\ size > 0
      BY <2>1, <2>2, <2>3, <3>2
    <3>3. CASE ~(e.op = "create" /\ ~Full(view, c, e)) /\ ~(WholeDelete(e) /\ size > 0)
      BY <2>1, <3>3
    <3> QED
      BY <3>1, <3>2, <3>3
  <2> HIDE DEF size
  <2>5. new \in Nat
    BY <2>2, <2>4
  <2>6. e.row[1] \in Table
    BY <1>2, SchemaAssumption DEF HasLimit
  <2>7. With(c, e.row[1], new) \in CountsType
    BY <2>5, <2>6, WithCount
  <2> QED
    BY <2>1, <2>7 DEF With, SameElsewhere
<1> QED
  BY <1>1, <1>2

\* Fewer rows are covered as well.
LEMMA CoversFewer ==
  ASSUME NEW E, NEW F, F \subseteq E, IsFiniteSet(E), NEW X, NEW c \in CountsType,
         NEW k, Covers(E, X, c, k)
  PROVE  Covers(F, X, c, k)
<1>1. IsFiniteSet(F) /\ Cardinality(F) <= Cardinality(E)
  BY FS_Subset
<1>2. Cardinality(E) \in Nat /\ Cardinality(F) \in Nat
  BY <1>1, FS_CardinalityType
<1>3. k \in DOMAIN c => c[k] \in Nat
  BY DEF CountsType
<1> QED
  BY <1>1, <1>2, <1>3 DEF Covers

\* Counting the creation of a row: it is there if it is accepted.
LEMMA CreationCovered ==
  ASSUME NEW view, NEW c \in CountsType, NEW k \in DOMAIN MaxElements, NEW X,
         NEW e, e.op = "create", e.row[1] = k,
         Covers(Existing(view, k), X, c, k)
  PROVE  /\ Covers(Existing(view, k), X, Recount(view, c, e), k)
         /\ ~Full(view, c, e) /\ e.row \notin Existing(view, k) =>
              Covers(Existing(view, k) \cup {e.row}, X, Recount(view, c, e), k)
<1> DEFINE E == Existing(view, k)
           size == Size(view, c, k)
           new == IF Full(view, c, e) THEN size ELSE size + 1
           n == Cardinality(E)
           max == MaxElements[k]
<1>1. n \in Nat /\ size \in Nat /\ (k \in DOMAIN c => c[k] \in Nat) /\ max \in Nat
  BY SizeIsNat, SchemaAssumption
<1>2. HasLimit(e) /\ ~WholeDelete(e)
  BY DEF HasLimit, WholeDelete
<1>3. Full(view, c, e) <=> size >= max
  BY <1>2 DEF Full
<1>4. Recount(view, c, e) = With(c, k, new)
  BY <1>2 DEF Recount
<1>5. n <= size
  BY <1>1 DEF Size, Covers
<1>6. (k \in DOMAIN c => c[k] = size) /\ (k \notin DOMAIN c \/ size > max => E \subseteq X)
  BY DEF Size, Covers
<1>7. IsFiniteSet(E) /\ (e.row \notin E => Cardinality(E \cup {e.row}) = n + 1)
  BY ExistingFinite, FS_AddElement
<1> DEFINE d == Recount(view, c, e)
<1>8. k \in DOMAIN d /\ d[k] = new
  BY <1>4 DEF With
<1> HIDE DEF E, size, n, max, d
<1>9. n <= new /\ (new > max => E \subseteq X)
  BY <1>1, <1>3, <1>5, <1>6
<1>10. ~Full(view, c, e) => n + 1 <= new /\ ~(new > max)
  BY <1>1, <1>3, <1>5
<1> HIDE DEF new
<1> QED
  BY <1>7, <1>8, <1>9, <1>10 DEF Covers, n, max, d, E

\* Counting the deletion of a row that is there.
LEMMA DeletionCovered ==
  ASSUME NEW view, NEW c \in CountsType, NEW k \in DOMAIN MaxElements, NEW X,
         NEW e, WholeDelete(e), e.row \in Existing(view, k),
         Covers(Existing(view, k), X, c, k)
  PROVE  Covers(Existing(view, k) \ {e.row}, X, Recount(view, c, e), k)
<1> DEFINE E == Existing(view, k)
           size == Size(view, c, k)
           n == Cardinality(E)
           max == MaxElements[k]
<1>1. n \in Nat /\ size \in Nat /\ (k \in DOMAIN c => c[k] \in Nat) /\ max \in Nat
  BY SizeIsNat, SchemaAssumption
<1>2. e.row[1] = k /\ IsFiniteSet(E)
  BY ExistingFinite
<1>3. HasLimit(e) /\ e.op # "create"
  BY <1>2 DEF HasLimit, WholeDelete
<1>4. n <= size
  BY <1>1 DEF Size, Covers
<1>5. Cardinality(E \ {e.row}) = n - 1
  BY <1>2, FS_RemoveElement
<1>6. n # 0
  BY <1>2, FS_EmptySet
<1>7. size > 0
  BY <1>1, <1>4, <1>6
<1>8. Recount(view, c, e) = With(c, k, size - 1)
  BY <1>2, <1>3, <1>7 DEF Recount
<1>9. (k \in DOMAIN c => c[k] = size) /\ (k \notin DOMAIN c \/ size > max => E \subseteq X)
  BY DEF Size, Covers
<1> DEFINE d == Recount(view, c, e)
<1>10. k \in DOMAIN d /\ d[k] = size - 1
  BY <1>8 DEF With
<1> HIDE DEF E, size, n, max, d
<1>11. Cardinality(E \ {e.row}) <= size - 1 /\ (size - 1 > max => E \subseteq X)
  BY <1>1, <1>4, <1>5, <1>9
<1> QED
  BY <1>10, <1>11 DEF Covers, max, d, E

\* Counting an edit of another table.
LEMMA OtherCovered ==
  ASSUME NEW view, NEW c \in CountsType, NEW k, NEW E, NEW X, NEW e, e.row[1] # k,
         Covers(E, X, c, k)
  PROVE  Covers(E, X, Recount(view, c, e), k)
<1> DEFINE d == Recount(view, c, e)
<1>1. SameElsewhere(d, c, e.row[1])
  BY RecountType
<1> HIDE DEF d
<1>2. (k \in DOMAIN d <=> k \in DOMAIN c) /\ (k \in DOMAIN c => d[k] = c[k])
  BY <1>1 DEF SameElsewhere
<1>3. Covers(E, X, d, k)
  BY <1>2 DEF Covers
<1> QED
  BY <1>3 DEF d

(***************************************************************************)
(* What a call does to the sizes.                                          *)
(***************************************************************************)
\* The edits of a call, one case per way of counting.
LEMMA CallCases ==
  ASSUME NEW view, NEW h, IsCall(h), h.do = "DeleteEntryFields" => DOMAIN h.data # {},
         NEW c, NEW edits, edits = EditsOf(view, h), NEW d, d = CountsAfter(view, c, edits)
  PROVE  \/ /\ h.do # "DeleteEntry" /\ Modifies(edits, h.row) /\ d = c
         \/ \E e : /\ edits = <<e>> /\ d = Recount(view, c, e) /\ e.row = h.row
                   /\ \/ h.do = "DeleteEntry" /\ WholeDelete(e)
                      \/ h.do # "DeleteEntry" /\ e.op = "create"
<1>1. CASE h.do = "DeleteEntry"
  <2> DEFINE e == Edit(h.row, "delete", Absent)
  <2>1. edits = <<e>>
    BY <1>1, EditsCases
  <2>2. e.row = h.row /\ WholeDelete(e)
    BY DEF Edit, WholeDelete, Absent
  <2> HIDE DEF e
  <2>3. d = Recount(view, c, e)
    BY <2>1, CountsAfterOne
  <2> QED
    BY <1>1, <2>1, <2>2, <2>3
<1>2. CASE h.do # "DeleteEntry" /\ Creates(edits, h.row)
  <2>1. PICK x : edits = <<Edit(h.row, "create", x)>>
    BY <1>2 DEF Creates
  <2> DEFINE e == Edit(h.row, "create", x)
  <2>2. e.row = h.row /\ e.op = "create"
    BY DEF Edit
  <2> HIDE DEF e
  <2>3. edits = <<e>> /\ d = Recount(view, c, e)
    BY <2>1, CountsAfterOne DEF e
  <2> QED
    BY <1>2, <2>2, <2>3
<1>3. CASE h.do # "DeleteEntry" /\ Modifies(edits, h.row)
  BY <1>3, ModifiesCountNothing
<1> QED
  BY <1>1, <1>2, <1>3, EditsCases

\* Only the table of the call is counted.
LEMMA CallCounts ==
  ASSUME NEW view, NEW h, IsCall(h), h.do = "DeleteEntryFields" => DOMAIN h.data # {},
         NEW c \in CountsType, NEW d, d = CountsAfter(view, c, EditsOf(view, h))
  PROVE  d \in CountsType /\ DOMAIN d \subseteq DOMAIN c \cup {h.row[1]}
<1> DEFINE edits == EditsOf(view, h)
<1>1. \/ d = c
      \/ \E e : d = Recount(view, c, e) /\ e.row = h.row
  BY CallCases
<1> QED
  BY <1>1, RecountType

\* The rows that are there stay covered, but for a deletion of one.
LEMMA CallCovered ==
  ASSUME NEW view, NEW h, IsCall(h), h.do = "DeleteEntryFields" => DOMAIN h.data # {},
         NEW c \in CountsType, NEW d, d = CountsAfter(view, c, EditsOf(view, h)),
         NEW k \in DOMAIN MaxElements, NEW X, Covers(Existing(view, k), X, c, k),
         h.do # "DeleteEntry" \/ h.row[1] # k
  PROVE  Covers(Existing(view, k), X, d, k)
<1>1. \/ d = c
      \/ \E e : /\ d = Recount(view, c, e) /\ e.row = h.row
                /\ h.do = "DeleteEntry" \/ e.op = "create"
  BY CallCases
<1>2. CASE d = c
  BY <1>2
<1>3. ASSUME NEW e, d = Recount(view, c, e), e.row = h.row,
             h.do = "DeleteEntry" \/ e.op = "create"
      PROVE  Covers(Existing(view, k), X, d, k)
  <2>1. CASE e.row[1] # k
    BY <1>3, <2>1, OtherCovered
  <2>2. CASE e.row[1] = k
    BY <1>3, <2>2, CreationCovered
  <2> QED
    BY <2>1, <2>2
<1> QED
  BY <1>1, <1>2, <1>3

\* The edits are those of the row.
LEMMA EditsOfRow ==
  ASSUME NEW edits, NEW row, Modifies(edits, row)
  PROVE  DOMAIN edits \in SUBSET Nat /\ 1 \in DOMAIN edits
         /\ edits[1].row = row /\ edits[1].op # "create"
<1>1. \A x, op : Edit(row, op, x).row = row /\ Edit(row, op, x).op = op
  BY DEF Edit
<1>2. \A x : DOMAIN <<x>> = 1..1 /\ <<x>>[1] = x
  OBVIOUS
<1>3. \A x, y : DOMAIN <<x, y>> = 1..2 /\ <<x, y>>[1] = x
  OBVIOUS
<1>4. 1..1 \in SUBSET Nat /\ 1..2 \in SUBSET Nat /\ 1 \in 1..1 /\ 1 \in 1..2
  OBVIOUS
<1>5. CASE \E x : edits = <<Edit(row, "update", x)>>
  BY <1>1, <1>2, <1>4, <1>5
<1>6. CASE \E x : edits = <<Edit(row, "delete", x)>>
  BY <1>1, <1>2, <1>4, <1>6
<1>7. CASE \E x, y : edits = <<Edit(row, "update", x), Edit(row, "delete", y)>>
  BY <1>1, <1>3, <1>4, <1>7
<1> QED
  BY <1>5, <1>6, <1>7 DEF Modifies

\* When the edits are accepted, the rows there may be are covered.
LEMMA AcceptedCovered ==
  ASSUME NEW view, NEW h, IsCall(h), h.do = "DeleteEntryFields" => DOMAIN h.data # {},
         h.row \in Row, NEW cache,
         NEW c \in CountsType, NEW d, d = CountsAfter(view, c, EditsOf(view, h)),
         ValidateEditConfig(view, cache, c, EditsOf(view, h)) = "ok",
         NEW k \in DOMAIN MaxElements, NEW X, Covers(Existing(view, k), X, c, k)
  PROVE  Covers(Coming(view, h, k), X, d, k)
<1> DEFINE E == Existing(view, k)
           edits == EditsOf(view, h)
<1>1. IsFiniteSet(E) /\ E \subseteq Row
  BY ExistingFinite
<1>2. \A r \in Row : r \in E <=> r[1] = k /\ IsPopulated(view[r])
  BY DEF Existing, RowsOf
<1>3. h.row[1] # k => Coming(view, h, k) = E
  <2> SUFFICES ASSUME h.row[1] # k PROVE Coming(view, h, k) = E
    OBVIOUS
  <2>1. h.row \notin E /\ {r \in RowsOf(k) : r = h.row} = {}
    BY <1>2 DEF RowsOf
  <2> QED
    BY <2>1 DEF Coming
<1>4. CASE h.row[1] # k
  <2>1. Covers(E, X, d, k)
    BY <1>4, CallCovered
  <2> QED
    BY <1>3, <1>4, <2>1
<1>5. CASE h.row[1] = k /\ h.do # "DeleteEntry" /\ Modifies(edits, h.row) /\ d = c
  <2> HIDE DEF edits
  <2>1. DOMAIN edits \in SUBSET Nat /\ 1 \in DOMAIN edits
        /\ edits[1].row = h.row /\ edits[1].op # "create"
    BY <1>5, EditsOfRow
  <2>2. IsPopulated(view[h.row])
    BY <2>1, ValidateResult DEF edits
  <2>3. Coming(view, h, k) = E
    BY <1>2, <1>5, <2>2 DEF Coming
  <2> QED
    BY <1>5, <2>3
<1>6. ASSUME NEW e, edits = <<e>>, d = Recount(view, c, e), e.row = h.row, h.row[1] = k
      PROVE  /\ h.do = "DeleteEntry" /\ WholeDelete(e) => Covers(Coming(view, h, k), X, d, k)
             /\ h.do # "DeleteEntry" /\ e.op = "create" => Covers(Coming(view, h, k), X, d, k)
  <2> HIDE DEF edits
  <2>1. DOMAIN edits = 1..1 /\ edits[1] = e
    BY <1>6
  <2>2. DOMAIN edits \in SUBSET Nat /\ 1 \in DOMAIN edits
    BY <2>1
  <2>3. /\ IsPopulated(view[h.row]) <=> e.op # "create"
        /\ e.op = "create" => ~Full(view, c, e)
    BY <1>6, <2>1, <2>2, ValidateResult DEF edits
  <2>4. ASSUME h.do = "DeleteEntry", WholeDelete(e)
        PROVE  Covers(Coming(view, h, k), X, d, k)
    <3>1. e.row \in E
      BY <1>2, <1>6, <2>3, <2>4 DEF WholeDelete
    <3>2. Covers(E \ {e.row}, X, d, k)
      BY <1>6, <2>4, <3>1, DeletionCovered
    <3>3. Coming(view, h, k) = E \ {e.row}
      BY <1>6, <2>4 DEF Coming
    <3> QED
      BY <3>2, <3>3
  <2>5. ASSUME h.do # "DeleteEntry", e.op = "create"
        PROVE  Covers(Coming(view, h, k), X, d, k)
    <3>1. e.row \notin E
      BY <1>2, <1>6, <2>3, <2>5
    <3>2. Covers(E \cup {e.row}, X, d, k)
      BY <1>6, <2>3, <2>5, <3>1, CreationCovered
    <3>3. {r \in RowsOf(k) : r = h.row} = {h.row}
      BY <1>6 DEF RowsOf
    <3>4. Coming(view, h, k) = E \cup {e.row}
      BY <1>6, <2>5, <3>3 DEF Coming
    <3> QED
      BY <3>2, <3>4
  <2> QED
    BY <2>4, <2>5
<1>7. \/ h.do # "DeleteEntry" /\ Modifies(edits, h.row) /\ d = c
      \/ \E e : /\ edits = <<e>> /\ d = Recount(view, c, e) /\ e.row = h.row
                /\ \/ h.do = "DeleteEntry" /\ WholeDelete(e)
                   \/ h.do # "DeleteEntry" /\ e.op = "create"
  BY CallCases
<1> QED
  BY <1>4, <1>5, <1>6, <1>7

\* A deletion that finds no row.
LEMMA RefusedAbsent ==
  ASSUME NEW view, NEW h, h.do = "DeleteEntry", NEW cache, NEW c,
         ValidateEditConfig(view, cache, c, EditsOf(view, h)) = "not-exist"
  PROVE  ~IsPopulated(view[h.row])
<1> DEFINE e == Edit(h.row, "delete", Absent)
           edits == EditsOf(view, h)
<1>1. edits = <<e>>
  BY DEF EditsOf
<1>2. e.row = h.row
  BY DEF Edit
<1> HIDE DEF e, edits
<1>3. DOMAIN edits = 1..1 /\ edits[1] = e
  BY <1>1
<1>4. DOMAIN edits \in SUBSET Nat /\ \A i \in DOMAIN edits : i = 1
  BY <1>3
<1>5. \E i \in DOMAIN edits : ~IsPopulated(view[edits[i].row])
  BY <1>4, ValidateResult DEF edits
<1> QED
  BY <1>2, <1>3, <1>4, <1>5

(***************************************************************************)
(* The steps of a process.                                                 *)
(***************************************************************************)
\* The functions that the steps change at one process.
Domains ==
  /\ DOMAIN batch = Process /\ DOMAIN at = Process /\ DOMAIN todo = Process
  /\ DOMAIN overlap = Process /\ DOMAIN ignored = Process

\* They stay such functions, and a step of p changes them at p only.
OwnStep(p) ==
  /\ DOMAIN batch' = Process /\ DOMAIN at' = Process /\ DOMAIN todo' = Process
  /\ DOMAIN ignored' = Process
  /\ \A q \in Process : q # p =>
       /\ pc'[q] = pc[q] /\ batch'[q] = batch[q] /\ at'[q] = at[q]
       /\ todo'[q] = todo[q] /\ ignored'[q] = ignored[q]

\* A step of p changes what is kept per process at p only.
LEMMA StepIsOwn ==
  ASSUME Domains, PcShape, NEW p \in Process, Begin(p) \/ Step(p)
  PROVE  OwnStep(p)
<1>1. ASSUME NEW place, Goto(p, place)
      PROVE  \A q \in Process : q # p => pc'[q] = pc[q]
  BY <1>1 DEF Goto, PcShape
<1>2. ASSUME NotFound(p)
      PROVE  /\ DOMAIN todo' = Process
             /\ \A q \in Process : q # p => pc'[q] = pc[q] /\ todo'[q] = todo[q]
  <2>1. todo' = [todo EXCEPT ![p] = <<>>] /\ \E place : Goto(p, place)
    BY <1>2 DEF NotFound
  <2> QED
    BY <1>1, <2>1 DEF Domains
<1>3. ASSUME NEW e, ReturnsError(p, e)
      PROVE  /\ DOMAIN todo' = Process /\ DOMAIN ignored' = Process
             /\ \A q \in Process : q # p =>
                  pc'[q] = pc[q] /\ todo'[q] = todo[q] /\ ignored'[q] = ignored[q]
  <2>1. CASE NotFound(p) /\ UNCHANGED ignored
    BY <1>2, <2>1 DEF Domains
  <2>2. CASE /\ todo' = [todo EXCEPT ![p] = Tail(@)]
             /\ ignored' = [ignored EXCEPT ![p] = @ \/ Head(todo[p]).onErr = "ignore"]
             /\ Goto(p, "process")
    BY <1>1, <2>2 DEF Domains
  <2>3. CASE /\ todo' = [todo EXCEPT ![p] = <<>>] /\ Goto(p, "failed")
             /\ UNCHANGED ignored
    BY <1>1, <2>3 DEF Domains
  <2> QED
    BY <1>3, <2>1, <2>2, <2>3 DEF ReturnsError
<1>4. CASE Begin(p)
  BY <1>1, <1>4 DEF Begin, OwnStep, Domains
<1>5. CASE Translate(p)
  <2>1. /\ UNCHANGED <<batch, at, ignored>> /\ Goto(p, "watch")
        /\ \E w : todo' = [todo EXCEPT ![p] = w]
    BY <1>5 DEF Translate
  <2> QED
    BY <1>1, <2>1 DEF OwnStep, Domains
<1>6. CASE TranslateNotFound(p)
  BY <1>2, <1>6 DEF TranslateNotFound, OwnStep, Domains
<1>7. CASE Watch(p)
  <2>1. UNCHANGED <<batch, at, ignored, todo>> /\ Goto(p, "process")
    BY <1>7 DEF Watch
  <2> QED
    BY <1>1, <2>1 DEF OwnStep, Domains
<1>8. CASE ExpandItem(p)
  <2>1. /\ UNCHANGED <<batch, at, ignored, pc>>
        /\ \E w : todo' = [todo EXCEPT ![p] = w]
    BY <1>8 DEF ExpandItem
  <2> QED
    BY <2>1 DEF OwnStep, Domains
<1>9. CASE Validate(p)
  <2>1. /\ UNCHANGED <<batch, at>>
        /\ \/ Goto(p, "write") /\ UNCHANGED <<todo, ignored>>
           \/ \E e : ReturnsError(p, e)
    BY <1>9 DEF Validate
  <2> QED
    BY <1>1, <1>3, <2>1 DEF OwnStep, Domains
<1>10. CASE LockRefused(p)
  BY <1>3, <1>10 DEF LockRefused, OwnStep, Domains
<1>11. CASE Write(p)
  <2>1. /\ UNCHANGED <<batch, at, ignored>> /\ Goto(p, "process")
        /\ todo' = [todo EXCEPT ![p] = Tail(@)]
    BY <1>11 DEF Write
  <2> QED
    BY <1>1, <2>1 DEF OwnStep, Domains
<1>12. CASE Processed(p) \/ NextRequest(p)
  BY <1>1, <1>12 DEF Processed, NextRequest, OwnStep, Domains
<1>13. CASE Commit(p)
  <2>1. UNCHANGED <<batch, at, ignored, todo>> /\ \E place : Goto(p, place)
    BY <1>13 DEF Commit
  <2> QED
    BY <1>1, <2>1 DEF OwnStep, Domains
<1>14. CASE Close(p)
  BY <1>1, <1>14 DEF Close, OwnStep, Domains
<1> QED
  BY <1>4, <1>5, <1>6, <1>7, <1>8, <1>9, <1>10, <1>11, <1>12, <1>13, <1>14 DEF Step

\* No step but a commit or a closing changes whether others overlap.
LEMMA OverlapStep ==
  ASSUME Domains, NEW p \in Process, Begin(p) \/ Step(p)
  PROVE  /\ DOMAIN overlap' = Process
         /\ ~Commit(p) => \A q \in Process : q # p => overlap'[q] = overlap[q]
         /\ ~Commit(p) /\ ~Close(p) => overlap' = overlap
<1>1. CASE Commit(p)
  BY <1>1 DEF Commit, Domains
<1>2. CASE Close(p)
  <2>1. overlap' = [overlap EXCEPT ![p] = FALSE]
    BY <1>2 DEF Close
  <2> QED
    BY <1>2, <2>1 DEF Domains
<1>3. CASE ~Commit(p) /\ ~Close(p)
  <2>1. overlap' = overlap
    BY <1>3 DEF Step, Begin, Translate, TranslateNotFound, Watch, ExpandItem,
                Validate, LockRefused, Write, Processed, NextRequest
  <2> QED
    BY <1>3, <2>1 DEF Domains
<1> QED
  BY <1>1, <1>2, <1>3

\* They stay functions on the processes.
LEMMA DomainsStep ==
  ASSUME Domains, PcShape, [Next]_vars
  PROVE  Domains'
<1>1. CASE UNCHANGED vars
  BY <1>1 DEF vars, Domains
<1>2. ASSUME NEW p \in Process, Begin(p) \/ Step(p)
      PROVE  Domains'
  BY <1>2, StepIsOwn, OverlapStep DEF OwnStep, Domains
<1> QED
  BY <1>1, <1>2 DEF Next

\* The transaction of another process, but for a commit.
LEMMA OtherTx ==
  ASSUME Shape, NEW p \in Process, Begin(p) \/ Step(p), ~Commit(p),
         NEW q \in Process, q # p
  PROVE  tx'[q] = tx[q] /\ db' = db
<1>1. ASSUME NEW t, tx' = [tx EXCEPT ![p] = t]
      PROVE  tx'[q] = tx[q]
  BY <1>1 DEF Shape
<1>2. CASE Aside(p)
  BY <1>2, AsideIsUnchanged
<1>3. CASE Watch(p)
  <2>1. db' = db /\ \E w : tx' = [tx EXCEPT ![p].watched = w]
    BY <1>3 DEF Watch
  <2> QED
    BY <2>1 DEF Shape
<1>4. CASE Validate(p)
  <2> DEFINE edits == EditsOf(View(p), Head(todo[p]))
             e == ValidateEditConfig(View(p), tx[p].cache, tx[p].counts, edits)
  <2>1. tx' = [tx EXCEPT
             ![p].cache = CacheAfter(tx[p].cache, edits, e),
             ![p].counts = CountsAfter(View(p), tx[p].counts, edits),
             ![p].now = IF e = "ok" THEN edits ELSE <<>>]
    BY <1>4 DEF Validate
  <2>2. db' = db
    BY <1>4 DEF Validate
  <2> HIDE DEF edits, e
  <2> QED
    BY <2>1, <2>2 DEF Shape
<1>5. CASE LockRefused(p)
  <2>1. db' = db /\ tx' = [tx EXCEPT ![p].now = <<>>]
    BY <1>5 DEF LockRefused
  <2> QED
    BY <2>1 DEF Shape
<1>6. CASE Write(p)
  <2> DEFINE row == Head(todo[p]).row
             w == Written(tx[p].now, View(p)[row])
  <2>1. tx' = [tx EXCEPT ![p].over = With(tx[p].over, row, w), ![p].now = <<>>]
    BY <1>6 DEF Write
  <2>2. db' = db
    BY <1>6 DEF Write
  <2> HIDE DEF row, w
  <2> QED
    BY <2>1, <2>2 DEF Shape
<1>7. CASE Close(p)
  BY <1>7 DEF Close, Shape
<1> QED
  BY <1>2, <1>3, <1>4, <1>5, <1>6, <1>7 DEF Step, Aside

\* So that it keeps what it knows.
LEMMA OtherKeeps ==
  ASSUME IInv, Domains, NEW p \in Process, Begin(p) \/ Step(p), ~Commit(p),
         NEW q \in Process, q # p, SizesInv(q)
  PROVE  SizesInv(q)'
<1>1. /\ pc'[q] = pc[q] /\ batch'[q] = batch[q] /\ at'[q] = at[q]
      /\ todo'[q] = todo[q] /\ ignored'[q] = ignored[q]
  BY StepIsOwn DEF OwnStep, IInv
<1>2. tx'[q] = tx[q] /\ db' = db /\ overlap'[q] = overlap[q]
  BY OtherTx, OverlapStep DEF IInv
<1> QED
  BY <1>1, <1>2 DEF SizesInv

\* A handle that goes on, or fails, with what it has.
LEMMA SizesMove ==
  ASSUME NEW d, NEW place, NEW place2, NEW s, NEW s2, NEW t, NEW t2,
         NEW D, NEW M, NEW M2,
         SizesOK(d, place, s, t, D, M), place # "write", place2 # "write",
         place2 \notin {"done", "failed"} => place \notin {"done", "failed"},
         t2.counts = t.counts, t2.over = t.over, t.watched \subseteq t2.watched,
         t2.stale = t.stale, M \subseteq M2
  PROVE  SizesOK(d, place2, s2, t2, D, M2)
<1>1. \A k : MayBe(d, place, s, t, k) = MayBe(d, place2, s2, t2, k)
  BY DEF MayBe
<1>2. DOMAIN t2.counts \subseteq D \cup t2.watched
      /\ \A r \in DOMAIN t2.over : r \in Row /\ r[1] \in D \cup t2.watched
  BY DEF SizesOK
<1> QED
  BY <1>1, <1>2 DEF SizesOK

\* Nothing written or counted.
LEMMA NewSizes ==
  ASSUME NEW d, NEW place, place # "write", NEW s, NEW D, NEW M
  PROVE  SizesOK(d, place, s, NewTx, D, M)
<1>1. NewTx.counts = NoCounts /\ NewTx.over = NoRows
  BY DEF NewTx, Tx
<1>2. NoCounts \in [{} -> Nat] /\ {} \in SUBSET Table
  BY DEF NoCounts
<1>3. NoCounts \in CountsType /\ DOMAIN NoCounts = {} /\ DOMAIN NoRows = {}
  BY <1>2 DEF CountsType, NoCounts, NoRows
<1>4. \A k : MayBe(d, place, s, NewTx, k) = Existing(d, k)
  <2> SUFFICES ASSUME NEW k PROVE MayBe(d, place, s, NewTx, k) = Existing(d, k)
    OBVIOUS
  <2>1. \A r \in Row : ViewOf(d, NoRows)[r] = d[r]
    BY <1>3 DEF ViewOf
  <2>2. Existing(ViewOf(d, NoRows), k) = Existing(d, k)
    BY <2>1 DEF Existing, RowsOf
  <2> QED
    BY <1>1, <2>2 DEF MayBe
<1> QED
  BY <1>1, <1>3, <1>4 DEF SizesOK, Covers

\* What holds of a handle that has no work.
LEMMA NoWork ==
  ASSUME NEW d, NEW place, place \in Places \ {"write"}, NEW b, NEW n, NEW t, NEW lap, NEW ign,
         IF place = "idle" THEN t = NewTx
         ELSE IsBatch(b) /\ n \in 1..Len(b.requests),
         SizesOK(d, place, <<>>, t, TablesDeleted(b),
                 IF lap \/ ign THEN TablesDeleted(b) ELSE {})
  PROVE  ProcessInv(d, place, b, n, <<>>, t, lap, ign)
<1>1. PhaseOK(place, b, n, <<>>, t)
  BY DEF PhaseOK
<1>2. TodoOK(<<>>, TablesDeleted(b), Watchable(place, t.watched))
      /\ AllPresent(ViewOf(d, t.over), <<>>)
  BY EmptyTodo
<1> QED
  BY <1>1, <1>2 DEF ProcessInv

\* A new batch has nothing written or counted.
LEMMA BeginKeeps ==
  ASSUME IInv, Domains, NEW p \in Process, Begin(p), SizesInv(p)
  PROVE  SizesInv(p)'
<1>1. /\ pc[p] = "idle" /\ pc'[p] = "translate" /\ tx' = tx /\ db' = db
      /\ at'[p] = 1 /\ todo' = todo
  BY DEF Begin, Goto, IInv, PcShape, Domains
<1>2. batch'[p] \in Batches[p]
  BY DEF Begin, Domains
<1>3. IsBatch(batch'[p])
  BY <1>2, BatchesAssumption
<1>4. todo[p] = <<>> /\ tx[p] = NewTx
  BY <1>1 DEF SizesInv, ProcessInv, PhaseOK, Working
<1> DEFINE b == batch'[p]
           M == IF overlap'[p] \/ ignored'[p] THEN TablesDeleted(b) ELSE {}
<1>5. 1 \in 1..Len(b.requests)
  <2>1. b.requests \in Seq(ToSet(b.requests)) /\ b.requests # <<>>
    BY <1>3 DEF IsBatch
  <2>2. Len(b.requests) \in Nat /\ Len(b.requests) # 0
    BY <2>1, LenProperties, EmptySeq
  <2> QED
    BY <2>2
<1>6. SizesOK(db, "translate", <<>>, NewTx, TablesDeleted(b), M)
  BY NewSizes
<1>7. ProcessInv(db, "translate", b, 1, <<>>, NewTx, overlap'[p], ignored'[p])
  BY <1>3, <1>5, <1>6, NoWork DEF Places
<1> QED
  BY <1>1, <1>4, <1>7 DEF SizesInv

\* A handle that is closed is forgotten.
LEMMA CloseKeeps ==
  ASSUME IInv, Domains, NEW p \in Process, Close(p), SizesInv(p)
  PROVE  SizesInv(p)'
<1>1. /\ pc'[p] = "idle" /\ tx'[p] = NewTx /\ db' = db /\ todo'[p] = <<>>
  BY DEF Close, Goto, IInv, PcShape, Domains, Shape
<1>2. SizesOK(db, "idle", <<>>, NewTx, TablesDeleted(batch'[p]),
              IF overlap'[p] \/ ignored'[p] THEN TablesDeleted(batch'[p]) ELSE {})
  BY NewSizes
<1>3. ProcessInv(db, "idle", batch'[p], at'[p], <<>>, NewTx, overlap'[p], ignored'[p])
  BY <1>2, NoWork DEF Places
<1> QED
  BY <1>1, <1>3 DEF SizesInv

\* The steps that end the work on a request, or find that there is none.
LEMMA RestKeeps ==
  ASSUME NEW p \in Process, SizesInv(p), UNCHANGED <<db, tx, batch, overlap, ignored>>,
         pc[p] \notin {"write", "idle", "done", "failed"},
         pc'[p] \in {"translate", "next", "failed"},
         todo'[p] = <<>>, at'[p] \in 1..Len(batch[p].requests)
  PROVE  SizesInv(p)'
<1> DEFINE D == TablesDeleted(batch[p])
           M == IF overlap[p] \/ ignored[p] THEN D ELSE {}
<1>1. SizesOK(db, pc[p], todo[p], tx[p], D, M) /\ IsBatch(batch[p])
  BY DEF SizesInv, ProcessInv, PhaseOK
<1>2. SizesOK(db, pc'[p], <<>>, tx[p], D, M)
  <2>1. pc'[p] # "write" /\ M \subseteq M
    OBVIOUS
  <2> HIDE DEF M, D
  <2> QED
    BY <1>1, <2>1, SizesMove
<1>3. pc'[p] \in Places \ {"write"} /\ pc'[p] # "idle"
  BY DEF Places
<1>4. ProcessInv(db, pc'[p], batch[p], at'[p], <<>>, tx[p], overlap[p], ignored[p])
  BY <1>1, <1>2, <1>3, NoWork
<1> QED
  BY <1>4 DEF SizesInv

\* The work of a request is done.
LEMMA ProcessedKeeps ==
  ASSUME IInv, Domains, NEW p \in Process, Processed(p), SizesInv(p)
  PROVE  SizesInv(p)'
<1>1. /\ pc[p] = "process" /\ pc'[p] = "next" /\ UNCHANGED <<db, tx, batch, overlap, ignored>>
      /\ todo'[p] = <<>> /\ at' = at
  BY DEF Processed, Goto, IInv, PcShape, Domains
<1>2. at[p] \in 1..Len(batch[p].requests)
  BY <1>1 DEF SizesInv, ProcessInv, PhaseOK
<1> QED
  BY <1>1, <1>2, RestKeeps

\* The next request starts without work, on what the handle has.
LEMMA NextRequestKeeps ==
  ASSUME IInv, Domains, NEW p \in Process, NextRequest(p), SizesInv(p)
  PROVE  SizesInv(p)'
<1>1. /\ pc[p] = "next" /\ pc'[p] = "translate" /\ UNCHANGED <<db, tx, batch, overlap, ignored>>
      /\ todo' = todo /\ at'[p] = at[p] + 1 /\ at[p] < Len(batch[p].requests)
  BY DEF NextRequest, Goto, IInv, PcShape, Domains
<1>2. at[p] \in 1..Len(batch[p].requests) /\ todo[p] = <<>> /\ IsBatch(batch[p])
  BY <1>1 DEF SizesInv, ProcessInv, PhaseOK, Working
<1>3. at'[p] \in 1..Len(batch[p].requests)
  BY <1>1, <1>2, RequestsOfBatch
<1> QED
  BY <1>1, <1>2, <1>3, RestKeeps

\* A request that finds no resource leaves no work.
LEMMA NotFoundKeeps ==
  ASSUME IInv, Domains, NEW p \in Process, TranslateNotFound(p), SizesInv(p)
  PROVE  SizesInv(p)'
<1>1. /\ pc[p] = "translate" /\ UNCHANGED <<db, tx, batch, at, overlap, ignored>> /\ NotFound(p)
  BY DEF TranslateNotFound
<1>2. todo'[p] = <<>> /\ pc'[p] \in {"translate", "next", "failed"}
  <2>1. /\ todo' = [todo EXCEPT ![p] = <<>>]
        /\ Goto(p, "next") \/ Goto(p, "translate") \/ Goto(p, "failed")
    BY <1>1 DEF NotFound
  <2> QED
    BY <2>1 DEF Goto, Domains, IInv, PcShape
<1>3. at[p] \in 1..Len(batch[p].requests)
  BY <1>1 DEF SizesInv, ProcessInv, PhaseOK
<1> QED
  BY <1>1, <1>2, <1>3, RestKeeps

\* View is the view of the handle.
LEMMA ViewIs ==
  ASSUME NEW p
  PROVE  View(p) = ViewOf(db, tx[p].over)
  BY DEF View, ViewOf

\* What a request is translated into is work that may be done.
LEMMA TranslateKeeps ==
  ASSUME IInv, Domains, NEW p \in Process, Translate(p), SizesInv(p)
  PROVE  SizesInv(p)'
<1>1. /\ pc[p] = "translate" /\ pc'[p] = "watch"
      /\ UNCHANGED <<db, tx, batch, at, overlap, ignored>>
      /\ ParentExists(View(p), Current(p))
  BY DEF Translate, Goto, IInv, PcShape
<1>2. todo'[p] \in Work(XlateToDb(Current(p)))
  BY DEF Translate, Domains
<1>3. IsBatch(batch[p]) /\ at[p] \in 1..Len(batch[p].requests)
  BY <1>1 DEF SizesInv, ProcessInv, PhaseOK
<1>4. Current(p) \in {batch[p].requests[at[p]],
                      [batch[p].requests[at[p]] EXCEPT !.oper = "replace"]}
  BY DEF Current, Asked
<1> DEFINE D == TablesDeleted(batch[p])
           M == IF overlap[p] \/ ignored[p] THEN D ELSE {}
           w == todo'[p]
<1>5. TodoOK(w, D, Table) /\ AllPresent(View(p), w)
  BY <1>1, <1>2, <1>3, <1>4, TranslatedWork
<1>6. SizesOK(db, "translate", todo[p], tx[p], D, M)
  BY <1>1 DEF SizesInv, ProcessInv
<1>7. SizesOK(db, "watch", w, tx[p], D, M)
  <2>1. M \subseteq M
    OBVIOUS
  <2> HIDE DEF M, D, w
  <2> QED
    BY <1>6, <2>1, SizesMove
<1>8. PhaseOK("watch", batch[p], at[p], w, tx[p])
  BY <1>3 DEF PhaseOK, Places, Working
<1>9. Watchable("watch", tx[p].watched) = Table
  BY DEF Watchable
<1>10. ProcessInv(db, "watch", batch[p], at[p], w, tx[p], overlap[p], ignored[p])
  BY <1>5, <1>7, <1>8, <1>9, ViewIs DEF ProcessInv
<1> QED
  BY <1>1, <1>10 DEF SizesInv

\* The tables of the work are watched.
LEMMA WatchKeeps ==
  ASSUME IInv, Domains, NEW p \in Process, Watch(p), SizesInv(p)
  PROVE  SizesInv(p)'
<1> DEFINE s == todo[p]
           D == TablesDeleted(batch[p])
           M == IF overlap[p] \/ ignored[p] THEN D ELSE {}
           tables == {item.row[1] : item \in ToSet(s)}
           more == TablesToWatch(tables)
<1>1. /\ pc[p] = "watch" /\ pc'[p] = "process"
      /\ UNCHANGED <<db, batch, at, overlap, ignored, todo>>
  BY DEF Watch, Goto, IInv, PcShape
<1>2. tx'[p] = [tx[p] EXCEPT !.watched = @ \cup more]
  BY DEF Watch, IInv, Shape
<1>3. /\ IsBatch(batch[p]) /\ at[p] \in 1..Len(batch[p].requests)
      /\ TodoOK(s, D, Table) /\ SizesOK(db, "watch", s, tx[p], D, M)
      /\ overlap[p] \/ ignored[p] \/ AllPresent(ViewOf(db, tx[p].over), s)
  BY <1>1 DEF SizesInv, ProcessInv, PhaseOK, Watchable
<1> HIDE DEF more
<1>4. IsTx(tx[p])
  BY DEF IInv, Shape
<1>5. /\ tx'[p].over = tx[p].over /\ tx'[p].counts = tx[p].counts
      /\ tx'[p].stale = tx[p].stale /\ tx'[p].watched = tx[p].watched \cup more
  BY <1>2, <1>4 DEF IsTx, Tx
<1>6. \A n \in DOMAIN s : ~Deleting(s[n]) => s[n].row[1] \in more
  <2> SUFFICES ASSUME NEW n \in DOMAIN s, ~Deleting(s[n]) PROVE s[n].row[1] \in more
    OBVIOUS
  <2>1. s[n].row[1] \in tables
    BY DEF ToSet
  <2>2. s[n].row[1] \in Table
    BY <1>3 DEF TodoOK, ItemOK
  <2> QED
    BY <2>1, <2>2, DepTablesHasTable DEF more, TablesToWatch
<1>7. TodoOK(s, D, tx'[p].watched)
  <2>1. \A n \in DOMAIN s : ItemOK(s[n], D, tx'[p].watched)
    BY <1>3, <1>5, <1>6 DEF TodoOK, ItemOK
  <2> QED
    BY <1>3, <2>1 DEF TodoOK
<1>8. SizesOK(db, "process", s, tx'[p], D, M)
  <2>1. M \subseteq M /\ tx[p].watched \subseteq tx'[p].watched
    BY <1>5
  <2> HIDE DEF M, D, s
  <2> QED
    BY <1>3, <1>5, <2>1, SizesMove
<1>9. PhaseOK("process", batch[p], at[p], s, tx'[p])
  BY <1>3 DEF PhaseOK, Places, Working
<1>10. ProcessInv(db, "process", batch[p], at[p], s, tx'[p], overlap[p], ignored[p])
  BY <1>3, <1>5, <1>7, <1>8, <1>9 DEF ProcessInv, Watchable
<1> QED
  BY <1>1, <1>10 DEF SizesInv

\* An item is replaced by its pieces.
LEMMA ExpandItemKeeps ==
  ASSUME IInv, Domains, NEW p \in Process, ExpandItem(p), SizesInv(p)
  PROVE  SizesInv(p)'
<1> DEFINE s == todo[p]
           D == TablesDeleted(batch[p])
           M == IF overlap[p] \/ ignored[p] THEN D ELSE {}
           W == tx[p].watched
<1>1. /\ pc[p] = "process" /\ s # <<>> /\ ~IsCall(Head(s))
      /\ UNCHANGED <<db, pc, batch, at, overlap, ignored, tx>>
  BY DEF ExpandItem
<1>2. PICK q \in Expand(View(p), Current(p), Head(s)) : todo' = [todo EXCEPT ![p] = q \o Tail(@)]
  BY DEF ExpandItem
<1>3. todo'[p] = q \o Tail(s)
  BY <1>2 DEF Domains
<1>4. /\ IsBatch(batch[p]) /\ at[p] \in 1..Len(batch[p].requests)
      /\ TodoOK(s, D, W) /\ SizesOK(db, "process", s, tx[p], D, M)
      /\ overlap[p] \/ ignored[p] \/ AllPresent(View(p), s)
  BY <1>1, ViewIs DEF SizesInv, ProcessInv, PhaseOK, Watchable
<1> DEFINE s2 == q \o Tail(s)
<1>5. TodoOK(s2, D, W) /\ (AllPresent(View(p), s) => AllPresent(View(p), s2))
  <2> DEFINE view == View(p)
             req == Current(p)
  <2> HIDE DEF view, req, D, W, s
  <2>1. q \in Expand(view, req, Head(s))
    BY DEF view, req, s
  <2> QED
    BY <1>1, <1>4, <2>1, ExpandedTodo DEF view
<1>6. SizesOK(db, "process", s2, tx[p], D, M)
  <2>1. M \subseteq M /\ W \subseteq W
    OBVIOUS
  <2> HIDE DEF M, D, s, s2
  <2> QED
    BY <1>4, <2>1, SizesMove
<1>7. PhaseOK("process", batch[p], at[p], s2, tx[p])
  BY <1>4 DEF PhaseOK, Places, Working
<1>8. ProcessInv(db, "process", batch[p], at[p], s2, tx[p], overlap[p], ignored[p])
  <2> HIDE DEF s2, s
  <2> QED
    BY <1>4, <1>5, <1>6, <1>7, ViewIs DEF ProcessInv, Watchable
<1> QED
  BY <1>1, <1>3, <1>8 DEF SizesInv

\* Where an error of the handle leads.
LEMMA ErrorOutcome ==
  ASSUME Domains, PcShape, NEW p \in Process, NEW e, ReturnsError(p, e)
  PROVE  \/ /\ pc'[p] = "process" /\ todo'[p] = Tail(todo[p])
            /\ ignored'[p] \/ (e = "not-exist" /\ ~ignored[p])
         \/ /\ pc'[p] \in {"next", "translate"} /\ todo'[p] = <<>>
            /\ ignored' = ignored /\ e = "not-exist"
         \/ pc'[p] = "failed" /\ todo'[p] = <<>> /\ ignored' = ignored
<1>1. CASE /\ todo' = [todo EXCEPT ![p] = Tail(@)]
           /\ ignored' = [ignored EXCEPT ![p] = @ \/ Head(todo[p]).onErr = "ignore"]
           /\ Goto(p, "process")
           /\ Head(todo[p]).onErr = "ignore" \/ e = "not-exist"
  <2>1. pc'[p] = "process" /\ todo'[p] = Tail(todo[p])
    BY <1>1 DEF Goto, Domains, PcShape
  <2>2. ignored'[p] = (ignored[p] \/ Head(todo[p]).onErr = "ignore")
    BY <1>1 DEF Domains
  <2>3. ignored'[p] \/ (e = "not-exist" /\ ~ignored[p])
    BY <1>1, <2>2
  <2> QED
    BY <2>1, <2>3
<1>2. CASE NotFound(p) /\ UNCHANGED ignored /\ e = "not-exist"
  <2>1. /\ todo' = [todo EXCEPT ![p] = <<>>]
        /\ Goto(p, "next") \/ Goto(p, "translate") \/ Goto(p, "failed")
    BY <1>2 DEF NotFound
  <2> QED
    BY <1>2, <2>1 DEF Goto, Domains, PcShape
<1>3. CASE /\ todo' = [todo EXCEPT ![p] = <<>>] /\ Goto(p, "failed")
           /\ UNCHANGED ignored
  BY <1>3 DEF Goto, Domains, PcShape
<1> QED
  BY <1>1, <1>2, <1>3 DEF ReturnsError

\* The rows there may be are finitely many; they are those that are there if the
\* call is of another table.
LEMMA ComingRows ==
  ASSUME NEW view, NEW h, NEW k
  PROVE  /\ IsFiniteSet(Coming(view, h, k))
         /\ h.do # "DeleteEntry" \/ h.row[1] # k =>
              Existing(view, k) \subseteq Coming(view, h, k)
<1> DEFINE E == Existing(view, k)
<1>1. E \subseteq Row /\ \A r \in E : r[1] = k
  BY ExistingFinite
<1>2. {r \in RowsOf(k) : r = h.row} \subseteq Row
  BY DEF RowsOf
<1>3. Coming(view, h, k) \subseteq Row
  BY <1>1, <1>2 DEF Coming
<1>4. IsFiniteSet(Coming(view, h, k))
  BY <1>3, FS_Subset, SchemaAssumption
<1> QED
  BY <1>1, <1>4 DEF Coming

\* What holds before a call.
LEMMA BeforeCall ==
  ASSUME NEW p \in Process, SizesInv(p), pc[p] \in {"process", "write"},
         todo[p] # <<>>, IsCall(Head(todo[p]))
  PROVE  LET s == todo[p]
             h == Head(s)
             t == tx[p]
             D == TablesDeleted(batch[p])
             M == IF overlap[p] \/ ignored[p] THEN D ELSE {}
         IN /\ IsBatch(batch[p]) /\ at[p] \in 1..Len(batch[p].requests)
            /\ ItemOK(h, D, t.watched) /\ h.row \in Row /\ h.row[1] \in D \cup t.watched
            /\ h.do = "DeleteEntry" => h.row[1] \in D
            /\ h.do = "DeleteEntryFields" => DOMAIN h.data # {}
            /\ TodoOK(s, D, t.watched) /\ TodoOK(Tail(s), D, t.watched)
            /\ \A n \in DOMAIN Tail(s) : Apart(h, Tail(s)[n])
            /\ overlap[p] \/ ignored[p] \/ AllPresent(View(p), s)
            /\ AllPresent(View(p), s) => Present(View(p), h) /\ AllPresent(View(p), Tail(s))
            /\ SizesOK(db, pc[p], s, t, D, M)
<1> DEFINE s == todo[p]
           h == Head(s)
           t == tx[p]
           D == TablesDeleted(batch[p])
           M == IF overlap[p] \/ ignored[p] THEN D ELSE {}
<1>1. /\ IsBatch(batch[p]) /\ at[p] \in 1..Len(batch[p].requests)
      /\ TodoOK(s, D, t.watched) /\ SizesOK(db, pc[p], s, t, D, M)
      /\ overlap[p] \/ ignored[p] \/ AllPresent(View(p), s)
  BY ViewIs DEF SizesInv, ProcessInv, PhaseOK, Watchable
<1> HIDE DEF s, t, D
<1>2. /\ 1 \in DOMAIN s /\ h = s[1] /\ ItemOK(h, D, t.watched)
      /\ TodoOK(Tail(s), D, t.watched)
      /\ \A n \in DOMAIN Tail(s) : Apart(h, Tail(s)[n])
  BY <1>1, TailTodo DEF s
<1>3. AllPresent(View(p), s) => Present(View(p), h) /\ AllPresent(View(p), Tail(s))
  BY <1>1, <1>2, TailPresent DEF AllPresent, s
<1>4. /\ h.row \in Row /\ h.row[1] \in D \cup t.watched
      /\ h.do = "DeleteEntry" => h.row[1] \in D
      /\ h.do = "DeleteEntryFields" => DOMAIN h.data # {}
  <2>1. IsCall(h)
    BY DEF s
  <2> HIDE DEF h
  <2> QED
    BY <1>2, <2>1 DEF ItemOK, IsCall, Calls, Deleting
<1> QED
  BY <1>1, <1>2, <1>3, <1>4 DEF s, t, D

\* A call is validated.
LEMMA ValidateKeeps ==
  ASSUME IInv, Domains, NEW p \in Process, Validate(p), SizesInv(p)
  PROVE  SizesInv(p)'
<1> DEFINE s == todo[p]
           h == Head(s)
           t == tx[p]
           t2 == tx'[p]
           view == View(p)
           D == TablesDeleted(batch[p])
           M == IF overlap[p] \/ ignored[p] THEN D ELSE {}
           M2 == IF overlap[p] \/ ignored'[p] THEN D ELSE {}
           edits == EditsOf(view, h)
           e == ValidateEditConfig(view, t.cache, t.counts, edits)
           c == CountsAfter(view, t.counts, edits)
<1>1. /\ pc[p] = "process" /\ s # <<>> /\ IsCall(h)
      /\ UNCHANGED <<db, batch, at, overlap>>
      /\ IF e = "ok" THEN Goto(p, "write") /\ UNCHANGED <<todo, retried, skipped, ignored>>
         ELSE ReturnsError(p, e)
  BY DEF Validate
<1>2. /\ t2.over = t.over /\ t2.watched = t.watched /\ t2.stale = t.stale
      /\ t2.counts = c /\ (e = "ok" => t2.now = edits)
  <2>1. tx' = [tx EXCEPT
             ![p].cache = CacheAfter(t.cache, edits, e),
             ![p].counts = c,
             ![p].now = IF e = "ok" THEN edits ELSE <<>>]
    BY DEF Validate
  <2> HIDE DEF c, edits, e
  <2>2. IsTx(t) /\ p \in DOMAIN tx
    BY DEF IInv, Shape
  <2> QED
    BY <2>1, <2>2 DEF IsTx, Tx
<1>3. /\ IsBatch(batch[p]) /\ at[p] \in 1..Len(batch[p].requests)
      /\ h.row \in Row /\ h.row[1] \in D \cup t.watched
      /\ h.do = "DeleteEntry" => h.row[1] \in D
      /\ h.do = "DeleteEntryFields" => DOMAIN h.data # {}
      /\ TodoOK(s, D, t.watched) /\ TodoOK(Tail(s), D, t.watched)
      /\ overlap[p] \/ ignored[p] \/ AllPresent(view, s)
      /\ AllPresent(view, s) => Present(view, h) /\ AllPresent(view, Tail(s))
      /\ SizesOK(db, "process", s, t, D, M)
  BY <1>1, BeforeCall
<1> HIDE DEF D, t, t2, view
<1>4. /\ t.counts \in CountsType /\ DOMAIN t.counts \subseteq D \cup t.watched
      /\ \A r \in DOMAIN t.over : r \in Row /\ r[1] \in D \cup t.watched
      /\ ~t.stale => \A k \in DOMAIN MaxElements \ M :
                       Covers(Existing(view, k), Existing(db, k), t.counts, k)
  BY <1>3, ViewIs DEF SizesOK, MayBe, view, t
<1>5. c \in CountsType /\ DOMAIN c \subseteq D \cup t.watched
  <2>1. c \in CountsType /\ DOMAIN c \subseteq DOMAIN t.counts \cup {h.row[1]}
    BY <1>1, <1>3, <1>4, CallCounts
  <2> QED
    BY <1>3, <1>4, <2>1
<1>6. CASE e = "ok"
  <2>1. /\ pc'[p] = "write" /\ todo'[p] = s /\ ignored'[p] = ignored[p] /\ t2.now = edits
    BY <1>1, <1>2, <1>6 DEF Goto, IInv, PcShape
  <2>2. ASSUME NEW k \in DOMAIN MaxElements \ M, ~t.stale
        PROVE  Covers(Coming(view, h, k), Existing(db, k), c, k)
    <3>1. Covers(Existing(view, k), Existing(db, k), t.counts, k)
      BY <1>4, <2>2
    <3> QED
      BY <1>1, <1>3, <1>4, <1>6, <3>1, AcceptedCovered
  <2>3. SizesOK(db, "write", s, t2, D, M)
    <3>1. \A k : MayBe(db, "write", s, t2, k) = Coming(view, h, k)
      BY <1>2, ViewIs DEF MayBe, t, view
    <3> HIDE DEF M, s, h, c
    <3> QED
      BY <1>2, <1>4, <1>5, <2>2, <3>1 DEF SizesOK
  <2>4. PhaseOK("write", batch[p], at[p], s, t2)
    <3>1. h.do = "DeleteEntry" => t2.now = <<Edit(h.row, "delete", Absent)>>
      BY <1>1, <1>3, <2>1, EditsCases
    <3> QED
      BY <1>1, <1>3, <3>1 DEF PhaseOK, Places, Working
  <2>5. ProcessInv(db, "write", batch[p], at[p], s, t2, overlap[p], ignored[p])
    BY <1>2, <1>3, <2>3, <2>4, ViewIs DEF ProcessInv, Watchable, D, t, view
  <2> QED
    BY <1>1, <2>1, <2>5 DEF SizesInv, t2
<1>7. CASE e # "ok"
  <2>1. \/ /\ pc'[p] = "process" /\ todo'[p] = Tail(s)
           /\ ignored'[p] \/ (e = "not-exist" /\ ~ignored[p])
        \/ /\ pc'[p] \in {"next", "translate"} /\ todo'[p] = <<>>
           /\ ignored' = ignored /\ e = "not-exist"
        \/ pc'[p] = "failed" /\ todo'[p] = <<>> /\ ignored' = ignored
    BY <1>1, <1>7, ErrorOutcome DEF IInv
  <2>2. pc'[p] # "failed" /\ ~overlap[p] /\ ~ignored'[p] => e = "not-exist" /\ ~ignored[p]
    BY <2>1
  <2>3. pc'[p] # "failed" /\ ~overlap[p] /\ ~ignored'[p] => h.do # "DeleteEntry"
    <3> SUFFICES ASSUME pc'[p] # "failed", ~overlap[p], ~ignored'[p], h.do = "DeleteEntry"
                 PROVE  FALSE
      OBVIOUS
    <3>1. ~IsPopulated(view[h.row])
      BY <2>2, RefusedAbsent
    <3>2. Present(view, h)
      BY <1>3, <2>2
    <3> QED
      BY <3>1, <3>2 DEF Present
  <2>4. ASSUME pc'[p] # "failed", ~t.stale, NEW k \in DOMAIN MaxElements \ M2
        PROVE  Covers(Existing(view, k), Existing(db, k), c, k)
    <3>1. k \notin M /\ (h.do # "DeleteEntry" \/ h.row[1] # k)
      <4>1. CASE overlap[p] \/ ignored'[p]
        BY <1>3, <2>4, <4>1
      <4>2. CASE ~overlap[p] /\ ~ignored'[p]
        BY <2>2, <2>3, <2>4, <4>2
      <4> QED
        BY <4>1, <4>2
    <3>2. Covers(Existing(view, k), Existing(db, k), t.counts, k)
      BY <1>4, <2>4, <3>1
    <3> QED
      BY <1>1, <1>3, <1>4, <3>1, <3>2, CallCovered
  <2>5. SizesOK(db, pc'[p], todo'[p], t2, D, M2)
    <3>1. \A k : MayBe(db, pc'[p], todo'[p], t2, k) = Existing(view, k)
      BY <1>2, <2>1, ViewIs DEF MayBe, t, view
    <3> HIDE DEF M2, c
    <3> QED
      BY <1>2, <1>4, <1>5, <2>4, <3>1 DEF SizesOK
  <2>6. TodoOK(todo'[p], D, Watchable(pc'[p], t2.watched))
    <3>1. TodoOK(<<>>, D, Watchable(pc'[p], t2.watched))
      BY EmptyTodo
    <3> QED
      BY <1>2, <1>3, <2>1, <3>1 DEF Watchable
  <2>7. overlap[p] \/ ignored'[p] \/ AllPresent(view, todo'[p])
    <3>1. AllPresent(view, <<>>)
      BY EmptyTodo
    <3>2. CASE pc'[p] = "process" /\ todo'[p] = Tail(s)
      BY <1>3, <2>2, <3>2
    <3> QED
      BY <2>1, <3>1, <3>2
  <2>8. PhaseOK(pc'[p], batch[p], at[p], todo'[p], t2)
    BY <1>3, <2>1 DEF PhaseOK, Places, Working
  <2>9. ProcessInv(db, pc'[p], batch[p], at[p], todo'[p], t2, overlap[p], ignored'[p])
    BY <1>2, <2>5, <2>6, <2>7, <2>8, ViewIs DEF ProcessInv, D, t, view
  <2> QED
    BY <1>1, <2>9 DEF SizesInv, t2
<1> QED
  BY <1>6, <1>7

\* The lock is refused.
LEMMA LockRefusedKeeps ==
  ASSUME IInv, Domains, NEW p \in Process, LockRefused(p), SizesInv(p)
  PROVE  SizesInv(p)'
<1> DEFINE s == todo[p]
           h == Head(s)
           t == tx[p]
           t2 == tx'[p]
           view == View(p)
           D == TablesDeleted(batch[p])
           M == IF overlap[p] \/ ignored[p] THEN D ELSE {}
           M2 == IF overlap[p] \/ ignored'[p] THEN D ELSE {}
<1>1. /\ pc[p] = "write" /\ UNCHANGED <<db, batch, at, overlap>>
      /\ ReturnsError(p, "locked")
  BY DEF LockRefused
<1>2. /\ t2.over = t.over /\ t2.watched = t.watched /\ t2.stale = t.stale
      /\ t2.counts = t.counts
  <2>1. tx' = [tx EXCEPT ![p].now = <<>>] /\ IsTx(t) /\ p \in DOMAIN tx
    BY DEF LockRefused, IInv, Shape
  <2> QED
    BY <2>1 DEF IsTx, Tx
<1>3. s # <<>> /\ IsCall(h)
  BY <1>1 DEF SizesInv, ProcessInv, PhaseOK
<1>4. /\ IsBatch(batch[p]) /\ at[p] \in 1..Len(batch[p].requests)
      /\ h.do = "DeleteEntry" => h.row[1] \in D
      /\ TodoOK(Tail(s), D, t.watched)
      /\ SizesOK(db, "write", s, t, D, M)
  BY <1>1, <1>3, BeforeCall
<1>5. \/ pc'[p] = "process" /\ todo'[p] = Tail(s) /\ ignored'[p]
      \/ pc'[p] = "failed" /\ todo'[p] = <<>>
  BY <1>1, ErrorOutcome DEF IInv
<1> HIDE DEF D, t, t2, view, h, s
<1>6. ASSUME pc'[p] # "failed", ~t.stale, NEW k \in DOMAIN MaxElements \ M2
      PROVE  Covers(Existing(view, k), Existing(db, k), t.counts, k)
  <2>1. k \notin D /\ k \notin M
    BY <1>5, <1>6
  <2>2. Covers(Coming(view, h, k), Existing(db, k), t.counts, k) /\ t.counts \in CountsType
    BY <1>4, <1>6, <2>1, ViewIs DEF SizesOK, MayBe, view, t, h
  <2>3. h.do # "DeleteEntry" \/ h.row[1] # k
    BY <1>4, <2>1
  <2>4. IsFiniteSet(Coming(view, h, k)) /\ Existing(view, k) \subseteq Coming(view, h, k)
    BY <2>3, ComingRows
  <2> QED
    BY <2>2, <2>4, CoversFewer
<1>7. SizesOK(db, pc'[p], todo'[p], t2, D, M2)
  <2>1. \A k : MayBe(db, pc'[p], todo'[p], t2, k) = Existing(view, k)
    BY <1>2, <1>5, ViewIs DEF MayBe, t, view
  <2>2. /\ t.counts \in CountsType /\ DOMAIN t.counts \subseteq D \cup t.watched
        /\ \A r \in DOMAIN t.over : r \in Row /\ r[1] \in D \cup t.watched
    BY <1>4 DEF SizesOK
  <2> HIDE DEF M2
  <2> QED
    BY <1>2, <1>6, <2>1, <2>2 DEF SizesOK
<1>8. TodoOK(todo'[p], D, Watchable(pc'[p], t2.watched))
  <2>1. TodoOK(<<>>, D, Watchable(pc'[p], t2.watched))
    BY EmptyTodo
  <2> QED
    BY <1>2, <1>4, <1>5, <2>1 DEF Watchable
<1>9. overlap[p] \/ ignored'[p] \/ AllPresent(view, todo'[p])
  <2>1. AllPresent(view, <<>>)
    BY EmptyTodo
  <2> QED
    BY <1>5, <2>1
<1>10. PhaseOK(pc'[p], batch[p], at[p], todo'[p], t2)
  BY <1>4, <1>5 DEF PhaseOK, Places, Working
<1>11. ProcessInv(db, pc'[p], batch[p], at[p], todo'[p], t2, overlap[p], ignored'[p])
  BY <1>2, <1>7, <1>8, <1>9, <1>10, ViewIs DEF ProcessInv, D, t, view
<1> QED
  BY <1>1, <1>11 DEF SizesInv, t2

\* The edits of a call are written.
LEMMA WriteKeeps ==
  ASSUME IInv, Domains, NEW p \in Process, Write(p), SizesInv(p)
  PROVE  SizesInv(p)'
<1> DEFINE s == todo[p]
           h == Head(s)
           t == tx[p]
           t2 == tx'[p]
           view == View(p)
           view2 == ViewOf(db, t2.over)
           w == Written(t.now, view[h.row])
           D == TablesDeleted(batch[p])
           M == IF overlap[p] \/ ignored[p] THEN D ELSE {}
<1>1. /\ pc[p] = "write" /\ pc'[p] = "process" /\ todo'[p] = Tail(s)
      /\ UNCHANGED <<db, batch, at, overlap, ignored>>
  BY DEF Write, Goto, IInv, PcShape, Domains
<1>2. /\ t2.over = With(t.over, h.row, w) /\ t2.watched = t.watched
      /\ t2.stale = t.stale /\ t2.counts = t.counts
  <2>1. tx' = [tx EXCEPT ![p].over = With(t.over, h.row, w), ![p].now = <<>>]
    BY DEF Write
  <2>2. IsTx(t) /\ p \in DOMAIN tx
    BY DEF IInv, Shape
  <2> HIDE DEF w
  <2> QED
    BY <2>1, <2>2 DEF IsTx, Tx
<1>3. /\ s # <<>> /\ IsCall(h)
      /\ h.do = "DeleteEntry" => t.now = <<Edit(h.row, "delete", Absent)>>
  BY <1>1 DEF SizesInv, ProcessInv, PhaseOK
<1>4. /\ IsBatch(batch[p]) /\ at[p] \in 1..Len(batch[p].requests)
      /\ h.row \in Row /\ h.row[1] \in D \cup t.watched
      /\ TodoOK(Tail(s), D, t.watched)
      /\ \A n \in DOMAIN Tail(s) : Apart(h, Tail(s)[n])
      /\ overlap[p] \/ ignored[p] \/ AllPresent(view, s)
      /\ AllPresent(view, s) => AllPresent(view, Tail(s))
      /\ SizesOK(db, "write", s, t, D, M)
  BY <1>1, <1>3, BeforeCall
<1>5. h.do = "DeleteEntry" => w = Absent
  BY <1>3, WrittenDelete
<1> HIDE DEF D, t, t2, h, s, w
<1>6. \A r \in Row : view2[r] = IF r = h.row THEN w ELSE view[r]
  BY <1>2, ViewIs DEF ViewOf, With, view, t
<1> HIDE DEF view, view2
<1>7. ASSUME NEW k
      PROVE  Existing(view2, k) \subseteq Coming(view, h, k)
  <2> SUFFICES ASSUME NEW r \in Existing(view2, k) PROVE r \in Coming(view, h, k)
    OBVIOUS
  <2>1. r \in Row /\ r[1] = k /\ IsPopulated(view2[r])
    BY ExistingFinite
  <2>2. CASE r # h.row
    <3>1. r \in Existing(view, k)
      BY <1>6, <2>1, <2>2 DEF Existing, RowsOf
    <3> QED
      BY <2>2, <3>1 DEF Coming
  <2>3. CASE r = h.row
    <3>1. h.do # "DeleteEntry"
      BY <1>5, <1>6, <2>1, <2>3 DEF IsPopulated
    <3> QED
      BY <2>1, <2>3, <3>1 DEF Coming, RowsOf
  <2> QED
    BY <2>2, <2>3
<1>8. SizesOK(db, "process", Tail(s), t2, D, M)
  <2>1. \A k : /\ MayBe(db, "process", Tail(s), t2, k) = Existing(view2, k)
               /\ MayBe(db, "write", s, t, k) = Coming(view, h, k)
    BY ViewIs DEF MayBe, t, view, view2, h
  <2>2. /\ t.counts \in CountsType /\ DOMAIN t.counts \subseteq D \cup t.watched
        /\ \A r \in DOMAIN t.over : r \in Row /\ r[1] \in D \cup t.watched
        /\ ~t.stale => \A k \in DOMAIN MaxElements \ M :
             Covers(Coming(view, h, k), Existing(db, k), t.counts, k)
    BY <1>4, <2>1 DEF SizesOK
  <2>3. \A r \in DOMAIN t2.over : r \in Row /\ r[1] \in D \cup t.watched
    BY <1>2, <1>4, <2>2 DEF With
  <2>4. ASSUME ~t.stale, NEW k \in DOMAIN MaxElements \ M
        PROVE  Covers(Existing(view2, k), Existing(db, k), t.counts, k)
    <3>1. Covers(Coming(view, h, k), Existing(db, k), t.counts, k)
      BY <2>2, <2>4
    <3>2. IsFiniteSet(Coming(view, h, k)) /\ Existing(view2, k) \subseteq Coming(view, h, k)
      BY <1>7, ComingRows
    <3> QED
      BY <2>2, <3>1, <3>2, CoversFewer
  <2> HIDE DEF M
  <2> QED
    BY <1>2, <2>1, <2>2, <2>3, <2>4 DEF SizesOK
<1>9. overlap[p] \/ ignored[p] \/ AllPresent(view2, Tail(s))
  <2> SUFFICES ASSUME AllPresent(view, s) PROVE AllPresent(view2, Tail(s))
    BY <1>4
  <2> SUFFICES ASSUME NEW n \in DOMAIN Tail(s) PROVE Present(view2, Tail(s)[n])
    BY DEF AllPresent
  <2> DEFINE i == Tail(s)[n]
  <2>1. Present(view, i) /\ Apart(h, i) /\ ItemOK(i, D, t.watched)
    BY <1>4 DEF AllPresent, TodoOK
  <2> HIDE DEF i
  <2>2. ~DeletesRow(i)
    BY <2>1 DEF Apart
  <2>3. CASE i.do # "DeleteEntry"
    BY <2>2, <2>3 DEF Present, i
  <2>4. CASE i.do = "DeleteEntry"
    <3>1. h.do = "DeleteEntry"
      <4>1. Deleting(h) /\ ~DeletesRow(h)
        BY <2>1, <2>4 DEF Apart, Deleting
      <4> QED
        BY <1>3, <4>1 DEF Deleting, IsCall, Calls, h
    <3>2. h.row # i.row
      BY <2>1, <2>4, <3>1 DEF Apart
    <3>3. i.row \in Row
      BY <2>1, <2>4 DEF ItemOK
    <3> QED
      BY <1>6, <2>1, <2>4, <3>2, <3>3 DEF Present, i
  <2> QED
    BY <2>3, <2>4
<1>10. PhaseOK("process", batch[p], at[p], Tail(s), t2)
  BY <1>4 DEF PhaseOK, Places, Working
<1>11. ProcessInv(db, "process", batch[p], at[p], Tail(s), t2, overlap[p], ignored[p])
  BY <1>2, <1>4, <1>8, <1>9, <1>10 DEF ProcessInv, Watchable, D, view2
<1> QED
  BY <1>1, <1>11 DEF SizesInv, t2, s

\* The batch is committed, or the transaction fails.
LEMMA CommitKeeps ==
  ASSUME IInv, Domains, NEW p \in Process, Commit(p), SizesInv(p)
  PROVE  SizesInv(p)'
<1>1. /\ pc[p] = "next" /\ pc'[p] \in {"done", "failed"}
      /\ UNCHANGED <<batch, at, todo, ignored>>
  <2>1. UNCHANGED <<batch, at, todo, ignored>> /\ pc[p] = "next"
        /\ (Goto(p, "done") \/ Goto(p, "failed"))
    BY DEF Commit
  <2> QED
    BY <2>1 DEF Goto, IInv, PcShape
<1>2. tx'[p] = tx[p]
  BY DEF Commit
<1> DEFINE D == TablesDeleted(batch[p])
           M == IF overlap'[p] \/ ignored[p] THEN D ELSE {}
<1>3. /\ todo[p] = <<>> /\ IsBatch(batch[p]) /\ at[p] \in 1..Len(batch[p].requests)
  BY <1>1 DEF SizesInv, ProcessInv, PhaseOK, Working
<1>4. SizesOK(db', pc'[p], <<>>, tx[p], D, M)
  <2>1. /\ tx[p].counts \in CountsType /\ DOMAIN tx[p].counts \subseteq D \cup tx[p].watched
        /\ \A r \in DOMAIN tx[p].over : r \in Row /\ r[1] \in D \cup tx[p].watched
    BY DEF SizesInv, ProcessInv, SizesOK
  <2> HIDE DEF D, M
  <2> QED
    BY <1>1, <2>1 DEF SizesOK
<1>5. pc'[p] \in Places \ {"write"} /\ pc'[p] # "idle"
  BY <1>1 DEF Places
<1>6. ProcessInv(db', pc'[p], batch[p], at[p], <<>>, tx[p], overlap'[p], ignored[p])
  BY <1>3, <1>4, <1>5, NoWork
<1> QED
  BY <1>1, <1>2, <1>3, <1>6 DEF SizesInv

\* The rows that a handle without writes may add are of tables that it watches.
LEMMA NoWritesMayBe ==
  ASSUME NEW q \in Process, SizesInv(q), tx[q].over = NoRows, NEW d, NEW k
  PROVE  LET M == MayBe(d, pc[q], todo[q], tx[q], k)
         IN /\ k \notin tx[q].watched \cup TablesDeleted(batch[q]) => M \subseteq Existing(d, k)
            /\ \A d2 : Existing(d2, k) = Existing(d, k) =>
                         M = MayBe(d2, pc[q], todo[q], tx[q], k)
<1> DEFINE s == todo[q]
           h == Head(s)
           t == tx[q]
           D == TablesDeleted(batch[q])
<1>1. \A d1 : Existing(ViewOf(d1, t.over), k) = Existing(d1, k)
  <2> SUFFICES ASSUME NEW d1 PROVE Existing(ViewOf(d1, NoRows), k) = Existing(d1, k)
    OBVIOUS
  <2>1. \A r \in Row : ViewOf(d1, NoRows)[r] = d1[r]
    BY DEF ViewOf, NoRows
  <2> QED
    BY <2>1 DEF Existing, RowsOf
<1>2. ASSUME pc[q] = "write", h.do # "DeleteEntry", k \notin t.watched
      PROVE  {r \in RowsOf(k) : r = h.row} = {}
  <2>1. s # <<>> /\ IsCall(h)
    BY <1>2 DEF SizesInv, ProcessInv, PhaseOK
  <2>2. ItemOK(h, D, t.watched)
    BY <1>2, <2>1, BeforeCall
  <2> HIDE DEF h, s, t, D
  <2>3. ~Deleting(h)
    BY <1>2, <2>1 DEF Deleting, DeletesRow, IsCall, Calls
  <2>4. h.row[1] \in t.watched
    BY <2>2, <2>3 DEF ItemOK
  <2> QED
    BY <1>2, <2>4 DEF RowsOf
<1> HIDE DEF h, s, t, D
<1>3. \A d1 : MayBe(d1, pc[q], s, t, k) =
        IF pc[q] # "write" THEN Existing(d1, k)
        ELSE IF h.do = "DeleteEntry" THEN Existing(d1, k) \ {h.row}
        ELSE Existing(d1, k) \cup {r \in RowsOf(k) : r = h.row}
  <2> SUFFICES ASSUME NEW d1
      PROVE MayBe(d1, pc[q], s, t, k) =
        IF pc[q] # "write" THEN Existing(d1, k)
        ELSE IF h.do = "DeleteEntry" THEN Existing(d1, k) \ {h.row}
        ELSE Existing(d1, k) \cup {r \in RowsOf(k) : r = h.row}
    OBVIOUS
  <2> DEFINE view == ViewOf(d1, t.over)
  <2>1. Existing(view, k) = Existing(d1, k)
    BY <1>1
  <2>2. MayBe(d1, pc[q], s, t, k) = IF pc[q] = "write" THEN Coming(view, h, k)
                                    ELSE Existing(view, k)
    BY DEF MayBe, h
  <2> HIDE DEF view
  <2> QED
    BY <2>1, <2>2 DEF Coming
<1>4. k \notin t.watched \cup D => MayBe(d, pc[q], s, t, k) \subseteq Existing(d, k)
  BY <1>2, <1>3
<1>5. \A d2 : Existing(d2, k) = Existing(d, k) =>
                MayBe(d, pc[q], s, t, k) = MayBe(d2, pc[q], s, t, k)
  BY <1>3
<1> QED
  BY <1>4, <1>5 DEF s, t, D

\* Another batch is committed.
LEMMA OtherCommit ==
  ASSUME IInv, Domains, NEW p \in Process, Commit(p), NEW q \in Process, q # p, SizesInv(q)
  PROVE  SizesInv(q)'
<1> DEFINE s == todo[q]
           t == tx[q]
           t2 == tx'[q]
           D == TablesDeleted(batch[q])
<1>1. /\ pc'[q] = pc[q] /\ batch'[q] = batch[q] /\ at'[q] = at[q]
      /\ todo'[q] = todo[q] /\ ignored'[q] = ignored[q]
  BY StepIsOwn DEF OwnStep, IInv, Step
<1>2. CASE ~Committed(p)
  <2>1. UNCHANGED <<db, overlap, tx>>
    BY <1>2 DEF Commit
  <2> QED
    BY <1>1, <2>1 DEF SizesInv
<1>3. CASE Committed(p)
  <2>1. /\ db' = View(p)
        /\ t2 = IF t.watched \cap WrittenTables(p) # {} THEN [t EXCEPT !.stale = TRUE] ELSE t
        /\ overlap'[q] = (overlap[q] \/ pc[q] # "idle")
    BY <1>3 DEF Commit
  <2>2. CASE pc[q] = "idle"
    <3>1. t = NewTx /\ s = <<>>
      BY <2>2 DEF SizesInv, ProcessInv, PhaseOK, Working
    <3>2. t2 = NewTx
      <4>1. t.watched = {}
        BY <3>1 DEF NewTx, Tx
      <4> QED
        BY <2>1, <3>1, <4>1
    <3>3. SizesOK(db', "idle", <<>>, NewTx, D,
                  IF overlap'[q] \/ ignored[q] THEN D ELSE {})
      BY NewSizes
    <3>4. ProcessInv(db', "idle", batch[q], at[q], <<>>, NewTx, overlap'[q], ignored[q])
      BY <3>3, NoWork DEF Places
    <3> QED
      BY <1>1, <2>2, <3>1, <3>2, <3>4 DEF SizesInv
  <2>3. CASE pc[q] # "idle"
    <3>1. overlap'[q]
      BY <2>1, <2>3
    <3>2. /\ t2.over = t.over /\ t2.counts = t.counts /\ t2.now = t.now
          /\ t2.watched = t.watched
          /\ ~t2.stale => ~t.stale /\ t.watched \cap WrittenTables(p) = {}
      <4>1. IsTx(t)
        BY DEF IInv, Shape
      <4> QED
        BY <2>1, <4>1 DEF IsTx, Tx
    <3>3. /\ PhaseOK(pc[q], batch[q], at[q], s, t)
          /\ TodoOK(s, D, Watchable(pc[q], t.watched))
          /\ t.counts \in CountsType /\ DOMAIN t.counts \subseteq D \cup t.watched
          /\ \A r \in DOMAIN t.over : r \in Row /\ r[1] \in D \cup t.watched
          /\ ~t.stale /\ pc[q] \notin {"done", "failed"} =>
               \A k \in DOMAIN MaxElements \ D :
                 Covers(MayBe(db, pc[q], s, t, k), Existing(db, k), t.counts, k)
      BY DEF SizesInv, ProcessInv, SizesOK
    <3>4. db' = db \/ t.over = NoRows
      <4> SUFFICES ASSUME db' # db PROVE t.over = NoRows
        OBVIOUS
      <4>1. lock = p
        BY CommitWrites
      <4> QED
        BY <4>1 DEF IInv, HolderWrites
    <3>5. ASSUME ~t2.stale, pc[q] \notin {"done", "failed"},
                 NEW k \in DOMAIN MaxElements \ D
          PROVE  Covers(MayBe(db', pc[q], s, t, k), Existing(db', k), t.counts, k)
      <4>1. Covers(MayBe(db, pc[q], s, t, k), Existing(db, k), t.counts, k)
        BY <3>2, <3>3, <3>5
      <4>2. CASE db' = db
        BY <4>1, <4>2
      <4>3. CASE t.over = NoRows /\ k \in t.watched
        <5>1. \A r \in RowsOf(k) : View(p)[r] = db[r]
          <6>1. k \notin WrittenTables(p)
            BY <3>2, <3>5, <4>3
          <6> QED
            BY <6>1 DEF WrittenTables, View, RowsOf
        <5>2. Existing(db', k) = Existing(db, k)
          BY <2>1, <5>1 DEF Existing
        <5>3. MayBe(db, pc[q], s, t, k) = MayBe(db', pc[q], s, t, k)
          BY <4>3, <5>2, NoWritesMayBe
        <5> QED
          BY <4>1, <5>2, <5>3
      <4>4. CASE t.over = NoRows /\ k \notin t.watched
        <5>1. MayBe(db', pc[q], s, t, k) \subseteq Existing(db', k)
          BY <3>5, <4>4, NoWritesMayBe
        <5>2. k \notin DOMAIN t.counts
          BY <3>3, <3>5, <4>4
        <5> QED
          BY <5>1, <5>2 DEF Covers
      <4> QED
        BY <3>4, <4>2, <4>3, <4>4
    <3>6. SizesOK(db', pc[q], s, t2, D, D)
      <4>1. \A k : MayBe(db', pc[q], s, t2, k) = MayBe(db', pc[q], s, t, k)
        BY <3>2 DEF MayBe
      <4> HIDE DEF D, s, t, t2
      <4> QED
        BY <3>2, <3>3, <3>5, <4>1 DEF SizesOK
    <3>7. PhaseOK(pc[q], batch[q], at[q], s, t2)
      BY <2>3, <3>2, <3>3 DEF PhaseOK
    <3>8. ProcessInv(db', pc[q], batch[q], at[q], s, t2, overlap'[q], ignored[q])
      BY <3>1, <3>2, <3>3, <3>6, <3>7 DEF ProcessInv
    <3> QED
      BY <1>1, <3>8 DEF SizesInv
  <2> QED
    BY <2>2, <2>3
<1> QED
  BY <1>2, <1>3

-----------------------------------------------------------------------------
\* What the proof carries from state to state.
FullInv == IInv /\ Domains /\ \A p \in Process : SizesInv(p)

\* Initially it holds.
LEMMA InitFullInv == Init => FullInv
<1> SUFFICES ASSUME Init PROVE FullInv
  OBVIOUS
<1>1. IInv
  BY InitIInv
<1>2. Domains
  BY DEF Init, Domains
<1>3. ASSUME NEW p \in Process
      PROVE  SizesInv(p)
  <2>1. pc[p] = "idle" /\ tx[p] = NewTx /\ todo[p] = <<>>
    BY DEF Init
  <2>2. SizesOK(db, "idle", <<>>, NewTx, TablesDeleted(batch[p]),
                IF overlap[p] \/ ignored[p] THEN TablesDeleted(batch[p]) ELSE {})
    BY NewSizes
  <2>3. ProcessInv(db, "idle", batch[p], at[p], <<>>, NewTx, overlap[p], ignored[p])
    BY <2>2, NoWork DEF Places
  <2> QED
    BY <2>1, <2>3 DEF SizesInv
<1> QED
  BY <1>1, <1>2, <1>3 DEF FullInv

\* Every step preserves it.
LEMMA FullInvStep ==
  ASSUME FullInv, [Next]_vars
  PROVE  FullInv'
<1>1. IInv' /\ Domains'
  BY IInvStep, DomainsStep DEF FullInv, IInv
<1>2. ASSUME NEW q \in Process
      PROVE  SizesInv(q)'
  <2>0. IInv /\ Domains /\ SizesInv(q)
    BY DEF FullInv
  <2>1. CASE UNCHANGED vars
    BY <2>0, <2>1 DEF SizesInv, vars
  <2>2. ASSUME NEW p \in Process, Begin(p) \/ Step(p)
        PROVE  SizesInv(q)'
    <3>1. CASE q # p /\ Commit(p)
      BY <2>0, <3>1, OtherCommit
    <3>2. CASE q # p /\ ~Commit(p)
      BY <2>0, <2>2, <3>2, OtherKeeps
    <3>3. CASE q = p
      BY <2>0, <2>2, <3>3, BeginKeeps, TranslateKeeps, NotFoundKeeps, WatchKeeps,
         ExpandItemKeeps, ValidateKeeps, LockRefusedKeeps, WriteKeeps, ProcessedKeeps,
         NextRequestKeeps, CommitKeeps, CloseKeeps DEF Step
    <3> QED
      BY <3>1, <3>2, <3>3
  <2> QED
    BY <2>1, <2>2 DEF Next
<1> QED
  BY <1>1, <1>2 DEF FullInv

\* Only a commit commits.
LEMMA CommitsCommit ==
  ASSUME IInv, [Next]_vars, NEW p \in Process, Commits(p)
  PROVE  Commit(p) /\ Committed(p)
<1>1. pc[p] = "next" /\ pc'[p] = "done"
  BY DEF Commits
<1>2. PICK r \in Process : Begin(r) \/ Step(r)
  BY <1>1 DEF Next, vars
<1>3. \A place : Goto(r, place) => (p # r => pc'[p] = pc[p]) /\ pc'[r] = place
  BY DEF Goto, IInv, PcShape
<1>4. p = r
  <2> SUFFICES ASSUME p # r PROVE FALSE
    OBVIOUS
  <2>1. ASSUME NEW e, ReturnsError(r, e)
        PROVE  \E place : Goto(r, place)
    BY <2>1 DEF ReturnsError, NotFound
  <2>2. pc' = pc \/ \E place : Goto(r, place)
    BY <1>2, <2>1 DEF Step, Begin, Translate, TranslateNotFound, NotFound, Watch, ExpandItem,
                      Validate, LockRefused, Write, Processed, NextRequest, Commit, Close
  <2> QED
    BY <1>1, <1>3, <2>2
<1>5. Commit(p)
  <2>1. /\ ~Begin(p) /\ ~Translate(p) /\ ~TranslateNotFound(p) /\ ~Watch(p)
        /\ ~Validate(p) /\ ~LockRefused(p) /\ ~Write(p) /\ ~Processed(p) /\ ~Close(p)
        /\ ~ExpandItem(p)
    BY <1>1 DEF Begin, Translate, TranslateNotFound, Watch, ExpandItem,
                Validate, LockRefused, Write, Processed, Close
  <2>2. ~NextRequest(p)
    BY <1>1, <1>3, <1>4 DEF NextRequest
  <2> QED
    BY <1>2, <1>4, <2>1, <2>2 DEF Step
<1>6. Committed(p)
  BY <1>1, <1>3, <1>4, <1>5 DEF Commit
<1> QED
  BY <1>5, <1>6

\* No commit makes a table outgrow its max-elements.
LEMMA CommitBounded ==
  ASSUME FullInv, [Next]_vars, NEW p \in Process, Commits(p),
         NEW t \in DOMAIN MaxElements \ Miscounted(p)
  PROVE  \/ Cardinality(Existing(db', t)) <= MaxElements[t]
         \/ Existing(db', t) \subseteq Existing(db, t)
<1>1. Commit(p) /\ Committed(p)
  BY CommitsCommit DEF FullInv
<1>2. db' = View(p) /\ pc[p] = "next" /\ ~tx[p].stale
  BY <1>1 DEF Commit, Committed
<1> DEFINE D == TablesDeleted(batch[p])
           M == IF overlap[p] \/ ignored[p] THEN D ELSE {}
           c == tx[p].counts
<1>3. Miscounted(p) = M
  BY DEF Miscounted, TablesDeleted
<1>4. SizesOK(db, pc[p], todo[p], tx[p], D, M)
  BY DEF FullInv, SizesInv, ProcessInv
<1>5. MayBe(db, pc[p], todo[p], tx[p], t) = Existing(View(p), t)
  BY <1>2, ViewIs DEF MayBe
<1> HIDE DEF D, M
<1>6. Covers(Existing(View(p), t), Existing(db, t), c, t) /\ c \in CountsType
  BY <1>2, <1>3, <1>4, <1>5 DEF SizesOK
<1> HIDE DEF c
<1>7. /\ Cardinality(Existing(View(p), t)) \in Nat /\ MaxElements[t] \in Nat
      /\ t \in DOMAIN c => c[t] \in Nat
  BY <1>6, SizeIsNat, SchemaAssumption
<1> QED
  BY <1>2, <1>6, <1>7 DEF Covers

\* No commit makes a table outgrow its max-elements (checkMaxElemConstraint).
THEOREM SizesBoundedAlways == Spec => SizesBounded
<1>1. ASSUME FullInv, [Next]_vars
      PROVE  [\A p \in Process : Commits(p) =>
                \A t \in DOMAIN MaxElements \ Miscounted(p) :
                  \/ Cardinality(Existing(db', t)) <= MaxElements[t]
                  \/ Existing(db', t) \subseteq Existing(db, t)]_vars
  BY <1>1, CommitBounded
<1> QED
  BY InitFullInv, FullInvStep, <1>1, PTL DEF Spec, SizesBounded
=============================================================================
