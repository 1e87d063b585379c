------------------------------ MODULE Requests ------------------------------
(***************************************************************************)
(* Set and Bulk requests of translib (translib.go) on SONiC YANG paths,    *)
(* from the translation of a request to the transaction of its handle.     *)
(*                                                                         *)
(* A process runs one of them at a time, since writeMutex is held from     *)
(* the opening of the handle to its closing.  Two processes that use the   *)
(* library share the database, and the ConfigDB lock that the first write  *)
(* of a handle takes.  What a handle has written is in its overlay until   *)
(* CommitTx; the watched tables make the transaction fail when another     *)
(* commit has written one of them since.                                   *)
(***************************************************************************)
EXTENDS ConfigStore

CONSTANTS
  Process,
  None,
  Batches,    \* [Process -> sets of batches]: what it may be asked to do
  Databases,  \* the contents ConfigDB may start with
  MaxBatches  \* bound: batches per process

ASSUME RequestsAssumption ==
  /\ None \notin Process
  /\ \A d \in Databases : d \in [Row -> {d[r] : r \in Row}]

\* A batch: a Bulk request, or the one of Create, Update, Replace or Delete.
Batch(bulk, requests) == [bulk |-> bulk, requests |-> requests]

\* A request names rows of the schema; the DELETE of a value names the value.
IsRequest(req) ==
  /\ req = Request(req.oper, req.level, req.row, req.field, req.data,
                   req.check, req.keep)
  /\ req.oper \in {"create", "update", "replace", "delete"}
  /\ req.level \in Levels
  /\ req.row \in Row /\ DOMAIN req.data \subseteq Row
  /\ \A r \in DOMAIN req.data : req.oper = "delete" => DOMAIN req.data[r] # {}
IsBatch(b) ==
  /\ b = Batch(b.bulk, b.requests)
  /\ b.requests \in Seq(ToSet(b.requests)) /\ b.requests # <<>>
  /\ \A req \in ToSet(b.requests) : IsRequest(req)

ASSUME BatchesAssumption == \A p \in Process : \A b \in Batches[p] : IsBatch(b)

VARIABLES
  db,      \* ConfigDB
  lock,    \* holder of the ConfigDB lock
  pc,      \* where the batch of a process is
  batch,   \* the batch
  at,      \* the request of the batch
  retried, \* an UPDATE that found nothing is run as REPLACE
  skipped, \* history: the DELETEs of the batch that Bulk took as done
  ignored, \* history: an error of the handle was not looked at
  overlap, \* history: another batch was committed since the handle was opened
  todo,    \* items of the common app
  tx,      \* transaction of the handle
  served   \* number of batches begun

vars == <<db, lock, pc, batch, at, retried, skipped, ignored, overlap, todo, tx, served>>

NoBatch == Batch(FALSE, <<>>)

\* over: txTsEntryMap.  cache, counts: the CVL session.  now: the edits that
\* were validated and are to be written.  stale: a watched table was written.
Tx(over, cache, counts, now, watched, stale) ==
  [over |-> over, cache |-> cache, counts |-> counts, now |-> now,
   watched |-> watched, stale |-> stale]
NoCounts == [t \in {} |-> 0]
NewTx == Tx(NoRows, <<>>, NoCounts, <<>>, {}, FALSE)

\* What the handle of p shows.
View(p) ==
  [r \in Row |-> IF r \in DOMAIN tx[p].over THEN tx[p].over[r] ELSE db[r]]
Asked(p) == batch[p].requests[at[p]]
Current(p) ==
  IF retried[p] THEN [Asked(p) EXCEPT !.oper = "replace"] ELSE Asked(p)

Init ==
  /\ db \in Databases
  /\ lock = None
  /\ pc = [p \in Process |-> "idle"]
  /\ batch = [p \in Process |-> NoBatch]
  /\ at = [p \in Process |-> 1]
  /\ retried = [p \in Process |-> FALSE]
  /\ skipped = [p \in Process |-> {}]
  /\ ignored = [p \in Process |-> FALSE]
  /\ overlap = [p \in Process |-> FALSE]
  /\ todo = [p \in Process |-> <<>>]
  /\ tx = [p \in Process |-> NewTx]
  /\ served = [p \in Process |-> 0]

Goto(p, place) == pc' = [pc EXCEPT ![p] = place]

\* The handle is opened.
Begin(p) ==
  /\ pc[p] = "idle" /\ served[p] < MaxBatches
  /\ \E b \in Batches[p] : batch' = [batch EXCEPT ![p] = b]
  /\ served' = [served EXCEPT ![p] = @ + 1]
  /\ at' = [at EXCEPT ![p] = 1]
  /\ retried' = [retried EXCEPT ![p] = FALSE]
  /\ Goto(p, "translate")
  /\ UNCHANGED <<db, lock, skipped, ignored, overlap, todo, tx>>

\* translateCreate and its like: reads the handle, before anything is watched.
Translate(p) ==
  /\ pc[p] = "translate"
  /\ ParentExists(View(p), Current(p))
  /\ \E w \in Work(XlateToDb(Current(p))) : todo' = [todo EXCEPT ![p] = w]
  /\ Goto(p, "watch")
  /\ UNCHANGED <<db, lock, batch, at, retried, skipped, ignored, overlap, tx, served>>

\* What Bulk does with a request that finds no resource: a DELETE counts as
\* done, an UPDATE is tried again as REPLACE, the others fail.
\* Mutant: the UPDATE is tried again as it is.
NotFoundRetried(p) ==
  /\ todo' = [todo EXCEPT ![p] = <<>>]
  /\ IF batch[p].bulk /\ Current(p).oper = "update"
     THEN Goto(p, "translate")
     ELSE Goto(p, "failed")
  /\ UNCHANGED <<retried, skipped>>
NotFound(p) ==
  /\ todo' = [todo EXCEPT ![p] = <<>>]
  /\ CASE batch[p].bulk /\ Current(p).oper = "delete" /\ ~Current(p).check ->
            /\ Goto(p, "next")
            /\ skipped' = [skipped EXCEPT ![p] = @ \cup {at[p]}]
            /\ UNCHANGED retried
       [] batch[p].bulk /\ Current(p).oper = "update" ->
            /\ Goto(p, "translate")
            /\ retried' = [retried EXCEPT ![p] = TRUE]
            /\ UNCHANGED skipped
       [] OTHER -> Goto(p, "failed") /\ UNCHANGED <<retried, skipped>>

TranslateNotFound(p) ==
  /\ pc[p] = "translate"
  /\ ~ParentExists(View(p), Current(p))
  /\ NotFound(p)
  /\ UNCHANGED <<db, lock, batch, at, ignored, overlap, tx, served>>

\* StartTx, AppendWatchTx.
Watch(p) ==
  /\ pc[p] = "watch"
  /\ LET tables == {item.row[1] : item \in ToSet(todo[p])}
     IN tx' = [tx EXCEPT ![p].watched = @ \cup TablesToWatch(tables)]
  /\ Goto(p, "process")
  /\ UNCHANGED <<db, lock, batch, at, retried, skipped, ignored, overlap, todo, served>>

\* processCreate and its like: the common app takes its next item.
ExpandItem(p) ==
  /\ pc[p] = "process" /\ todo[p] # <<>>
  /\ ~IsCall(Head(todo[p]))
  /\ \E s \in Expand(View(p), Current(p), Head(todo[p])) :
       todo' = [todo EXCEPT ![p] = s \o Tail(@)]
  /\ UNCHANGED <<db, lock, pc, batch, at, retried, skipped, ignored, overlap, tx, served>>

\* The call at the head of todo returns error e.  An error that is not one of
\* CVL panics where the app asserts its type; the handle is closed all the
\* same, by the deferred calls.
ReturnsError(p, e) ==
  CASE Head(todo[p]).onErr = "ignore"
         \/ (Head(todo[p]).onErr = "missing" /\ e = "not-exist") ->
         /\ todo' = [todo EXCEPT ![p] = Tail(@)]
         /\ ignored' = [ignored EXCEPT ![p] =
              @ \/ Head(todo[p]).onErr = "ignore"]
         /\ Goto(p, "process")
         /\ UNCHANGED <<retried, skipped>>
    [] Head(todo[p]).onErr # "ignore" /\ e = "not-exist"
         /\ Head(todo[p]).onErr # "missing" ->
         /\ NotFound(p)
         /\ UNCHANGED ignored
    [] OTHER ->
         /\ todo' = [todo EXCEPT ![p] = <<>>]
         /\ Goto(p, "failed")
         /\ UNCHANGED <<retried, skipped, ignored>>

\* doCVL
Validate(p) ==
  /\ pc[p] = "process" /\ todo[p] # <<>>
  /\ IsCall(Head(todo[p]))
  /\ LET edits == EditsOf(View(p), Head(todo[p]))
         t == tx[p]
         e == ValidateEditConfig(View(p), t.cache, t.counts, edits)
     IN /\ tx' = [tx EXCEPT
             ![p].cache = CacheAfter(@, edits, e),
             ![p].counts = CountsAfter(View(p), @, edits),
             ![p].now = IF e = "ok" THEN edits ELSE <<>>]
        /\ IF e = "ok" THEN Goto(p, "write") /\ UNCHANGED <<todo, retried, skipped, ignored>>
           ELSE ReturnsError(p, e)
  /\ UNCHANGED <<db, lock, batch, at, overlap, served>>

\* ConfigDBTryLock
\* Mutant: the lock of another process is taken over.
LockableAlways(p) == TRUE
Lockable(p) == lock \in {None, p}

\* doWrite: the first write of the handle tries the ConfigDB lock.
LockRefused(p) ==
  /\ pc[p] = "write" /\ ~Lockable(p)
  /\ tx' = [tx EXCEPT ![p].now = <<>>]
  /\ ReturnsError(p, "locked")
  /\ UNCHANGED <<db, lock, batch, at, overlap, served>>

Write(p) ==
  /\ pc[p] = "write" /\ Lockable(p)
  /\ lock' = p
  /\ LET row == Head(todo[p]).row
     IN tx' = [tx EXCEPT
          ![p].over = With(@, row, Written(tx[p].now, View(p)[row])),
          ![p].now = <<>>]
  /\ todo' = [todo EXCEPT ![p] = Tail(@)]
  /\ Goto(p, "process")
  /\ UNCHANGED <<db, batch, at, retried, skipped, ignored, overlap, served>>

\* The request is done.
Processed(p) ==
  /\ pc[p] = "process" /\ todo[p] = <<>>
  /\ Goto(p, "next")
  /\ UNCHANGED <<db, lock, batch, at, retried, skipped, ignored, overlap, todo, tx, served>>

NextRequest(p) ==
  /\ pc[p] = "next" /\ at[p] < Len(batch[p].requests)
  /\ at' = [at EXCEPT ![p] = @ + 1]
  /\ retried' = [retried EXCEPT ![p] = FALSE]
  /\ Goto(p, "translate")
  /\ UNCHANGED <<db, lock, batch, skipped, ignored, overlap, todo, tx, served>>

\* CommitTx: EXEC runs the commands unless a watched table was written.
\* Mutant: EXEC runs whatever was written.
CommittedAlways(p) == TRUE
Committed(p) == ~tx[p].stale
WrittenTables(p) == {r[1] : r \in DOMAIN tx[p].over}

Commit(p) ==
  /\ pc[p] = "next" /\ at[p] = Len(batch[p].requests)
  /\ IF Committed(p)
     THEN /\ db' = View(p)
          /\ tx' = [q \in Process |->
               IF q # p /\ tx[q].watched \cap WrittenTables(p) # {}
               THEN [tx[q] EXCEPT !.stale = TRUE] ELSE tx[q]]
          /\ overlap' = [q \in Process |->
               overlap[q] \/ (q # p /\ pc[q] # "idle")]
          /\ Goto(p, "done")
     ELSE /\ Goto(p, "failed")
          /\ UNCHANGED <<db, overlap, tx>>
  /\ UNCHANGED <<lock, batch, at, retried, skipped, ignored, todo, served>>

\* AbortTx on an error; DeleteDB.
Close(p) ==
  /\ pc[p] \in {"done", "failed"}
  /\ lock' = IF lock = p THEN None ELSE lock
  /\ tx' = [tx EXCEPT ![p] = NewTx]
  /\ batch' = [batch EXCEPT ![p] = NoBatch]
  /\ todo' = [todo EXCEPT ![p] = <<>>]
  /\ at' = [at EXCEPT ![p] = 1]
  /\ retried' = [retried EXCEPT ![p] = FALSE]
  /\ skipped' = [skipped EXCEPT ![p] = {}]
  /\ ignored' = [ignored EXCEPT ![p] = FALSE]
  /\ overlap' = [overlap EXCEPT ![p] = FALSE]
  /\ Goto(p, "idle")
  /\ UNCHANGED <<db, served>>

\* A step of a batch that has begun.
Step(p) ==
  \/ Translate(p) \/ TranslateNotFound(p) \/ Watch(p) \/ ExpandItem(p)
  \/ Validate(p) \/ LockRefused(p) \/ Write(p) \/ Processed(p)
  \/ NextRequest(p) \/ Commit(p) \/ Close(p)

Next == \E p \in Process : Begin(p) \/ Step(p)

\* A request that is running goes on: none of its steps waits for another
\* process.
Spec == Init /\ [][Next]_vars /\ \A p \in Process : WF_vars(Step(p))

(***************************************************************************)
(* Properties.                                                             *)
(***************************************************************************)
\* A request that has begun is answered, with success or an error: neither the
\* retry of Bulk nor the work that the app finds as it goes has no end.
BatchesEnd == \A p \in Process : pc[p] # "idle" ~> pc[p] = "idle"

\* Batch of p is committed by the step.
Commits(p) == pc[p] = "next" /\ pc'[p] = "done"

\* Once a handle has written, nothing but its own commit changes ConfigDB: what
\* it reads from then on stays true (doWrite, ConfigDBTryLock).
WriterIsAlone ==
  [][\A p \in Process :
       tx[p].over # NoRows /\ db' # db => Commits(p)]_vars

\* The requests of the batch of p, without the DELETEs that found nothing.
Done(p) ==
  LET done == SetToSortSeq(DOMAIN batch[p].requests \ skipped[p],
                           LAMBDA i, j : i < j)
  IN [i \in DOMAIN done |-> batch[p].requests[done[i]]]

\* The requests of p for a part of a row would find it in what they commit on.
\* (They looked for it before the row's table was watched.)
RowsThere(p) ==
  \A i \in DOMAIN Done(p) :
    Done(p)[i].level \in {"field", "value"} =>
      IsPopulated(AfterAll(db, SubSeq(Done(p), 1, i - 1))[Done(p)[i].row])

\* The tables of the rows that a DELETE names, and those that it looks for more
\* rows in, though it watches only their parents.
NamedTables(req) ==
  CASE req.oper # "delete" -> {}
    [] req.oper = "delete" /\ req.level = "module" ->
         {t \in Table : ModuleOf[t] = ModuleOf[req.row[1]]}
    [] req.oper = "delete" /\ req.level \in {"table", "row"} -> {req.row[1]}
    [] OTHER -> {}
DeletedTables(req) ==
  NamedTables(req) \cup UNION {ChildTables(t) : t \in NamedTables(req)}
UnwatchedChildren(req) == DeletedTables(req) \ NamedTables(req)

\* The tables that p has watched for as long as it has relied on them.
Watched(p) ==
  IF overlap[p]
  THEN tx[p].watched \ UNION {UnwatchedChildren(r) : r \in ToSet(batch[p].requests)}
  ELSE tx[p].watched

\* A batch that is answered with success has done, to the tables it watches,
\* what its requests ask of the contents it is committed on (translib.go,
\* CommitTx), whatever other processes committed while it ran.
DoesWhatIsAsked ==
  [][\A p \in Process : (Commits(p) /\ RowsThere(p) /\ ~ignored[p]) =>
       LET asked == AfterAll(db, Done(p))
       IN \A r \in Row : r[1] \in Watched(p) => SameRow(db'[r], asked[r])]_vars

\* The references <<row, target>> that ValidateEditConfig does not check, or not
\* as the commit leaves them: of a row that a PUT resets, since the UPDATE of
\* an UPDATE and DELETE pair is not looked at; of a row that is written after
\* the batch has deleted its target, since any edit of the target counts.
UncheckedReferences(p) ==
  LET requests == batch[p].requests
  IN {ref \in Row \X Row :
        \E j \in DOMAIN requests :
          /\ ref[1] \in DOMAIN requests[j].data
          /\ \/ requests[j].oper = "replace" /\ requests[j].level # "field"
             \/ \E i \in 1 .. j - 1 :
                  requests[i].oper = "delete" /\ ref[2] \in NamedRows(requests[i])}

\* The references that the commit of p leaves dangling.
NewDangling(p) ==
  Dangling(db') \ (Dangling(db) \cup UncheckedReferences(p))

\* The references of the rows that a commit writes hold in what it leaves,
\* whatever was committed meanwhile: the tables a row may refer to are watched
\* (validateLeafRef, GetTablesToWatch).
OwnReferencesHold ==
  [][\A p \in Process : (Commits(p) /\ ~ignored[p]) =>
       \A d \in NewDangling(p) : d[1] \notin DOMAIN tx[p].over]_vars

\* A batch that nothing is committed during leaves no reference to a row that
\* does not exist (checkDeleteConstraint).
ReferencesHoldAlone ==
  [][\A p \in Process : (Commits(p) /\ ~overlap[p] /\ ~ignored[p]) =>
       NewDangling(p) = {}]_vars

\* No commit leaves a reference to a row that does not exist, of those that
\* ValidateEditConfig checks (validateLeafRef, checkDeleteConstraint).
ReferencesHold ==
  [][\A p \in Process : (Commits(p) /\ ~ignored[p]) => NewDangling(p) = {}]_vars

\* The tables whose size the CVL session of p may have wrong: a deletion counts
\* before it is checked, so also one that is refused or whose row another commit
\* has deleted meanwhile.
Miscounted(p) ==
  IF overlap[p] \/ ignored[p]
  THEN UNION {DeletedTables(r) : r \in ToSet(batch[p].requests)}
  ELSE {}

\* No commit makes a table outgrow its max-elements, though it is counted once
\* per session, before the lock, and then by hand (checkMaxElemConstraint).
SizesBounded ==
  [][\A p \in Process : Commits(p) =>
       \A t \in DOMAIN MaxElements \ Miscounted(p) :
         \/ Cardinality(Existing(db', t)) <= MaxElements[t]
         \/ Existing(db', t) \subseteq Existing(db, t)]_vars
=============================================================================
