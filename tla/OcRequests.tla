----------------------------- MODULE OcRequests -----------------------------
(***************************************************************************)
(* Requests of translib on OpenConfig paths, one after the other: the walk *)
(* of the payload, the walk of what is to be deleted, and the calls of the *)
(* common app, in the transaction of one handle; and the walk of a GET.    *)
(*                                                                         *)
(* The payload, the children of a node and the rows of a map are maps of   *)
(* Go: each walk goes through them in any order.  What other processes do  *)
(* meanwhile is the subject of module Requests.                            *)
(***************************************************************************)
EXTENDS OcSubscribe, OcStore

CONSTANTS
  Asked,       \* the requests that may be made
  Databases,   \* the contents ConfigDB may start with
  MaxRequests  \* bound: requests made

ASSUME OcRequestsAssumption ==
  /\ \A d \in Databases : DOMAIN d = Row /\ \A r \in Row : IsEntry(d[r])
  /\ \A q \in Asked : \A u \in DOMAIN q.data : Kind[u[1]] = "leaf"

VARIABLES
  db,     \* ConfigDB
  view,   \* what the handle shows: ConfigDB with what it has written
  cvl,    \* the session of the handle: cache and counts
  pc,     \* where the request is
  req,    \* the request
  x,      \* what the walk of the payload has made
  walk,   \* the payload's nodes left to visit, those of the deepest node first
  ops,    \* the maps of the operations
  del,    \* the walk of what is to be deleted
  left,   \* the items of the common app
  last,   \* the last item taken
  calls,  \* its calls
  reader, \* the walk of a GET
  served  \* number of requests begun

vars == <<db, view, cvl, pc, req, x, walk, ops, del, left, last, calls, reader, served>>

NoRequest == OcRequest("update", <<Root, <<>>>>, NoData, {}, FALSE)
NoItem == <<"rows", <<NoTable, <<>>>>>>
NewSession == [cache |-> <<>>, counts |-> [t \in {} |-> 0]]
NothingFound == Deletion(NoRows, <<>>)

Init ==
  /\ db \in Databases /\ view = db /\ cvl = NewSession
  /\ pc = "idle" /\ req = NoRequest
  /\ x = NothingWalked /\ walk = <<>> /\ ops = NoOperations /\ del = NothingFound
  /\ left = {} /\ last = NoItem /\ calls = <<>> /\ reader = NothingRead
  /\ served = 0

Begin ==
  /\ pc = "idle" /\ served < MaxRequests
  /\ req' \in Asked
  /\ served' = served + 1
  /\ pc' = "translate"
  /\ UNCHANGED <<db, view, cvl, x, walk, ops, del, left, last, calls, reader>>

(***************************************************************************)
(* XlateToDb.                                                              *)
(***************************************************************************)
\* The maps are handed to the common app.
ToApp(m) ==
  /\ ops' = m
  /\ left' = OcItems(req, m)
  /\ pc' = "app"

\* verifyParentTable
NotFound ==
  /\ pc = "translate" /\ ~ResourceExists(view, req)
  /\ pc' = "failed"
  /\ UNCHANGED <<db, view, cvl, req, x, walk, ops, del, left, last, calls, reader, served>>

\* dbMapDelete
TranslateDelete ==
  /\ pc = "translate" /\ req.oper = "delete" /\ ResourceExists(view, req)
  /\ CASE TargetKind(req) = "leaf" ->
            ToApp(MapsOfLeaf(view, req)) /\ UNCHANGED del
       [] TargetKind(req) = "container" /\ req.uri \in Invalid ->
            ToApp(NoOperations) /\ UNCHANGED del
       [] OTHER ->
            /\ del' = FirstFrames(view, NothingWalked, NoOperations, req)
            /\ pc' = "delete"
            /\ UNCHANGED <<ops, left>>
  /\ UNCHANGED <<db, view, cvl, req, x, walk, last, calls, reader, served>>

\* The nodes of the payload right below u.
PayloadBelow(u) == {v \in PayloadNodes(req) \ {<<Root, <<>>>>} : WalkParent(v) = u}
Deeper(w, u) == LET below == PayloadBelow(u) IN IF below = {} THEN w ELSE <<below>> \o w

\* dbMapCreate
TranslateWrite ==
  /\ pc = "translate" /\ req.oper \notin {"delete", "get"} /\ ResourceExists(view, req)
  /\ x' = IF req.oper = "replace" THEN ReplaceTarget(view, req) ELSE NothingWalked
  /\ walk' = Deeper(<<>>, <<Root, <<>>>>)
  /\ pc' = "walk"
  /\ UNCHANGED <<db, view, cvl, req, ops, del, left, last, calls, reader, served>>

\* yangReqToDbMapCreate
WalkNode ==
  /\ pc = "walk" /\ walk # <<>>
  /\ \E u \in Head(walk) :
       LET rest == Head(walk) \ {u}
           others == IF rest = {} THEN Tail(walk) ELSE <<rest>> \o Tail(walk)
       IN IF u \in Invalid
          THEN pc' = "failed" /\ UNCHANGED <<x, walk>>
          ELSE /\ x' = FillNode(x, req, u)
               /\ walk' = Deeper(others, u)
               /\ UNCHANGED pc
  /\ UNCHANGED <<db, view, cvl, req, ops, del, left, last, calls, reader, served>>

\* The defaults, and then the walk of what a REPLACE is to delete.
WalkDone ==
  /\ pc = "walk" /\ walk = <<>>
  /\ x' = IF req.oper = "replace" THEN FillDefaultsForReplace(x) ELSE FillDefaults(x)
  /\ IF req.oper = "replace" /\ ~x.skip
     THEN /\ ops' = MapsOf(x', req)
          /\ del' = FirstFrames(view, x', ops', req)
          /\ pc' = "delete"
          /\ UNCHANGED left
     ELSE ToApp(MapsOf(x', req)) /\ UNCHANGED del
  /\ UNCHANGED <<db, view, cvl, req, walk, last, calls, reader, served>>

\* allChildTblGetToDelete
DeleteNode ==
  /\ pc = "delete" /\ del.frames # <<>>
  /\ \E u \in Head(del.frames).todo : del' = DeleteStep(view, req, x, ops, del, u)
  /\ UNCHANGED <<db, view, cvl, pc, req, x, walk, ops, left, last, calls, reader, served>>

LeaveNode ==
  /\ pc = "delete" /\ del.frames # <<>> /\ Head(del.frames).todo = {}
  /\ del' = Leave(del)
  /\ UNCHANGED <<db, view, cvl, pc, req, x, walk, ops, left, last, calls, reader, served>>

DeleteDone ==
  /\ pc = "delete" /\ del.frames = <<>>
  /\ ToApp(MergeMaps(ops, "delete", del.gone))
  /\ UNCHANGED <<db, view, cvl, req, x, walk, del, last, calls, reader, served>>

(***************************************************************************)
(* XlateFromDb.                                                            *)
(***************************************************************************)
\* GetAndXlateFromDB: what is read ahead.
TranslateGet ==
  /\ pc = "translate" /\ req.oper = "get" /\ ResourceExists(view, req)
  /\ reader' = Reading(WithRead(NoRows, view, Ahead(view, req.uri)), <<>>, NoData)
  /\ pc' = "target"
  /\ UNCHANGED <<db, view, cvl, req, x, walk, ops, del, left, last, calls, served>>

\* XlateFromDb, dbDataToYangJsonCreate
ShowTarget ==
  /\ pc = "target"
  /\ IF LeafNotFound(reader.data, req.uri)
     THEN pc' = "failed" /\ UNCHANGED reader
     ELSE pc' = "read" /\ reader' = ReadTarget(reader, req.uri)
  /\ UNCHANGED <<db, view, cvl, req, x, walk, ops, del, left, last, calls, served>>

\* yangDataFill
ReadNode ==
  /\ pc = "read" /\ reader.todo # <<>>
  /\ \E u \in Head(reader.todo) : reader' = ReadStep(view, reader, u)
  /\ UNCHANGED <<db, view, cvl, pc, req, x, walk, ops, del, left, last, calls, served>>

(***************************************************************************)
(* The common app and the transaction.                                     *)
(***************************************************************************)
TakeItem ==
  /\ pc = "app" /\ calls = <<>>
  /\ \E i \in NextItems(req, left, last) :
       /\ calls' \in OcCalls(view, req, x, ops, i)
       /\ left' = left \ {i}
       /\ last' = i
  /\ UNCHANGED <<db, view, cvl, pc, req, x, walk, ops, del, reader, served>>

\* A row that depends on one to be deleted cannot be cleaned up.
ItemRefused ==
  /\ pc = "app" /\ calls = <<>>
  /\ \E i \in NextItems(req, left, last) : OcCalls(view, req, x, ops, i) = {}
  /\ pc' = "failed"
  /\ UNCHANGED <<db, view, cvl, req, x, walk, ops, del, left, last, calls, reader, served>>

\* doCVL, doWrite
Overlooked(c, e) == c.onErr = "ignore" \/ (c.onErr = "missing" /\ e = "not-exist")
MakeCall ==
  /\ pc = "app" /\ calls # <<>>
  /\ LET c == Head(calls)
         edits == EditsOf(view, c)
         e == ValidateEditConfig(view, cvl.cache, cvl.counts, edits)
     IN /\ cvl' = [cache |-> CacheAfter(cvl.cache, edits, e),
                   counts |-> CountsAfter(view, cvl.counts, edits)]
        /\ view' = IF e = "ok" THEN [view EXCEPT ![c.row] = Written(edits, @)] ELSE view
        /\ IF e = "ok" \/ Overlooked(c, e)
           THEN calls' = Tail(calls) /\ UNCHANGED pc
           ELSE pc' = "failed" /\ UNCHANGED calls
  /\ UNCHANGED <<db, req, x, walk, ops, del, left, last, reader, served>>

\* CommitTx, and AbortTx on an error; DeleteDB.
Close(contents) ==
  /\ db' = contents /\ view' = contents /\ cvl' = NewSession
  /\ pc' = "idle" /\ req' = NoRequest
  /\ x' = NothingWalked /\ walk' = <<>> /\ ops' = NoOperations /\ del' = NothingFound
  /\ left' = {} /\ last' = NoItem /\ calls' = <<>> /\ reader' = NothingRead
  /\ UNCHANGED served

Commit == pc = "app" /\ left = {} /\ calls = <<>> /\ Close(view)
Abort == pc = "failed" /\ Close(db)
AnswerGet == pc = "read" /\ reader.todo = <<>> /\ Close(db)

Step ==
  \/ NotFound \/ TranslateDelete \/ TranslateWrite \/ WalkNode \/ WalkDone
  \/ DeleteNode \/ LeaveNode \/ DeleteDone
  \/ TranslateGet \/ ShowTarget \/ ReadNode \/ AnswerGet
  \/ TakeItem \/ ItemRefused \/ MakeCall \/ Commit \/ Abort
Next == Begin \/ Step

\* A request that has begun goes on: none of its steps waits for anything.
Spec == Init /\ [][Next]_vars /\ WF_vars(Step)

(***************************************************************************)
(* Properties.                                                             *)
(***************************************************************************)
Committing == pc = "app" /\ left = {} /\ calls = <<>>

\* A request that is answered with success leaves what it asks for
\* (cmnAppCRUCommonDbOpn, handleChildDeleteForOcReplaceAndDelete), in whatever
\* order the nodes and the rows came.
OcDoesWhatIsAsked ==
  [][Committing /\ pc' = "idle" =>
       LET asked == AfterOc(db, req)
       IN \A r \in Row : SameRow(db'[r], asked[r])]_vars

\* A request is refused, by the transformer, the common app or CVL, only for a
\* resource that does not exist, a leaf that has no value, a node that is not
\* valid, or a reference to a row that is not there in what it asks for: never for
\* the order of its calls (SortAsPerTblDeps, processTableDeleteForReplace).
RefusedForAReason ==
  [][pc # "failed" /\ pc' = "failed" =>
       \/ ~ResourceExists(db, req)
       \/ req.oper = "get" /\ TargetKind(req) = "leaf" /\ Answer(db, req.uri) = NoData
       \/ PayloadNodes(req) \cap Invalid # {}
       \/ Dangling(AfterOc(db, req)) # {}]_vars

\* A GET shows the contents, all of what is below the target and nothing else,
\* whatever was read ahead for the target, and in whatever order the nodes and
\* their tables are read (traverseDbHelper, yangDataFill).
OcReadShowsContents ==
  [][pc = "read" /\ pc' = "idle" => reader.shown = Answer(db, req.uri)]_vars
\* The leafs that the rows have, whether or not a GET comes to them: it does not
\* where a row above has gone with its last field.
LeafUris ==
  UNION {{u \in Uri : /\ u[1] = n /\ IsRow(RowOf(u))
                     /\ Enclosing(u) \cap Invalid = {}} : n \in Leafs(Node)}
LeafRow == [u \in LeafUris |-> RowOf(u)]
LeafIn(d, u) ==
  LET e == d[LeafRow[u]]
  IN IF HasField(u[1]) THEN OnlyField(e, FieldMark[u[1]]) ELSE IsPopulated(e)

\* A subscriber is told of each leaf below its path that comes, goes or changes
\* with a commit, by an info of its path and a row that has changed
\* (translateSubscribe, Translate), whichever node has the table of the leaf and
\* whatever keys the path has; and where the path that it is told of has keys, they
\* are those of that row.
ChangesAreNotified ==
  [][db' # db =>
       LET rows == {r \in Row : db[r] # db'[r]}
           leafs == {u \in LeafUris : LeafRow[u] \in rows /\ LeafIn(db, u) # LeafIn(db', u)}
       IN \A w \in Watches :
            LET noticed == {n \in w[2] \X rows : Notices(n[1], n[2])}
            IN w[2] # {} =>
                 /\ \A u \in {v \in leafs : PathMatches(v, w[1])} :
                      \E n \in noticed : IsToldOf(n[1], n[2], db[n[2]], db'[n[2]], u)
                 /\ \A n \in noticed :
                      LET p == ResolvedPath(n[1], n[2])
                      IN p[2] # <<>> => RowOf(p) = n[2]]_vars
=============================================================================
