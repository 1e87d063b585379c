-------------------------------- MODULE CVL --------------------------------
(***************************************************************************)
(* ValidateEditConfig of the Config Validation Library: what it checks of  *)
(* an edit before the DB handle takes it into its transaction.             *)
(*                                                                         *)
(* A session keeps the edits of the transaction that it has seen (the      *)
(* request cache, refused ones included) and the sizes of the tables with  *)
(* a limit.  It reads the database through the handle: `view' is the       *)
(* database with the transaction's own writes over it.  Syntax, must and   *)
(* when expressions and custom validations are left out: the edits of this *)
(* model pass them.                                                        *)
(***************************************************************************)
EXTENDS SonicSchema

Ops == {"create", "update", "delete"}

\* CVLEditConfigData.  ok: validated, VType = VALIDATE_NONE.
Edit(row, op, data) == [row |-> row, op |-> op, data |-> data, ok |-> FALSE]

\* A delete without fields deletes the entry, with fields only those.
WholeDelete(e) == e.op = "delete" /\ DOMAIN e.data = {}
FieldDelete(e) == e.op = "delete" /\ DOMAIN e.data # {}

Own(cache, row) == SelectSeq(cache, LAMBDA e : e.row = row)

(***************************************************************************)
(* The entry that the leafrefs of an edit are evaluated on.                *)
(***************************************************************************)
\* evaluateDbTblNetChange: a deletion of the entry assigns a local variable,
\* so that the later edits are lost and the earlier ones stay.
NetChange(cache, row, e) ==
  LET done == SelectSeq(Own(cache, row), LAMBDA x : x.ok)
      lost == {i \in DOMAIN done : \E j \in 1..i : WholeDelete(done[j])}
      seen == SubSeq(done, 1, Len(done) - Cardinality(lost))
  IN FoldLeft(LAMBDA v, x : IF x.op = "delete" THEN Without(v, DOMAIN x.data)
                            ELSE Merged(v, x.data),
              e, seen)

\* fetchDataFromRequestCache looks at the last edit of the row: of an update
\* that comes with a deletion of fields it takes nothing.
NodeOf(view, cache, edits, e) ==
  CASE e.op = "create" -> e.data
    [] e.op = "update" /\ Len(edits) = 1 ->
         Merged(NetChange(cache, e.row, view[e.row]), e.data)
    [] OTHER -> NetChange(cache, e.row, view[e.row])

\* hasDeletedInReqCache
HasDeletedInReqCache(cache, target) ==
  LET own == Own(cache, target)
  IN \E i \in DOMAIN own :
       /\ WholeDelete(own[i]) /\ own[i].ok
       /\ \A j \in i + 1 .. Len(own) : own[j].op # "create"

\* validateLeafRef: a target that exists must not be deleted by the
\* transaction; for one that does not, any edit of it will do.
TargetFound(view, cache, target) ==
  IF IsPopulated(view[target]) THEN ~HasDeletedInReqCache(cache, target)
  ELSE Own(cache, target) # <<>>

ValidateLeafRef(view, cache, row, node) ==
  \A ref \in LeafRef : \A target \in RefTargets(ref, row, node) :
    TargetFound(view, cache, target)

(***************************************************************************)
(* Deleting a row that others refer to.                                    *)
(***************************************************************************)
\* checkDeleteInRequestCache: an edit that removes the reference of r to the
\* row of key value x.  The field is looked for in every row's edit.
Excuses(e, r, t, x) ==
  \/ e.row = r /\ WholeDelete(e)
  \/ \E ref \in LeafRef :
       /\ ref.from = r[1] /\ ref.to = t /\ ref.field \in DOMAIN e.data
       /\ IF ref.field \in LeafList THEN x \notin e.data[ref.field]
          ELSE IF e.op = "delete" THEN e.data[ref.field] = {}
          ELSE e.data[ref.field] # {x}

\* checkDeleteConstraint; edits are the accepted ones and the current call.
\* Mutant: a row with a referrer that is a field is not in use.
InUseByKey(view, edits, e) ==
  \E r \in KeyReferrers(view, e.row) :
    ~\E x \in ToSet(edits) : x # e /\ Excuses(x, r, e.row[1], e.row[2][1])
InUse(view, edits, e) ==
  \E r \in Referrers(view, e.row) :
    ~\E x \in ToSet(edits) : x # e /\ Excuses(x, r, e.row[1], e.row[2][1])

(***************************************************************************)
(* Table sizes (checkMaxElemConstraint).                                   *)
(***************************************************************************)
Size(view, counts, t) ==
  IF t \in DOMAIN counts THEN counts[t] ELSE Cardinality(Existing(view, t))
HasLimit(e) == e.row[1] \in DOMAIN MaxElements

\* Mutant: an insertion into a table at its limit is accepted.
NeverFull(view, counts, e) ==
  HasLimit(e) /\ Size(view, counts, e.row[1]) > MaxElements[e.row[1]]
Full(view, counts, e) ==
  HasLimit(e) /\ Size(view, counts, e.row[1]) >= MaxElements[e.row[1]]

Recount(view, counts, e) ==
  LET size == Size(view, counts, e.row[1])
      new == CASE e.op = "create" /\ ~Full(view, counts, e) -> size + 1
               [] WholeDelete(e) /\ size > 0 -> size - 1
               [] OTHER -> size
  IN IF HasLimit(e) /\ (e.op = "create" \/ WholeDelete(e))
     THEN With(counts, e.row[1], new)
     ELSE counts

(***************************************************************************)
(* One call.                                                               *)
(***************************************************************************)
Step1(view, accepted, counts, edits, e) ==
  CASE e.op = "create" /\ Full(view, counts, e) -> "too-many-elements"
    [] FieldDelete(e) /\ DOMAIN e.data \cap Mandatory[e.row[1]] # {} ->
         "mandatory-field-delete"
    [] WholeDelete(e) /\ InUse(view, accepted \o edits, e) -> "instance-in-use"
    [] OTHER -> "ok"

Step3(view, cache, edits, e) ==
  LET exists == IsPopulated(view[e.row])
      skips == e.op = "delete" \/ (e.op = "update" /\ DOMAIN e.data = {NullField})
  IN CASE e.op = "create" /\ exists -> "already-exist"
       [] e.op # "create" /\ ~exists -> "not-exist"
       [] /\ exists <=> e.op # "create"
          /\ ~skips
          /\ ~ValidateLeafRef(view, cache, e.row, NodeOf(view, cache, edits, e)) ->
            "instance-required"
       [] OTHER -> "ok"

\* The first error of a sequence of results.
FirstError(results) ==
  LET errors == {i \in DOMAIN results : results[i] # "ok"}
  IN IF errors = {} THEN "ok" ELSE results[Min(errors)]

\* ValidateEditConfig for the new edits of one doCVL call.
ValidateEditConfig(view, cache, counts, edits) ==
  LET accepted == SelectSeq(cache, LAMBDA e : e.ok)
      seen == cache \o edits
      first == FirstError([i \in DOMAIN edits |->
                 Step1(view, accepted, counts, edits, edits[i])])
      third == FirstError([i \in DOMAIN edits |->
                 Step3(view, seen, edits, edits[i])])
  IN IF first # "ok" THEN first ELSE third

\* markCfgDataValidated: an equal edit that was refused earlier counts too.
Validated(cache, edits) ==
  [i \in DOMAIN cache |->
     IF cache[i] \in ToSet(edits) THEN [cache[i] EXCEPT !.ok = TRUE]
     ELSE cache[i]]

\* The request cache after a call with result `err'.
CacheAfter(cache, edits, err) ==
  LET seen == cache \o edits
  IN IF err = "ok" THEN Validated(seen, edits) ELSE seen

\* The table sizes after a call, whatever its result.
CountsAfter(view, counts, edits) ==
  FoldLeft(LAMBDA c, e : Recount(view, c, e), counts, edits)
=============================================================================
