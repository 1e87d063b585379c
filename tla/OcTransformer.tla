----------------------------- MODULE OcTransformer -----------------------------
(***************************************************************************)
(* The transformer on OpenConfig paths: what each node of a payload adds   *)
(* to the rows to be written, the defaults, the maps of a REPLACE, and     *)
(* what each node of the tree adds to the rows to be deleted               *)
(* (xlate_to_db.go, xlate_replace_utils.go, xlate_del_to_db.go).           *)
(*                                                                         *)
(* A map of rows is a function from some rows to entries; of rows to be    *)
(* deleted, an entry says which fields, and Absent all of the row.         *)
(***************************************************************************)
EXTENDS OcSchema

CONSTANT FillFields  \* marker of a row of which only fields are to be deleted

ASSUME MarkerAssumption == FillFields \notin Field \cup {NullField}

\* uri: the target.  data: the leafs of the payload, as a function from their
\* uris to sets of values.  values: of a leaf-list, those to be deleted, {} for
\* all.  keep: not DeleteEmptyEntry.
OcRequest(oper, uri, data, values, keep) ==
  [oper |-> oper, uri |-> uri, data |-> data, values |-> values, keep |-> keep]
NoData == [u \in {} |-> {}]

TargetKind(req) == Kind[req.uri[1]]
IsLeafList(n) == HasField(n) /\ FieldMark[n] \in LeafList
PayloadNodes(req) == UNION {Enclosing(u) : u \in DOMAIN req.data}

\* dataToDBMapAdd
WithRow(m, r) == IF r \in DOMAIN m THEN m ELSE (r :> Absent) @@ m
WithField(m, r, f, v) == LET n == WithRow(m, r) IN (r :> ((f :> v) @@ n[r])) @@ n
WithFields(m, r, e) == LET n == WithRow(m, r) IN (r :> (n[r] @@ e)) @@ n

\* What the walk of a payload leaves.  result: the rows for the operation.
\* update, delete: of a REPLACE, the fields of rows that the target does not
\* own (replaceInfo.subOpDataMap).  defaults, aux: yangDefValMap,
\* yangAuxValMap.  visited: tblXpathMap.  skip: skipDelete.  deep:
\* targetHasNonTerminalNode.
Walked(result, update, visited, skip, deep) ==
  [result |-> result, update |-> update, delete |-> NoRows,
   defaults |-> NoRows, aux |-> NoRows, visited |-> visited,
   skip |-> skip, deep |-> deep]
NothingWalked == Walked(NoRows, NoRows, {}, FALSE, TRUE)

\* verifyParentTableOc: the lists on the path need rows that exist, and so does
\* a list instance that is the target, but for a REPLACE.
InstanceExists(view, u) == IsRow(RowOf(u)) /\ IsPopulated(view[RowOf(u)])
ResourceExists(view, req) ==
  \A v \in Enclosing(req.uri) :
    (IsListInstance(v) /\ (v # req.uri \/ req.oper # "replace")) =>
      InstanceExists(view, v)

\* The same: a leaf that has a default and a table other than the last list
\* before it, but no row, is left alone by a DELETE.
LastListTable(u) ==
  LET lists == SelectSeq(PathTo(u[1]), LAMBDA m : Kind[m] = "list")
  IN IF lists = <<>> THEN NoTable ELSE TableOf(Last(lists))
NothingToReset(view, u) ==
  /\ IsRow(RowOf(u)) /\ TableOf(u[1]) # LastListTable(u)
  /\ ~IsPopulated(view[RowOf(u)])

(***************************************************************************)
(* The target of a REPLACE.                                                *)
(***************************************************************************)
\* processTargetUriForReplace: the row of the target is replaced when the
\* target owns it, and else, if it exists, updated.
\* Mutant: a node owns the row that it shares with its parent.
OwnsTargetByMark(u) == Owns(u[1])
OwnsTarget(u) ==
  \/ OwnerOf(u[1]) = "owner"
  \/ OwnerOf(u[1]) = "unmarked" /\ RowOf(ParentUri(u)) # RowOf(u)

ReplaceTarget(view, req) ==
  LET u == req.uri
      row == RowOf(u)
      there == IsRow(row) /\ IsPopulated(view[row])
      null == row :> OnlyNull
      terminal == IsTerminal(u[1])
      whole == IsWholeList(u)
      fresh == IsListInstance(u) /\ ~there
  IN CASE Kind[u[1]] = "leaf" \/ (terminal /\ ~whole) ->
            Walked(NoRows, NoRows, {}, TRUE, FALSE)
       [] whole -> Walked(NoRows, NoRows, {}, FALSE, ~terminal)
       [] ~IsRow(row) /\ Kind[u[1]] # "leaf" /\ ~terminal /\ ~whole ->
            NothingWalked
       [] OTHER ->
            IF OwnsTarget(u) \/ fresh
            THEN Walked(null, NoRows, {<<row, u>>}, fresh, TRUE)
            ELSE Walked(NoRows, null, {<<row, u>>}, fresh, TRUE)

(***************************************************************************)
(* The nodes of a payload (yangReqToDbMapCreate).                          *)
(***************************************************************************)
\* dataToDBMapForReplace: to the row that is updated, if it is there already;
\* else by owner.  A value that a row to be updated has is kept.
ForReplace(x, u, r, f, v) ==
  IF r \in DOMAIN x.update
  THEN [x EXCEPT !.update = WithFields(@, r, f :> v)]
  ELSE IF x.deep /\ ~Owns(u[1])
       THEN [x EXCEPT !.update = WithField(@, r, f, v)]
       ELSE [x EXCEPT !.result = WithField(@, r, f, v)]

\* processDataToResultMap
Fill(x, req, u, r, f, v) ==
  IF req.oper = "replace" THEN ForReplace(x, u, r, f, v)
  ELSE [x EXCEPT !.result = WithField(@, r, f, v)]

\* replcePayloadContainerProcessing: a container below the target whose table
\* is not that of its parent.  (That of the target counts as none when the
\* target is a container.)
ParentTable(req, u) ==
  LET up == ParentUri(u)
  IN IF up = req.uri /\ Kind[up[1]] = "container" THEN NoTable ELSE TableOf(up[1])
FillContainer(x, req, u) ==
  LET r == RowOf(u)
  IN IF /\ req.oper = "replace" /\ Kind[u[1]] = "container"
        /\ u # req.uri /\ Within(u, req.uri)
        /\ IsRow(r) /\ r[1] # ParentTable(req, u)
     THEN ForReplace([x EXCEPT !.visited = @ \cup {<<r, u>>}],
                     u, r, NullField, {})
     ELSE x

\* mapFillData, mapFillDataUtil: leafs above the target are keys of its path; a
\* leaf that a key refers to makes the row exist, and so does a key in a REPLACE.
IsKey(n) == Kind[Up[n]] = "list" /\ KeyLeaf[Up[n]] = n
MakesRow(req, n) == n \in RefByKey \/ (IsKey(n) /\ req.oper = "replace")
FillLeaf(x, req, u) ==
  LET n == u[1]
      r == RowOf(u)
      seen == [x EXCEPT !.visited = @ \cup {<<r, ParentUri(u)>>}]
      passed == \/ ~AtOrBelow(n, req.uri[1]) \/ ~IsRow(r)
                \/ IsKey(n) /\ req.oper # "replace"
  IN CASE passed -> x
       [] ~passed /\ HasField(n) -> Fill(seen, req, u, r, FieldMark[n], req.data[u])
       [] ~passed /\ ~HasField(n) /\ MakesRow(req, n) -> Fill(seen, req, u, r, NullField, {})
       [] OTHER -> seen

FillNode(x, req, u) ==
  IF Kind[u[1]] = "leaf" THEN FillLeaf(x, req, u) ELSE FillContainer(x, req, u)

(***************************************************************************)
(* Defaults.                                                               *)
(***************************************************************************)
\* The nodes of the tree that have row r and whose leafs were in the payload,
\* or the target.
VisitedNodes(x, r) == {v[2][1] : v \in {w \in x.visited : w[1] = r}}

\* dbMapDefaultFieldValFill
Below(N) == {n \in Node : \E m \in N : AtOrBelow(n, m)}
DefaultsAmong(t, N) ==
  LET L == TableFields(t, N) \cap DOMAIN DefaultMark
  IN [f \in {FieldMark[n] : n \in L} |->
        {DefaultMark[n] : n \in {m \in L : FieldMark[m] = f}}]

\* dbMapDefaultValFill: the defaults of CREATE and UPDATE, those of the leafs
\* below the visited nodes.
FillDefaults(x) ==
  [x EXCEPT !.defaults =
     [r \in {q \in DOMAIN x.result : VisitedNodes(x, q) # {}} |->
        Without(DefaultsAmong(r[1], Below(VisitedNodes(x, r))), DOMAIN x.result[r])]]

\* dbMapDefaultFieldValFillForReplace goes down only as long as the table is
\* the same.  The fields without a default that are not given are to be deleted.
SameTableBelow(t, N) ==
  {n \in Below(N) : \E m \in N :
     /\ AtOrBelow(n, m)
     /\ \A i \in ToSet(PathTo(n)) \ ToSet(PathTo(m)) : TableOf(i) = t}
NotGiven(t, N, given) ==
  LET L == SameTableBelow(t, N)
      fields == {FieldMark[n] : n \in TableFields(t, L) \ DOMAIN DefaultMark}
      null == IF L \cap RefByKey = {} THEN {} ELSE {NullField}
  IN [f \in (fields \cup null) \ DOMAIN given |-> {}]
DefaultsForReplace(t, N, given) ==
  Without(DefaultsAmong(t, SameTableBelow(t, N)), DOMAIN given)

\* removeTblInstMappedtoContainer: a row without fields that only containers
\* stand for is not written.
NoInstance(x, r, e, defaults) ==
  /\ e = OnlyNull /\ defaults = Absent
  /\ \A v \in x.visited : v[1] = r => ~IsListInstance(v[2])

WithoutRows(m, R) == RestrictDomain(m, LAMBDA r : r \notin R)

\* dbMapDefaultValFillForReplace, the rows to be replaced.
ReplaceDefaults(x) ==
  LET R == {r \in DOMAIN x.result : VisitedNodes(x, r) # {}}
      defaults == [r \in R |->
        DefaultsForReplace(r[1], VisitedNodes(x, r), x.result[r])]
      aux == [r \in R |-> NotGiven(r[1], VisitedNodes(x, r), x.result[r])]
  IN [x EXCEPT !.defaults = defaults, !.aux = aux,
               !.result = WithoutRows(@, {r \in R :
                            NoInstance(x, r, x.result[r], defaults[r])})]

\* The same, the rows to be updated: what is not given of the target's part of
\* the row is set to its default or deleted.
UpdateDefaults(x) ==
  LET R == IF x.deep
           THEN {r \in DOMAIN x.update : VisitedNodes(x, r) # {}} ELSE {}
      both == R \cap DOMAIN x.result
      own == [r \in R |->
        IF r \in both THEN x.defaults[r]
        ELSE DefaultsForReplace(r[1], VisitedNodes(x, r), x.update[r])]
      full == [r \in R |-> x.update[r] @@ own[r]]
      gone == [r \in R \ both |->
                 NotGiven(r[1], VisitedNodes(x, r), x.update[r])]
  IN [x EXCEPT
        !.delete = RestrictDomain(gone, LAMBDA r : gone[r] # Absent),
        !.defaults = WithoutRows(@, both),
        !.aux = WithoutRows(@, both),
        !.update = WithoutRows(full @@ @, {r \in R : NoInstance(x, r, full[r], Absent)})]

FillDefaultsForReplace(x) == UpdateDefaults(ReplaceDefaults(x))

(***************************************************************************)
(* The maps of the operations.                                             *)
(***************************************************************************)
NoOperations == [o \in {"create", "update", "replace", "delete"} |-> NoRows]
Holding(ops, r) == {o \in DOMAIN ops : r \in DOMAIN ops[o]}
FieldInMaps(ops, r, f) == \E o \in Holding(ops, r) : f \in DOMAIN ops[o][r]

\* mapMergeAcrossOperations for one row: a row goes where it already is, and a
\* field that is written is not deleted.  (instanceExistsinResultMap takes any
\* map that has the row; but for the fields to be deleted, only one has.)
MergeRow(ops, op, r, e) ==
  LET new == RestrictDomain(e, LAMBDA f : ~FieldInMaps(ops, r, f))
  IN CASE Holding(ops, r) = {} -> [ops EXCEPT ![op] = WithFields(@, r, e)]
       [] Holding(ops, r) # {} /\ op # "delete" ->
            LET o == CHOOSE h \in Holding(ops, r) : TRUE
            IN [ops EXCEPT ![o] = WithFields(@, r, new)]
       [] r \in DOMAIN ops["replace"] -> ops
       [] OTHER -> IF new = Absent THEN ops
                   ELSE [ops EXCEPT !["delete"] = WithFields(@, r, new)]
MergeMaps(ops, op, m) ==
  FoldLeft(LAMBDA p, r : MergeRow(p, op, r, m[r]), ops, SetToSeq(DOMAIN m))

\* dbMapCreate: a PUT of a leaf is an update;
\* combineGlobalSubOpMapWithReplaceInfoSubOpMap,
\* mergeSubOpMapWithResultForReplace.
MapsOf(x, req) ==
  CASE req.oper # "replace" -> [NoOperations EXCEPT ![req.oper] = x.result]
    [] req.oper = "replace" /\ TargetKind(req) = "leaf" /\ ~IsLeafList(req.uri[1]) ->
         [NoOperations EXCEPT !["update"] = x.result]
    [] OTHER ->
         MergeMaps(MergeMaps([NoOperations EXCEPT !["replace"] = x.result],
                             "update", x.update), "delete", x.delete)
=============================================================================
