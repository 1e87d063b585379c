------------------------------- MODULE OcDelete -------------------------------
(***************************************************************************)
(* The transformer on OpenConfig paths: a DELETE, and what a REPLACE       *)
(* deletes.  The tree below the target is walked with the rows that        *)
(* ConfigDB has, to find the rows that are owned by the nodes, to be       *)
(* deleted whole, and the fields that nodes keep in other rows             *)
(* (xlate_del_to_db.go).                                                   *)
(***************************************************************************)
EXTENDS OcTransformer

\* A call of yangContainerDelData or of yangListDelData: what is left to visit
\* of the children of a container or of a list instance, or of the instances of
\* a list.  fill: fillFields.  removed: removedFillFields.  skip: skipSibling.
Frame(list, uri, todo, fill) ==
  [list |-> list, uri |-> uri, todo |-> todo, fill |-> fill,
   removed |-> FALSE, skip |-> FALSE]

\* gone: the rows found so far.  A REPLACE looks into its maps, ops, for what is
\* to be written.
Deletion(gone, frames) == [gone |-> gone, frames |-> frames]

\* addInstanceToDeleteMap, addToDeleteForReplaceMap: a row that is written is
\* not deleted, and a field is deleted neither of a row that is replaced nor
\* when it is written.
AddRow(gone, ops, r) ==
  IF IsRow(r) /\ Holding(ops, r) = {} THEN WithRow(gone, r) ELSE gone
AddMarker(gone, r) == IF IsRow(r) THEN WithField(gone, r, FillFields, {}) ELSE gone
AddField(gone, ops, r, f) ==
  IF r \in DOMAIN ops["replace"] \/ FieldInMaps(ops, r, f) THEN gone
  ELSE WithField(gone, r, f, {})

\* A container or list that holds leafs only is done when its payload was.
Passed(x, u) == IsTerminal(u[1]) /\ <<RowOf(u), u>> \in x.visited

(***************************************************************************)
(* Entering a node.                                                        *)
(***************************************************************************)
ChildUris(u) == {<<c, u[2]>> : c \in Children(u[1])}
IsThere(gone, r) == r \in DOMAIN gone
HasFieldsToGo(gone, r) == IsThere(gone, r) /\ gone[r] # Absent

\* yangContainerDelData: the target owns its row if that is not its parent's;
\* another container, if the row is not found yet.
EnterContainer(gone, ops, u, first) ==
  LET r == RowOf(u)
      Fields(g) == Deletion(g, <<Frame(FALSE, u, ChildUris(u), TRUE)>>)
      NoFields(g) == Deletion(g, <<Frame(FALSE, u, ChildUris(u), FALSE)>>)
  IN CASE ~IsRow(r) -> NoFields(gone)
       [] IsRow(r) /\ first ->
            IF Owns(u[1]) /\ RowOf(ParentUri(u)) # r
            THEN NoFields(AddRow(gone, ops, r))
            ELSE Fields(AddMarker(gone, r))
       [] IsRow(r) /\ ~first /\ IsThere(gone, r) ->
            IF HasFieldsToGo(gone, r) THEN Fields(gone) ELSE NoFields(gone)
       [] OTHER ->
            IF Owns(u[1]) THEN NoFields(AddRow(gone, ops, r))
            ELSE Fields(AddMarker(gone, r))

\* yangListDelData: the instances to visit are the rows of the list's table.
EnterList(view, u) ==
  Frame(TRUE, u, IF IsWholeList(u) THEN InstancesIn(view, u)
                 ELSE {v \in {u} : InstanceExists(view, u)}, FALSE)

\* The same: whether the fields of an instance are to be deleted, which the
\* instances after it inherit.
FillInstance(gone, list, v, first) ==
  \/ list.fill
  \/ ~Owns(v[1])
  \/ first /\ RowOf(ParentUri(list.uri)) = RowOf(v)
  \/ ~first /\ HasFieldsToGo(gone, RowOf(v))

(***************************************************************************)
(* Leafs.                                                                  *)
(***************************************************************************)
\* The key of a list stands for its row.
DeleteKey(gone, ops, frame) ==
  LET r == RowOf(frame.uri)
  IN CASE IsThere(gone, r) -> gone
       [] ~IsThere(gone, r) /\ Owns(frame.uri[1]) -> AddRow(gone, ops, r)
       [] OTHER -> AddMarker(gone, r)

\* mapFillDataUtil of a DELETE.
FieldOrNull(n) == IF HasField(n) THEN FieldMark[n] ELSE NullField

\* The leaf of a row of which fields are deleted; the first one that is found
\* takes the place of the marker.
DeleteLeaf(d, ops, u) ==
  LET frame == Head(d.frames)
      r == RowOf(frame.uri)
      gone == AddField(d.gone, ops, r, FieldOrNull(u[1]))
      count == IF IsThere(gone, r) THEN Cardinality(DOMAIN gone[r]) ELSE 0
      drop == ~frame.removed /\ count > 1
  IN Deletion(
       IF drop THEN [gone EXCEPT ![r] = Without(@, {FillFields})] ELSE gone,
       <<[frame EXCEPT
            !.skip = r \in DOMAIN ops["replace"],
            !.removed = @ \/ count > 1
              \/ (count = 1 /\ FillFields \notin DOMAIN gone[r])]>>
         \o Tail(d.frames))

(***************************************************************************)
(* Steps of the walk.                                                      *)
(***************************************************************************)
Push(d, gone, frames) == Deletion(gone, frames \o d.frames)

\* Child or instance u is visited.
Visit(view, req, x, ops, rest, u) ==
  LET frame == Head(rest.frames)
      first == frame.uri = req.uri
      entered == EnterContainer(rest.gone, ops, u, FALSE)
      fill == FillInstance(rest.gone, frame, u, first)
      known == [rest EXCEPT !.frames[1].fill = fill]
  IN CASE Kind[u[1]] = "leaf" /\ IsKey(u[1]) ->
            Deletion(DeleteKey(rest.gone, ops, frame), rest.frames)
       [] Kind[u[1]] = "leaf" /\ ~IsKey(u[1]) ->
            IF frame.fill /\ ~frame.skip /\ (HasField(u[1]) \/ u[1] \in RefByKey)
            THEN DeleteLeaf(rest, ops, u) ELSE rest
       [] Kind[u[1]] = "container" ->
            IF Passed(x, u) \/ u \in Invalid THEN rest
            ELSE Push(rest, entered.gone, entered.frames)
       [] Kind[u[1]] = "list" /\ ~frame.list ->
            Push(rest, rest.gone, <<EnterList(view, u)>>)
       [] OTHER ->
            CASE u \in Invalid -> rest
              [] u \notin Invalid /\ Passed(x, u) -> known
              [] OTHER -> Push(known, rest.gone,
                    <<[Frame(FALSE, u, ChildUris(u), fill) EXCEPT
                         !.removed = frame.removed]>>)

\* The children and instances are maps of Go, ranged over in any order.
DeleteStep(view, req, x, ops, d, u) ==
  Visit(view, req, x, ops, [d EXCEPT !.frames[1].todo = @ \ {u}], u)

\* An instance of a list is done: the next one goes on with its flags.
Leave(d) ==
  LET done == Head(d.frames)
      rest == Tail(d.frames)
  IN Deletion(d.gone,
       IF rest # <<>> /\ Head(rest).list
       THEN <<[Head(rest) EXCEPT !.fill = done.fill, !.removed = done.removed]>>
            \o Tail(rest)
       ELSE rest)

\* allChildTblGetToDelete
FirstFrames(view, x, ops, req) ==
  LET u == req.uri
  IN CASE Kind[u[1]] = "list" -> Deletion(NoRows, <<EnterList(view, u)>>)
       [] Kind[u[1]] # "list" /\ Passed(x, u) -> Deletion(NoRows, <<>>)
       [] OTHER -> EnterContainer(NoRows, ops, u, TRUE)

(***************************************************************************)
(* A DELETE of a leaf (dbMapDelete): it is reset to its default, if any.   *)
(***************************************************************************)
MapsOfLeaf(view, req) ==
  LET n == req.uri[1]
      r == RowOf(req.uri)
  IN CASE ~IsRow(r) -> NoOperations
       [] IsRow(r) /\ n \in DOMAIN DefaultMark ->
            IF NothingToReset(view, req.uri) THEN NoOperations
            ELSE [NoOperations EXCEPT !["update"] = r :> (FieldMark[n] :> {DefaultMark[n]})]
       [] IsRow(r) /\ n \notin DOMAIN DefaultMark /\ HasField(n) ->
            [NoOperations EXCEPT !["delete"] = r :>
               (FieldMark[n] :> (IF IsLeafList(n) THEN req.values ELSE {}))]
       [] OTHER -> [NoOperations EXCEPT !["delete"] = r :>
                      (IF n \in RefByKey THEN NullField :> {} ELSE Absent)]
=============================================================================
