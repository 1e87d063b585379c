-------------------------------- MODULE OcRead --------------------------------
(***************************************************************************)
(* The transformer's GET on OpenConfig paths: the rows that are read ahead *)
(* for the target (xlate.go), and the walk of the tree below it, which     *)
(* shows what the rows say and reads those that it finds missing           *)
(* (xlate_from_db.go).                                                     *)
(*                                                                         *)
(* The query parameters depth, content and fields are not modelled.        *)
(***************************************************************************)
EXTENDS OcTransformer

ASSUME OcReadAssumption ==
  /\ \A l \in DOMAIN KeyLeaf : TableOf(l) # NoTable
  /\ \A n, m \in DOMAIN TableMark :
       TableMark[n] = TableMark[m] /\ TableMark[n] # NoTable => n = m
  /\ \A u, v \in Invalid : Within(u, v) => u = v

(***************************************************************************)
(* Keys.                                                                   *)
(***************************************************************************)
\* xpathKeyExtractForGet: upwards from the node, as far as a list whose key
\* transformer makes the key of all keys on the path, or one whose key has the
\* name of that of its table.
HasItsKey(u, n) == Level(n) <= Len(u[2])
ReadKey(u) ==
  LET key[n \in Node] ==
        LET above == IF n = Root THEN <<>> ELSE key[Up[n]]
        IN CASE Kind[n] = "list" /\ ListKey[n] = "path" ->
                  IF HasItsKey(u, n) THEN SubSeq(u[2], 1, Level(n)) ELSE <<>>
             [] Kind[n] = "list" /\ ListKey[n] = "own" ->
                  IF HasItsKey(u, n) THEN <<u[2][Level(n)]>> ELSE above
             [] OTHER ->
                  IF n \in DOMAIN KeyName THEN Append(above, KeyName[n]) ELSE above
  IN key[u[1]]
RowToRead(u) == <<TableOf(u[1]), ReadKey(u)>>

(***************************************************************************)
(* Reading ahead.                                                          *)
(***************************************************************************)
\* childTable (childToUpdateParent): the nodes with a table of their own below
\* n, down to the first list on each path.
MarkedBelow(n) ==
  {m \in DOMAIN TableMark :
     /\ m # n /\ AtOrBelow(m, n)
     /\ \A l \in DOMAIN KeyLeaf \ {n, m} : ~(AtOrBelow(m, l) /\ AtOrBelow(l, n))}

\* fillKeySpecs
ChildSpecs(n) ==
  {m \in MarkedBelow(n) : TableMark[m] \notin {NoTable, TableOf(n)}}

\* IgnoreParentKey.  keyed: the key of the node above is known beforehand.
IgnoresParentKey(m, keyed) ==
  \/ m \in DOMAIN KeyName
  \/ ~keyed /\ Kind[m] = "list" /\ ListKey[m] = "path"

\* traverseDbHelper without a key: the rows whose key contains that of the
\* parent, if there is one.
HasPart(key, part) ==
  \E i \in 0..Len(key) - Len(part) : SubSeq(key, i + 1, i + Len(part)) = part
RowsWith(view, n, part) ==
  {r \in Existing(view, TableOf(n)) : HasPart(r[2], part)}

\* traverseDbHelper: the rows of the nodes below a row, and those below them.
RowsBelow(view, n, key) ==
  LET rows[s \in (DOMAIN TableMark) \X ({r[2] : r \in Row} \cup {<<>>})] ==
        LET part == IF IgnoresParentKey(s[1], FALSE) THEN <<>> ELSE s[2]
            own == RowsWith(view, s[1], part)
        IN own \cup UNION {rows[<<m, r[2]>>] : m \in ChildSpecs(s[1]), r \in own}
  IN UNION {rows[<<m, key>>] : m \in ChildSpecs(n)}
WithRowsBelow(view, n, R) ==
  R \cup UNION {RowsBelow(view, n, r[2]) : r \in R}

\* XlateUriToKeySpec, TraverseDb: from the row of the target, from its table when
\* the key is not known, or from the tables below it.  An error reads nothing.
Ahead(view, u) ==
  LET n == u[1]
      row == RowToRead(u)
      whole == row[1] # NoTable /\ row[2] = <<>>
      part(m) == IF whole \/ row[1] = NoTable \/ IgnoresParentKey(m, TRUE) THEN <<>> ELSE row[2]
      from == {row} \cap Existing(view, row[1])
  IN IF row[1] # NoTable /\ ~whole /\ from = {} THEN {}
     ELSE from \cup UNION {WithRowsBelow(view, m, RowsWith(view, m, part(m))) :
                             m \in IF whole THEN {n} ELSE ChildSpecs(n)}

(***************************************************************************)
(* The walk.  data: the rows that have been read (dbDataMap).  todo: the   *)
(* children and instances left, those of the deepest node first.  shown:   *)
(* the leafs of the answer.                                                *)
(***************************************************************************)
Reading(data, todo, shown) == [data |-> data, todo |-> todo, shown |-> shown]
NothingRead == Reading(NoRows, <<>>, NoData)

\* mapCopy
WithRead(data, view, R) == [r \in R |-> view[r]] @@ data
InData(data, t) == {r \in DOMAIN data : r[1] = t}

\* terminalNodeProcess: the key of a list and the leafs that it refers to are
\* taken from the uri, the others from the field of the row.
FromUri(u) == IsKey(u[1]) \/ (u[1] \in RefByKey /\ ~HasField(u[1]))
FromField(data, u) ==
  /\ HasField(u[1]) /\ RowToRead(u) \in DOMAIN data
  /\ FieldMark[u[1]] \in DOMAIN data[RowToRead(u)]
LeafValue(data, u) ==
  IF FromUri(u) THEN {Last(u[2])} ELSE data[RowToRead(u)][FieldMark[u[1]]]
LeafIsShown(data, u) ==
  \/ IsKey(u[1]) /\ RowToRead(u) \in DOMAIN data
  \/ ~IsKey(u[1]) /\ (FromUri(u) \/ FromField(data, u))

\* yangDataFill: the leafs of a node, and the containers and lists to go to.
ChildrenOf(u) == {<<c, u[2]>> : c \in Children(u[1])}
LeafsOf(u) == {v \in ChildrenOf(u) : Kind[v[1]] = "leaf" /\ v \notin Invalid}
Entered(x, u) ==
  [x EXCEPT
     !.todo = <<{v \in ChildrenOf(u) : Kind[v[1]] # "leaf"}>> \o @,
     !.shown = [v \in {w \in LeafsOf(u) : LeafIsShown(x.data, w)} |->
                  LeafValue(x.data, v)] @@ @]

\* The same, before a container is entered: its row is read, if it is not there.
\* fillDbDataMapForTbl: all rows of the table if the key is not known.
MissingFor(view, data, u) ==
  LET row == RowToRead(u)
  IN IF row[1] = NoTable \/ row \in DOMAIN data THEN {}
     ELSE {r \in Existing(view, row[1]) : row[2] \in {<<>>, r[2]}}
ReadContainer(view, x, u) ==
  IF u \in Invalid THEN x
  ELSE Entered([x EXCEPT !.data = WithRead(@, view, MissingFor(view, @, u))], u)

\* yangListInstanceDataFill: the key of a row is converted to that of an
\* instance, and back; what does not come back is not of this list.
\* Mutant: it is not converted back.
AnyInstances(data, u) ==
  {<<u[1], Append(u[2], Last(r[2]))>> : r \in InData(data, TableOf(u[1]))}
InstancesShown(data, u) ==
  UNION {{v \in {<<u[1], Append(u[2], k)>> : k \in ToSet(r[2])} : RowToRead(v) = r} :
           r \in InData(data, TableOf(u[1]))}

\* yangListDataFill
ListEntered(x, u) == [x EXCEPT !.todo = <<InstancesShown(x.data, u)>> \o @]

\* yangDataFill of a list: its table is read, if no row of it is there.
ReadList(view, x, u) ==
  LET t == TableOf(u[1])
      R == IF InData(x.data, t) = {} THEN Existing(view, t) ELSE {}
  IN ListEntered([x EXCEPT !.data = WithRead(@, view, R)], u)

ReadInstance(x, u) == IF u \in Invalid THEN x ELSE Entered(x, u)

\* A step of the walk, to child or instance u; nodes without any more are left.
Settled(x) == [x EXCEPT !.todo = SelectSeq(@, LAMBDA s : s # {})]
ReadStep(view, x, u) ==
  LET rest == [x EXCEPT !.todo[1] = @ \ {u}]
  IN Settled(CASE Kind[u[1]] = "container" -> ReadContainer(view, rest, u)
               [] IsWholeList(u) -> ReadList(view, rest, u)
               [] OTHER -> ReadInstance(rest, u))

(***************************************************************************)
(* The target (dbDataToYangJsonCreate).                                    *)
(***************************************************************************)
\* validate-xfmr has no say in the lists asked for.
Refused(u) == Kind[u[1]] # "list" /\ Enclosing(u) \cap Invalid # {}

\* A leaf that has no value does not exist; a leaf-list may be empty.
TargetHasValue(data, u) == FromUri(u) \/ FromField(data, u)
LeafNotFound(data, u) ==
  /\ Kind[u[1]] = "leaf" /\ ~Refused(u) /\ ~IsLeafList(u[1])
  /\ ~TargetHasValue(data, u)

ReadLeaf(x, u) ==
  IF TargetHasValue(x.data, u)
  THEN [x EXCEPT !.shown = u :> LeafValue(x.data, u)] ELSE x

ReadTarget(x, u) ==
  Settled(CASE Refused(u) -> x
            [] ~Refused(u) /\ Kind[u[1]] = "leaf" -> ReadLeaf(x, u)
            [] IsWholeList(u) -> ListEntered(x, u)
            [] OTHER ->
                 IF IsListInstance(u) /\ RowToRead(u) \notin DOMAIN x.data THEN x
                 ELSE Entered(x, u))
=============================================================================
