------------------------------- MODULE OcStore -------------------------------
(***************************************************************************)
(* What a request on an OpenConfig path asks of ConfigDB, said without     *)
(* walks, maps, calls and validation: of a Set request the contents d      *)
(* before it and those after it, of a GET what it shows of them.           *)
(***************************************************************************)
EXTENDS OcCommonApp, ConfigStore

\* The instances of the nodes that may have a row.
RowKeys == UNION {ToSet(r[2]) : r \in Row}
Uri ==
  UNION {{u \in {n} \X [1..Level(n) -> RowKeys] : IsRow(RowOf(u)) => RowOf(u) \in Row} :
           n \in Node}

\* What a request on top is about: what is part of it, but for invalid nodes.
\* What encloses a list that is asked for is not looked at.
Reaches(top, v) ==
  /\ Within(v, top)
  /\ Enclosing(v) \cap (IF Kind[top[1]] = "list" THEN Invalid \ Enclosing(top)
                        ELSE Invalid) = {}

\* A node stands for a row, and not only for fields of it, when it owns the row
\* and its parent does not share it.
Homes(r) ==
  {v \in Uri : /\ Kind[v[1]] # "leaf" /\ RowOf(v) = r
               /\ Owns(v[1]) /\ RowOf(ParentUri(v)) # r}
IsHomeRow(r, top) == \E v \in Homes(r) : Reaches(top, v)

\* The leafs with a field in row r that are part of the target.
LeafsIn(r, top) ==
  {u[1] : u \in {v \in Uri : /\ Kind[v[1]] = "leaf" /\ HasField(v[1])
                             /\ RowOf(v) = r /\ Reaches(top, v)}}
FieldsIn(r, top) == {FieldMark[n] : n \in LeafsIn(r, top)}
HasKeyRef(r, top) ==
  \E u \in Uri : u[1] \in RefByKey /\ RowOf(u) = r /\ Reaches(top, u)
DefaultsIn(r, top) ==
  LET L == LeafsIn(r, top) \cap DOMAIN DefaultMark
  IN [f \in {FieldMark[n] : n \in L} |-> {DefaultMark[n] : n \in {m \in L : FieldMark[m] = f}}]

\* What the payload says of row r.
GivenLeafs(req, r) ==
  {u \in DOMAIN req.data : RowOf(u) = r /\ Within(u, req.uri)}
Touched(req, r) ==
  \E u \in GivenLeafs(req, r) : HasField(u[1]) \/ MakesRow(req, u[1])
Given(req, r) ==
  LET L == {u \in GivenLeafs(req, r) : HasField(u[1])}
  IN [f \in {FieldMark[u[1]] : u \in L} |->
        UNION {req.data[u] : u \in {v \in L : FieldMark[v[1]] = f}}]
Fresh(req, r, top) == Kept(Merged(DefaultsIn(r, top), Given(req, r)))

AfterAdding(d, req, r) ==
  CASE ~Touched(req, r) -> d[r]
    [] Touched(req, r) /\ IsPopulated(d[r]) -> Merged(d[r], UnitedLists(d[r], Given(req, r)))
    [] OTHER -> Fresh(req, r, <<Root, <<>>>>)

AfterReplacing(d, req, r) ==
  LET rest == Without(d[r], FieldsIn(r, req.uri))
      new == Merged(rest, Merged(DefaultsIn(r, req.uri), Given(req, r)))
  IN CASE TargetKind(req) = "leaf" ->
            IF Touched(req, r) THEN Merged(d[r], Given(req, r)) ELSE d[r]
       [] TargetKind(req) # "leaf" /\ IsHomeRow(r, req.uri) ->
            IF Touched(req, r) THEN Fresh(req, r, req.uri) ELSE Absent
       [] OTHER ->
            IF Touched(req, r) \/ (IsPopulated(d[r]) /\ LeafsIn(r, req.uri) # {})
            THEN Kept(new) ELSE d[r]

AfterDeleting(d, req, r) ==
  LET n == req.uri[1]
      f == FieldMark[n]
      e == d[r]
      own == r = RowOf(req.uri)
      left == e[f] \ req.values
      KeptIf(e2) == IF req.keep /\ ~HasKeyRef(r, req.uri) THEN Kept(e2) ELSE e2
  IN CASE ~IsPopulated(e) -> e
       [] IsPopulated(e) /\ TargetKind(req) # "leaf" ->
            IF IsHomeRow(r, req.uri) THEN Absent
            ELSE IF FieldsIn(r, req.uri) = {} THEN e
            ELSE KeptIf(Without(e, FieldsIn(r, req.uri)))
       [] IsPopulated(e) /\ TargetKind(req) = "leaf" /\ ~(own /\ HasField(n)) -> e
       [] OTHER ->
            CASE n \in DOMAIN DefaultMark -> Merged(e, f :> {DefaultMark[n]})
              [] f \notin DOMAIN e -> e
              [] f \in DOMAIN e /\ req.values # {} /\ left # {} -> Merged(e, f :> left)
              [] OTHER -> KeptIf(Without(e, {f}))

AfterOc(d, req) ==
  [r \in Row |->
     CASE req.oper \in {"create", "update"} -> AfterAdding(d, req, r)
       [] req.oper = "replace" -> AfterReplacing(d, req, r)
       [] req.oper = "delete" -> AfterDeleting(d, req, r)]

(***************************************************************************)
(* What a GET shows.                                                       *)
(***************************************************************************)
\* The instances of a list that is below a node with a row.  Where such a list is
\* asked for as a whole, only an instance with the same key is shown; and where
\* the node is, if there is such an instance (traverseDbHelper).
Narrowed(d, top, v) ==
  LET same == <<TableOf(v[1]), KeyOf(top)>>
  IN /\ IsListInstance(v) /\ ListKey[v[1]] = "own" /\ v # top /\ Within(v, top)
     /\ IsRow(RowOf(top)) /\ RowOf(v) # same
     /\ \/ top = WalkParent(v)
        \/ \A r \in {same, RowOf(top)} : r \in Row /\ IsPopulated(d[r])

LeafExists(d, u) ==
  IF HasField(u[1]) THEN IsRow(RowOf(u)) /\ FieldMark[u[1]] \in DOMAIN d[RowOf(u)]
  ELSE IsKey(u[1]) \/ u[1] \in RefByKey
Answer(d, top) ==
  [u \in {v \in Uri :
            /\ Kind[v[1]] = "leaf" /\ Reaches(top, v) /\ LeafExists(d, v)
            /\ \A w \in Enclosing(v) :
                 IsListInstance(w) => InstanceExists(d, w) /\ ~Narrowed(d, top, w)} |->
     IF HasField(u[1]) THEN d[RowOf(u)][FieldMark[u[1]]] ELSE {Last(u[2])}]
=============================================================================
