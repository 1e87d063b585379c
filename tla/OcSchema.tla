------------------------------- MODULE OcSchema -------------------------------
(***************************************************************************)
(* The part of an OpenConfig YANG tree and of its annotations that the     *)
(* transformer reads (xspec.go), and what it makes of them: the ConfigDB   *)
(* row that a node of the tree is kept in (xlate_utils.go).                *)
(*                                                                         *)
(* Only configuration nodes, lists with one key, and the annotations       *)
(* table-name, key-name, key-transformer, field-name, table-owner and      *)
(* validate-xfmr are modelled.  An instance of a node is a pair            *)
(* <<node, keys>> where keys are the keys of the lists on its path; the    *)
(* instance of a list that lacks its own key is the whole list.            *)
(***************************************************************************)
EXTENDS CommonApp

CONSTANTS
  Node,
  Root,
  Up,          \* [Node -> Node]: the parent; Root is its own
  Kind,        \* [Node -> {"container", "list", "leaf"}]
  NoTable,
  TableMark,   \* [annotated nodes -> Table \cup {NoTable}]: table-name
  OwnerMark,   \* [annotated nodes -> {"owner", "other"}]: table-owner
  KeyName,     \* [annotated containers -> Atom]: key-name
  ListKey,     \* [lists -> {"path", "own"}]: see KeyOf
  FieldMark,   \* [leafs kept in a field -> Field]
  DefaultMark, \* [leafs with a default -> Atom]
  KeyLeaf,     \* [lists -> leaf]: the key, directly under the list
  RefByKey,    \* leafs: the leafs of config containers that a key refers to
  Invalid      \* the instances whose validate-xfmr returns false

(***************************************************************************)
(* The tree.                                                               *)
(***************************************************************************)
Path ==
  LET path[n \in Node] == IF n = Root THEN <<n>> ELSE Append(path[Up[n]], n)
  IN [n \in Node |-> path[n]]
PathTo(n) == Path[n]
AtOrBelow(n, top) == top \in ToSet(PathTo(n))
Children(n) == {c \in Node \ {Root} : Up[c] = n}
Leafs(N) == {n \in N : Kind[n] = "leaf"}

ASSUME OcAssumption ==
  /\ Root \in Node /\ Up \in [Node -> Node] /\ Up[Root] = Root
  /\ Kind \in [Node -> {"container", "list", "leaf"}]
  /\ NoTable \notin Table
  /\ \A n \in DOMAIN TableMark : /\ Kind[n] # "leaf"
                               /\ TableMark[n] \in Table \cup {NoTable}
  /\ \A n \in DOMAIN KeyName : /\ Kind[n] = "container"
                             /\ \A m \in Node \ {n} : AtOrBelow(n, m) =>
                                  m \notin DOMAIN KeyName /\ Kind[m] # "list"
  /\ DOMAIN KeyLeaf = {n \in Node : Kind[n] = "list"}
  /\ ListKey \in [DOMAIN KeyLeaf -> {"path", "own"}]
  /\ \A l \in DOMAIN KeyLeaf : Up[KeyLeaf[l]] = l
  /\ \A n \in DOMAIN FieldMark : Kind[n] = "leaf"
  /\ DOMAIN DefaultMark \subseteq DOMAIN FieldMark
  /\ DOMAIN FieldMark \cap ({KeyLeaf[l] : l \in DOMAIN KeyLeaf} \cup RefByKey) = {}

\* The number of lists on the path to n.
ListsAbove == [n \in Node |-> Len(SelectSeq(Path[n], LAMBDA m : Kind[m] = "list"))]
Level(n) == ListsAbove[n]

\* hasNonTerminalNode
IsTerminal(n) == \A c \in Children(n) : Kind[c] = "leaf"

IsListInstance(u) == Kind[u[1]] = "list" /\ Len(u[2]) = Level(u[1])
IsWholeList(u) == Kind[u[1]] = "list" /\ Len(u[2]) < Level(u[1])

\* parentUriGet; and the parent in a walk, which meets the whole list first.
ParentUri(u) ==
  IF IsListInstance(u) THEN <<Up[u[1]], Front(u[2])>> ELSE <<Up[u[1]], u[2]>>
WalkParent(u) == IF IsListInstance(u) THEN <<u[1], Front(u[2])>> ELSE ParentUri(u)

\* What a uri is the same as or a part of, the root included.
Enclosing(u) ==
  LET up[i \in 0 .. 2 * Len(PathTo(u[1]))] ==
        IF i = 0 THEN u ELSE WalkParent(up[i - 1])
  IN {up[i] : i \in DOMAIN up}
Within(u, top) == top \in Enclosing(u)

(***************************************************************************)
(* Annotations (yangToDbMapFill): a node without one has that of its       *)
(* parent, and the owner mark only as long as the table is the same.       *)
(***************************************************************************)
Tables ==
  LET table[n \in Node] ==
        CASE n \in DOMAIN TableMark -> TableMark[n]
          [] n \notin DOMAIN TableMark /\ n = Root -> NoTable
          [] OTHER -> table[Up[n]]
  IN [n \in Node |-> table[n]]
TableOf(n) == Tables[n]

Owners ==
  LET owner[n \in Node] ==
        CASE n \in DOMAIN OwnerMark -> OwnerMark[n]
          [] n \notin DOMAIN OwnerMark /\ (n \in DOMAIN TableMark \/ n = Root) ->
               "unmarked"
          [] OTHER -> owner[Up[n]]
  IN [n \in Node |-> owner[n]]
OwnerOf(n) == Owners[n]
Owns(n) == OwnerOf(n) # "other"

\* The field that a leaf is kept in; the leafs that a key refers to are kept
\* in none, but make a row exist.
HasField(n) == n \in DOMAIN FieldMark
TableFields(t, N) == {n \in Leafs(N) : HasField(n) /\ TableOf(n) = t}

(***************************************************************************)
(* Rows.                                                                   *)
(***************************************************************************)
\* xpathKeyExtract, keyCreate: a container with a key-name adds it to the row
\* key so far, and below one nothing else changes the key but a list.  A list
\* whose key has the name of that of its table starts anew
\* (hasSameOcSonicKeys), and a key transformer makes the key of all keys on the
\* path.
KeyOf(u) ==
  LET key[n \in Node] ==
        CASE n \in DOMAIN KeyName -> <<KeyName[n]>>
          [] Kind[n] = "list" /\ Len(u[2]) < Level(n) ->
               IF ListKey[n] = "path" THEN <<>> ELSE key[Up[n]]
          [] Kind[n] = "list" /\ Len(u[2]) >= Level(n) ->
               IF ListKey[n] = "path" THEN SubSeq(u[2], 1, Level(n))
               ELSE <<u[2][Level(n)]>>
          [] OTHER -> IF n = Root THEN <<>> ELSE key[Up[n]]
  IN key[u[1]]

\* xpathKeyExtract
RowOf(u) == <<TableOf(u[1]), KeyOf(u)>>
IsRow(r) == r[1] # NoTable /\ r[2] # <<>>

\* dbKeyToYangDataConvert, checked as yangListDelData does by going back: the
\* instances of a whole list that row r may be.
InstancesOf(u, r) ==
  {v \in {<<u[1], Append(u[2], k)>> : k \in ToSet(r[2])} : RowOf(v) = r}
InstancesIn(view, u) ==
  UNION {InstancesOf(u, r) : r \in Existing(view, TableOf(u[1]))}
=============================================================================
