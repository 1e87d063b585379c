------------------------------ MODULE OcSubscribe ------------------------------
(***************************************************************************)
(* The transformer on subscriptions to OpenConfig paths: the infos that a  *)
(* path is translated to, each one a table with a pattern of keys to be    *)
(* watched and the fields of its leafs (subscribe_req_xlate.go), and the   *)
(* path that a changed row is told of at (subscribe_resp_xlate.go).        *)
(*                                                                         *)
(* Lists with a key transformer have a table transformer as well, and      *)
(* lists below lists have one. Subtree transformers, virtual tables, leafs *)
(* with a table of their own, fields made of several, and the preferences  *)
(* of on-change or sample are not modelled; the rows are of one database.  *)
(***************************************************************************)
EXTENDS OcRead

CONSTANT Subscribed  \* the paths subscribed to: instances, a key may be "*"

Wildcard == "*"

(***************************************************************************)
(* The target.                                                             *)
(***************************************************************************)
\* processSubscribePath: the keys that are not given are wildcards.
WithWildcards(n, keys) ==
  <<n, [i \in 1..Level(n) |-> IF i <= Len(keys) THEN keys[i] ELSE Wildcard]>>
FullPath(s) == WithWildcards(s[1], s[2])

\* path.Matches
PathMatches(u, template) ==
  /\ AtOrBelow(u[1], template[1])
  /\ \A i \in DOMAIN template[2] : template[2][i] \in {Wildcard, u[2][i]}

ASSUME OcSubscribeAssumption ==
  /\ \A s \in Subscribed : s[1] \in Node /\ Len(s[2]) <= Level(s[1])
  /\ Wildcard \notin Atom
  /\ \A n \in Leafs(Node) : TableOf(n) # NoTable
  /\ \A l \in DOMAIN KeyLeaf : /\ TableOf(l) # TableOf(Up[l])
                              /\ ListKey[l] = "own" => Level(l) = 1
  /\ \A n, m \in DOMAIN FieldMark :
       Up[n] = Up[m] /\ FieldMark[n] = FieldMark[m] => n = m

(***************************************************************************)
(* The nodes below the target.                                             *)
(***************************************************************************)
\* validateYangPath: of the nodes below, only lists are asked, with wildcards
\* for the keys; what is below one that is not valid is left out.
IsLeftOut(top, l) == Kind[l] = "list" /\ WithWildcards(l, top[2]) \in Invalid
NodesOf(top) ==
  {n \in Node : /\ AtOrBelow(n, top[1])
                /\ \A l \in ToSet(PathTo(n)) :
                     AtOrBelow(l, top[1]) /\ l # top[1] => ~IsLeftOut(top, l)}

\* collectChldYgXPathInfo: a container whose table is none or that of its parent.
\* Mutant: any container.
AnyContainer(n) == Kind[n] # "list"
IsParentTbl(n) == TableOf(n) \in {NoTable, TableOf(Up[n])}

\* isSamePathXlateInfo, isDbTablePresentInParent
IsDbTablePresentInParent(n, parent) == TableOf(n) = TableOf(parent)

\* traverseYgXpathAndTranslate: the node whose info tells of n.
InfoNodes(top) ==
  LET node[n \in NodesOf(top)] ==
        IF n = top[1] THEN n
        ELSE LET parent == node[Up[n]]
             IN IF IsParentTbl(n) \/ IsDbTablePresentInParent(n, parent)
                THEN parent ELSE n
  IN [n \in NodesOf(top) \ Leafs(Node) |-> node[n]]

(***************************************************************************)
(* Infos.                                                                  *)
(***************************************************************************)
\* setTrgtYgXpathInfo: the key transformer of the target is that of the nearest
\* list above that has one; a node below has none but its own.
KeyLists(top, n) ==
  {l \in DOMAIN KeyLeaf :
     ListKey[l] = "path" /\ (IF n = top[1] THEN AtOrBelow(n, l) ELSE n = l)}

\* handleYangToDbKeyXfmr: without one, all keys on the path; without any, every
\* row of the table.  A key-name plays no part.
KeyPattern(top, u) ==
  LET L == KeyLists(top, u[1])
      nearest == CHOOSE l \in L : \A m \in L : AtOrBelow(l, m)
  IN CASE L # {} -> SubSeq(u[2], 1, Level(nearest))
       [] L = {} /\ u[2] # <<>> -> u[2]
       [] OTHER -> <<Wildcard>>

\* addDbFldYangMapInfo
FieldOfTarget(n) == IF HasField(n) THEN {<<FieldMark[n], n>>} ELSE {}

\* addDbFldYgPathMap, copyDbFldYgPathMap: the fields of the leafs of the nodes that
\* node n tells of.
FieldsToldOf(top, n) ==
  LET nodes == InfoNodes(top)
  IN IF Kind[n] = "leaf" THEN FieldOfTarget(n)
     ELSE UNION {FieldOfTarget(c) : c \in {m \in Leafs(NodesOf(top)) : nodes[Up[m]] = n}}

\* getXpathInfoTableName
HasTable(n) == TableOf(n) # NoTable

\* translatePath, handleNonSubtreeNodeXlate
Info(top, n) ==
  LET u == WithWildcards(n, top[2])
  IN [path |-> u, table |-> TableOf(n), key |-> KeyPattern(top, u),
      fields |-> FieldsToldOf(top, n)]

\* translateChildNodePaths: the target, and the nodes below that have an info of
\* their own.
Told(top) == {top[1]} \cup {InfoNodes(top)[n] : n \in DOMAIN InfoNodes(top)}

\* Translate of a request: no infos for a target that is not valid.
Translated(top) ==
  IF top \in Invalid THEN {} ELSE {Info(top, n) : n \in {m \in Told(top) : HasTable(m)}}

\* translateSubscribe: the infos of the target and of its children, with the path
\* that they were asked for.
Watches == {<<FullPath(s), Translated(FullPath(s))>> : s \in Subscribed}

(***************************************************************************)
(* Notifications.                                                          *)
(***************************************************************************)
\* The pattern of a subscription to keys of redis: a wildcard at the end stands
\* for any number of components.
KeyMatches(key, pattern) ==
  /\ Len(pattern) <= Len(key)
  /\ Len(pattern) = Len(key) \/ Last(pattern) = Wildcard
  /\ \A i \in DOMAIN pattern : pattern[i] \in {Wildcard, key[i]}

\* Translate of a response: the wildcards of the path, from the key of the row;
\* handleDbToYangKeyXlate and handleDbToYangKeyXfmr where the list has a key
\* transformer, and else the key itself, of which a list with one key takes the
\* first component.
ListsTo(n) == SelectSeq(PathTo(n), LAMBDA m : Kind[m] = "list")
KeyFromRow(l, row) == IF ListKey[l] = "path" THEN row[2][Level(l)] ELSE row[2][1]
ResolvedPath(info, row) ==
  LET n == info.path[1]
      keys == info.path[2]
  IN <<n, [i \in DOMAIN keys |->
             IF keys[i] # Wildcard THEN keys[i] ELSE KeyFromRow(ListsTo(n)[i], row)]>>

\* What a change of a row from one entry to another is told of: all that is below
\* the path when the row comes or goes, and else the leafs whose field differs.
Notices(info, row) == row[1] = info.table /\ KeyMatches(row[2], info.key)
OnlyField(e, f) == RestrictDomain(e, LAMBDA g : g = f)
IsToldOf(info, row, old, new, u) ==
  LET p == ResolvedPath(info, row)
  IN IF IsPopulated(old) /\ IsPopulated(new)
     THEN /\ u[2] = p[2]
          /\ \E f \in info.fields :
               f[2] = u[1] /\ OnlyField(old, f[1]) # OnlyField(new, f[1])
     ELSE PathMatches(u, p)
=============================================================================
