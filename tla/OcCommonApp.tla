----------------------------- MODULE OcCommonApp -----------------------------
(***************************************************************************)
(* The common app (common_app.go) on OpenConfig paths: from the maps of    *)
(* the transformer to calls of the DB handle.                              *)
(*                                                                         *)
(* The work is a set of items <<stage, row>>.  They are taken in the order *)
(* of the stages' maps, in a map by table and in a table by stage; the     *)
(* rows of a table are keys of a Go map, in any order.                     *)
(***************************************************************************)
EXTENDS OcDelete

MapOf(stage) == IF stage \in {"fields", "dependents", "rows"} THEN "delete" ELSE stage

OnlyMarker(e) == DOMAIN e = {FillFields}

\* processCommon, handleChildDeleteForOcReplaceAndDelete
OcItems(req, ops) ==
  LET gone == ops["delete"]
      whole == {r \in DOMAIN gone : gone[r] = Absent}
      fields == {r \in DOMAIN gone \ whole : ~OnlyMarker(gone[r])}
  IN ({"fields"} \X fields) \cup ({"rows"} \X whole)
     \cup (IF req.oper = "replace" THEN {"dependents"} \X whole ELSE {})
     \cup UNION {{o} \X DOMAIN ops[o] : o \in {"create", "update", "replace"}}

Position(s, e) == CHOOSE i \in DOMAIN s : s[i] = e
Maps == <<"delete", "create", "update", "replace">>
Stages == <<"fields", "dependents", "rows">>

\* SortAsPerTblDeps: child tables first for deletions, and else parents first.
\* Mutant: child tables first, always.
TableBeforeInAnyMap(m, t, u) == t # u /\ RefersToTable(t, u)
TableBefore(m, t, u) ==
  t # u /\ IF m = "delete" THEN RefersToTable(t, u) ELSE RefersToTable(u, t)

Before(req, i, j) ==
  LET m == MapOf(i[1])
      n == MapOf(j[1])
  IN CASE m # n -> Position(Maps, m) < Position(Maps, n)
       [] m = n /\ i[2][1] # j[2][1] -> TableBefore(m, i[2][1], j[2][1])
       [] OTHER -> /\ m = "delete" /\ req.oper = "replace"
                   /\ Position(Stages, i[1]) < Position(Stages, j[1])

\* The items that may be taken next, where `last' is the one before.
SameTable(i, j) == MapOf(i[1]) = MapOf(j[1]) /\ i[2][1] = j[2][1]
NextItems(req, left, last) ==
  LET ready == {i \in left : \A j \in left : ~Before(req, j, i)}
      same == {i \in left : SameTable(i, last)}
  IN IF same = {} THEN ready ELSE ready \cap same

(***************************************************************************)
(* Rows that depend on a row that a REPLACE deletes                        *)
(* (processTableDeleteForReplace).                                         *)
(***************************************************************************)
WrittenMaps(ops) == {o \in DOMAIN ops : o # "delete"}

\* GetDepDataForDelete goes on with the rows to be deleted.
KeyDependents(view, row) ==
  LET below[n \in 0..Cardinality(Table)] ==
        IF n = 0 THEN {row}
        ELSE below[n - 1] \cup UNION {KeyReferrers(view, r) : r \in below[n - 1]}
  IN below[Cardinality(Table)]

\* Those that are written, in tables that depend on the row's.
Dependents(view, ops, row) ==
  {r \in UNION {Referrers(view, q) : q \in KeyDependents(view, row)} :
     /\ r[1] # row[1] /\ row[1] \in DepTables(r[1])
     /\ \E o \in WrittenMaps(ops) : r \in DOMAIN ops[o]}

\* The fields to be cleaned, all of them if the row is to be deleted.
FieldsToClean(view, row, r) ==
  IF r \in KeyDependents(view, row) THEN DOMAIN view[r]
  ELSE {ref.field : ref \in UNION {RefersTo(view, r, q) :
                                     q \in KeyDependents(view, row)}}

\* checkNonTblOwnerDepChildNeedsCleanUp: a row that is not replaced must have
\* its fields written.
Cleanable(view, ops, row, r) ==
  \/ r \in DOMAIN ops["replace"]
  \/ LET o == IF r \in DOMAIN ops["update"] THEN "update" ELSE "create"
     IN FieldsToClean(view, row, r) \subseteq DOMAIN ops[o][r]

CleanUp(view, row, r) ==
  IF r \in KeyDependents(view, row) THEN Call("DeleteEntry", r, Absent, "fail")
  ELSE Call("DeleteEntryFields", r,
            [f \in FieldsToClean(view, row, r) |-> {}], "fail")

\* The clean-ups, those of the rows deepest below first; none if one fails.
CleanUps(view, ops, row) ==
  LET R == Dependents(view, ops, row)
  IN IF \A r \in R : Cleanable(view, ops, row, r)
     THEN {[i \in DOMAIN s |-> CleanUp(view, row, s[i])] : s \in ChildFirst(view, R)}
     ELSE {}

(***************************************************************************)
(* Replacing a row (cmnAppCRUCommonDbOpn).                                 *)
(***************************************************************************)
Get(m, r) == IF r \in DOMAIN m THEN m[r] ELSE Absent

\* isPartialReplace: the row has fields that the request does not know of.
IsPartial(old, new, aux) ==
  ~(DOMAIN Config(old) \subseteq DOMAIN new \cup DOMAIN aux)

OcReplaceRow(view, req, x, row, data) ==
  LET old == view[row]
      given == Normal(data)
      new == WithDefaults(data, Get(x.defaults, row))
      aux == Get(x.aux, row)
      list == IsLeafList(req.uri[1]) /\ \E f \in LeafList : DOMAIN given = {f}
      partial == IsTerminal(req.uri[1]) /\ IsPartial(old, new, aux)
  IN CASE ~IsPopulated(old) -> <<Call("CreateEntry", row, new, "fail")>>
       [] IsPopulated(old) /\ list -> <<Call("ModEntry", row, given, "fail")>>
       [] IsPopulated(old) /\ ~list /\ partial ->
            (IF new = OnlyNull THEN <<>> ELSE <<Call("ModEntry", row, new, "fail")>>)
            \o (IF aux = Absent THEN <<>>
                ELSE <<Call("DeleteEntryFields", row, aux, "fail")>>)
       [] OTHER -> <<Call("SetEntry", row, new, "fail")>>

\* The sequences of calls that an item may come to, none if it fails.
OcCalls(view, req, x, ops, item) ==
  LET stage == item[1]
      row == item[2]
      data == IF stage = "dependents" THEN Absent ELSE ops[MapOf(stage)][row]
      whole == Item(stage, row, data, Get(x.defaults, row), "fail")
  IN CASE stage = "fields" -> {DeleteFields(view, req, whole)}
       [] stage = "dependents" -> CleanUps(view, ops, row)
       [] stage = "rows" -> {<<Call("DeleteEntry", row, Absent, "missing")>>}
       [] stage \in {"create", "update"} -> {CreateOrUpdate(view, req, whole)}
       [] stage = "replace" -> {OcReplaceRow(view, req, x, row, data)}
=============================================================================
