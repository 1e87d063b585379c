----------------------------- MODULE CommonApp -----------------------------
(***************************************************************************)
(* The common app (common_app.go) on sonic paths: from the map of the      *)
(* transformer to calls of the DB handle.                                  *)
(*                                                                         *)
(* The app reads the handle as it goes, so its work is a list of items     *)
(* that are taken one at a time: an item is a call of the handle, or a     *)
(* piece of work that is Expanded, on what the handle shows then, into     *)
(* the items that replace it.                                              *)
(***************************************************************************)
EXTENDS SonicTransformer

\* row: the row, or a table as <<table, <<>>>>, or a key prefix of a table.
\* onErr: "fail" the request, "ignore" every error, or "missing": ignore that
\* the row does not exist.
Item(do, row, data, defaults, onErr) ==
  [do |-> do, row |-> row, data |-> data, defaults |-> defaults,
   onErr |-> onErr]

Calls == {"CreateEntry", "SetEntry", "ModEntry", "DeleteEntry",
          "DeleteEntryFields"}
IsCall(item) == item.do \in Calls
Call(do, row, data, onErr) == Item(do, row, data, Absent, onErr)
TableItem(do, t) == Item(do, <<t, <<>>>>, Absent, Absent, "fail")

\* The edits of a call (setEntry, ModEntry, DeleteEntry, DeleteEntryFields):
\* a SetEntry of an entry with other fields also deletes those.
EditsOf(view, c) ==
  LET complement == [f \in DOMAIN view[c.row] \ DOMAIN c.data |-> {}]
  IN CASE c.do = "CreateEntry" -> <<Edit(c.row, "create", c.data)>>
       [] c.do = "ModEntry" -> <<Edit(c.row, "update", c.data)>>
       [] c.do = "DeleteEntry" -> <<Edit(c.row, "delete", Absent)>>
       [] c.do = "DeleteEntryFields" -> <<Edit(c.row, "delete", c.data)>>
       [] c.do = "SetEntry" ->
            IF ~IsPopulated(view[c.row]) THEN <<Edit(c.row, "create", c.data)>>
            ELSE <<Edit(c.row, "update", c.data)>> \o
                 (IF complement = Absent THEN <<>>
                  ELSE <<Edit(c.row, "delete", complement)>>)

\* doWrite: what the handle then shows of the row.
Written(edits, e) ==
  FoldLeft(LAMBDA v, x : CASE WholeDelete(x) -> Absent
                           [] FieldDelete(x) -> Without(v, DOMAIN x.data)
                           [] OTHER -> Merged(v, x.data),
           e, edits)

(***************************************************************************)
(* Creating, updating and replacing a row (cmnAppCRUCommonDbOpn).          *)
(***************************************************************************)
\* A row without fields has the NULL field, one with others has not.
Normal(e) ==
  CASE e = Absent -> OnlyNull
    [] Cardinality(DOMAIN e) > 1 -> Config(e)
    [] OTHER -> e
WithDefaults(e, defaults) == Normal(Merged(defaults, e))

\* checkAndProcessLeafList for UPDATE: leaf-lists are united.
UnitedLists(old, e) ==
  [f \in DOMAIN e |->
     IF f \in LeafList /\ f \in DOMAIN old THEN old[f] \cup e[f] ELSE e[f]]

CreateOrUpdate(view, req, item) ==
  LET old == view[item.row]
      new == Normal(item.data)
  IN CASE ~IsPopulated(old) ->
            <<Call("CreateEntry", item.row,
                   WithDefaults(item.data, item.defaults), "fail")>>
       [] IsPopulated(old) /\ new = OnlyNull -> <<>>
       [] OTHER ->
            <<Call("ModEntry", item.row,
                   IF req.oper = "replace" THEN new ELSE UnitedLists(old, new),
                   "fail")>>

ReplaceRow(view, req, item) ==
  LET new == WithDefaults(item.data, item.defaults)
  IN CASE ~IsPopulated(view[item.row]) ->
            <<Call("CreateEntry", item.row, new, "fail")>>
       [] /\ IsPopulated(view[item.row])
          /\ req.level = "field" /\ req.field \in LeafList ->
            <<Call("ModEntry", item.row, item.data, "fail")>>
       [] OTHER -> <<Call("SetEntry", item.row, new, "fail")>>

(***************************************************************************)
(* Deleting (cmnAppDelDbOpn).                                              *)
(***************************************************************************)
\* deleteFields, checkAndProcessLeafList for DELETE: the values named are
\* taken from a leaf-list by a ModEntry whose error is not looked at; the
\* other fields, and the leaf-lists that are left empty, are deleted.
DeleteFields(view, req, item) ==
  LET old == view[item.row]
      values == {f \in DOMAIN item.data \cap LeafList :
                   f \in DOMAIN old /\ old[f] # {} /\ item.data[f] # {}}
      rest == [f \in values |-> old[f] \ item.data[f]]
      gone == {f \in DOMAIN item.data :
                 CASE f \notin LeafList -> TRUE
                   [] f \in values -> rest[f] = {}
                   [] OTHER -> f \in DOMAIN old /\ item.data[f] = {}}
  IN IF ~IsPopulated(old) THEN <<>>
     ELSE (IF values = {} THEN <<>>
           ELSE <<Call("ModEntry", item.row, rest, "ignore")>>) \o
          (IF gone # {} /\ req.keep /\ DOMAIN old \subseteq gone
           THEN <<Call("ModEntry", item.row, OnlyNull, "fail")>> ELSE <<>>) \o
          (IF gone = {} THEN <<>>
           ELSE <<Call("DeleteEntryFields", item.row,
                       [f \in gone |-> {}], "fail")>>)

Deletions(s, onErr) ==
  [i \in DOMAIN s |-> Call("DeleteEntry", s[i], Absent, onErr)]

\* Sequences of the rows of R in which a row comes before those it refers to
\* by its key.
ChildFirst(view, R) ==
  {s \in SetToSeqs(R) :
     \A i, j \in DOMAIN s : s[i] \in KeyReferrers(view, s[j]) => i < j}

\* processChildTablesforDelete: the rows that depend by their key on a row
\* of t, in the tables of its module that refer to t and have rows.
ChildRows(view, t) ==
  LET below[n \in 0..Cardinality(Table)] ==
        IF n = 0 THEN Existing(view, t)
        ELSE below[n - 1] \cup
             UNION {KeyReferrers(view, r) : r \in below[n - 1]}
  IN {r \in UNION {Existing(view, c) : c \in ChildTables(t)} :
        r \in below[Cardinality(Table)]}

DeleteWholeTable(view, t) ==
  {Deletions(s, "fail") \o <<TableItem("rows", t)>> :
     s \in ChildFirst(view, ChildRows(view, t))}

\* DeleteTable
DeleteRows(view, t) ==
  {Deletions(s, "fail") : s \in SetToSeqs(Existing(view, t))}

\* The child tables, each by the prefix that the key of the row is of theirs.
DeleteRow(row) ==
  {[i \in DOMAIN s |-> Item("prefix", <<s[i], row[2]>>, Absent, Absent, "fail")]
   \o <<Call("DeleteEntry", row, Absent, "missing")>> :
     s \in SortDepTables(ChildTables(row[1]))}

\* DeleteKeys goes on after an error and returns that of the last key.
WithPrefix(view, prefix) ==
  {r \in Existing(view, prefix[1]) :
     /\ Len(r[2]) > Len(prefix[2])
     /\ SubSeq(r[2], 1, Len(prefix[2])) = prefix[2]}
DeletePrefix(view, prefix) ==
  {[i \in DOMAIN s |-> Call("DeleteEntry", s[i], Absent,
                            IF i = Len(s) THEN "fail" ELSE "ignore")] :
     s \in SetToSeqs(WithPrefix(view, prefix))}

(***************************************************************************)
(* The work of a request and its pieces.                                   *)
(***************************************************************************)
\* The sequences that an item may be replaced by.
Expand(view, req, item) ==
  CASE item.do \in {"create", "update"} -> {CreateOrUpdate(view, req, item)}
    [] item.do = "replace" -> {ReplaceRow(view, req, item)}
    [] item.do = "table" -> DeleteWholeTable(view, item.row[1])
    [] item.do = "rows" -> DeleteRows(view, item.row[1])
    [] item.do = "delete" /\ item.data = Absent -> DeleteRow(item.row)
    [] item.do = "delete" /\ item.data # Absent ->
         {DeleteFields(view, req, item)}
    [] item.do = "prefix" -> DeletePrefix(view, item.row)

RowItem(result, r) ==
  Item(result.op, r, result.rows[r],
       IF r \in DOMAIN result.defaults THEN result.defaults[r] ELSE Absent,
       "fail")

\* processCommon: whole tables are deleted child first; rows are written
\* parent table first.
Work(result) ==
  IF result.tables # {}
  THEN {[i \in DOMAIN s |-> TableItem("table", s[i])] :
          s \in SortDepTables(result.tables)}
  ELSE {[i \in DOMAIN s |-> RowItem(result, s[i])] :
          s \in {q \in SetToSeqs(DOMAIN result.rows) :
                   \E o \in SortDepTables({r[1] : r \in DOMAIN result.rows}) :
                     \A i, j \in DOMAIN q : \A a, b \in DOMAIN o :
                       (q[i][1] = o[a] /\ q[j][1] = o[b] /\ a > b) => i < j}}
=============================================================================
