-------------------------- MODULE SonicTransformer --------------------------
(***************************************************************************)
(* The transformer on paths of SONiC YANG modules (/sonic-...): from a     *)
(* request to the map of rows that the common app has to create, update,   *)
(* replace or delete (xlate.go, xlate_to_db.go, xlate_del_to_db.go).       *)
(*                                                                         *)
(* A payload maps the rows it names to their entries.  Only ConfigDB       *)
(* tables that are lists are modelled: no singleton containers and no      *)
(* nested lists.                                                           *)
(***************************************************************************)
EXTENDS CVL

\* level: what the path ends at.  A path to a module or a table carries any
\* row of the table in `row'; only its table counts.
\* data: the payload; of a "value" delete, the value to delete.
\* check: ResourceCheckOnDelete.  keep: not DeleteEmptyEntry.
Request(oper, level, row, field, data, check, keep) ==
  [oper |-> oper, level |-> level, row |-> row, field |-> field,
   data |-> data, check |-> check, keep |-> keep]

Levels == {"module", "table", "row", "field", "value"}

\* What translateCRUDCommon keeps: the operation on rows, the tables to be
\* deleted whole, and the defaults of the rows (cmnAppYangDefValMap).
ResultMap(op, tables, rows, defaults) ==
  [op |-> op, tables |-> tables, rows |-> rows, defaults |-> defaults]
NoRows == [r \in {} |-> Absent]

\* verifyParentTableSonic
ParentExists(view, req) ==
  CASE req.level = "row" -> req.oper = "replace" \/ IsPopulated(view[req.row])
    [] req.level \in {"field", "value"} -> IsPopulated(view[req.row])
    [] OTHER -> TRUE

\* dbMapTableChildListDataFill, dbMapDataFill
Filled(data) ==
  [r \in DOMAIN data |-> IF data[r] = Absent THEN OnlyNull ELSE data[r]]

\* sonicDefaultFieldValFill
DefaultValues(data) ==
  [r \in DOMAIN data |-> Without(DefaultsOf[r[1]], DOMAIN data[r])]

\* dbMapCreate: a PUT of a leaf is an update of its row.
OperationOf(req) ==
  IF req.oper = "replace" /\ req.level = "field" /\ req.field \notin LeafList
  THEN "update" ELSE req.oper

MapCreate(req) ==
  ResultMap(OperationOf(req), {}, Filled(req.data), DefaultValues(req.data))

\* sonicYangReqToDbMapDelete: deleting a leaf with a default updates it.
DeletedLeaf(req) ==
  LET default == DefaultsOf[req.row[1]]
  IN IF req.field \in DOMAIN default
     THEN ResultMap("update", {},
                    With(NoRows, req.row, With(Absent, req.field, default[req.field])),
                    NoRows)
     ELSE ResultMap("delete", {}, With(NoRows, req.row, With(Absent, req.field, {})),
                    NoRows)

MapDelete(req) ==
  CASE req.level = "module" ->
         ResultMap("delete",
                   {t \in Table : ModuleOf[t] = ModuleOf[req.row[1]]},
                   NoRows, NoRows)
    [] req.level = "table" ->
         ResultMap("delete", {req.row[1]}, NoRows, NoRows)
    [] req.level = "row" ->
         ResultMap("delete", {}, With(NoRows, req.row, Absent), NoRows)
    [] req.level = "field" -> DeletedLeaf(req)
    [] req.level = "value" ->
         ResultMap("delete", {}, req.data, NoRows)

\* XlateToDb, when the parent exists.
XlateToDb(req) == IF req.oper = "delete" THEN MapDelete(req) ELSE MapCreate(req)

\* GetTablesToWatch
\* Mutant: only the tables of the request.
WatchOwn(tables) == tables
TablesToWatch(tables) == UNION {DepTables(t) : t \in tables}
=============================================================================
