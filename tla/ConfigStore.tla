---------------------------- MODULE ConfigStore ----------------------------
(***************************************************************************)
(* What a Set request of the transformer's result asks of ConfigDB, said   *)
(* without calls, overlays and validation: the contents d before it and    *)
(* the contents after it.                                                  *)
(***************************************************************************)
EXTENDS CommonApp

\* A row that exists keeps a field, the NULL field if no other.
Kept(e) == IF e = Absent THEN OnlyNull ELSE e

SameRow(e, e2) == IsPopulated(e) = IsPopulated(e2) /\ Config(e) = Config(e2)

\* What a write leaves of row r: a PUT of a row resets it, one of a leaf only
\* that leaf; the other writes add to a row, and leaf-lists are united.
WrittenRow(d, req, r) ==
  LET given == req.data[r]
      fresh == Kept(Config(Merged(DefaultsOf[r[1]], given)))
  IN CASE req.oper = "replace" /\ req.level = "field" -> Merged(d[r], given)
       [] req.oper = "replace" /\ req.level # "field" -> fresh
       [] req.oper # "replace" /\ IsPopulated(d[r]) ->
            Merged(d[r], UnitedLists(d[r], given))
       [] OTHER -> fresh

\* The rows that a delete removes: those named, and in the child tables of
\* the module the rows whose key holds the key of one that is removed.
NamedRows(req) ==
  CASE req.level = "row" -> {req.row}
    [] req.level = "table" -> RowsOf(req.row[1])
    [] req.level = "module" ->
         {r \in Row : ModuleOf[r[1]] = ModuleOf[req.row[1]]}
    [] OTHER -> {}
RemovedRows(d, req) ==
  NamedRows(req) \cup
  {r \in Row : \E n \in NamedRows(req) :
     r[1] \in ChildTables(n[1]) /\ r \in KeyReferrers(d, n)}

\* What a delete leaves of the row that its path goes into.
ShortenedRow(d, req) ==
  LET e == d[req.row]
      f == req.field
      default == DefaultsOf[req.row[1]]
      left == IF req.level = "value" /\ f \in DOMAIN e
              THEN e[f] \ req.data[req.row][f] ELSE {}
      new == IF ~IsPopulated(e) THEN e
             ELSE IF f \in DOMAIN default THEN Merged(e, f :> default[f])
             ELSE IF req.level = "value" /\ f \notin DOMAIN e THEN e
             ELSE IF left # {} THEN Merged(e, f :> left)
             ELSE Without(e, {f})
  IN IF IsPopulated(e) /\ req.keep THEN Kept(new) ELSE new

After(d, req) ==
  [r \in Row |->
     CASE req.oper # "delete" /\ r \in DOMAIN req.data -> WrittenRow(d, req, r)
       [] req.oper = "delete" /\ r \in RemovedRows(d, req) -> Absent
       [] req.oper = "delete" /\ req.level \in {"field", "value"} /\ r = req.row ->
            ShortenedRow(d, req)
       [] OTHER -> d[r]]

\* The requests of a batch, one after the other.
AfterAll(d, requests) == FoldLeft(After, d, requests)

\* References to rows that do not exist.
Dangling(d) ==
  {ref \in Row \X Row :
     /\ IsPopulated(d[ref[1]]) /\ ~IsPopulated(d[ref[2]])
     /\ RefersTo(d, ref[1], ref[2]) # {}}
=============================================================================
