----------------------------- MODULE MCOnChange -----------------------------
\* One entry of configDB with three paths: a container whose field g shows as
\* two leaves, a list instance keyed by field f, and a path that is only a
\* part of the entry and is inspected when the entry is deleted.  applDB is a
\* second database of the request, which only fails.
EXTENDS OnChange

MCDbOf == [k \in Key |-> "configDB"]
MCMatching == [i \in Info |-> Key]
MCLeavesOf ==
  [i \in Info |-> [f \in Field |->
    CASE i = "byField" -> IF f = "f" THEN {} ELSE {"b"}
      [] i = "state" -> IF f = "f" THEN {"a"} ELSE {"b"}
      [] OTHER -> IF f = "f" THEN {"a"} ELSE {"b", "c"}]]
MCKeyFieldOf == [i \in Info |-> IF i = "byField" THEN "f" ELSE None]
MCWritten == {[f |-> 1, g |-> None], [f |-> None, g |-> 1], [f |-> 2, g |-> 1]}
MCFlagsOf ==
  [i \in Info |-> IF i = "state" THEN {"inspect", "partial"} ELSE {}]
=============================================================================
