------------------------ MODULE MCSubscribeSupport ------------------------
\* A path /a[*] with the children b, b/c and d: tables with and without
\* on-change support, values that come from no database, and intervals.
EXTENDS SubscribeSupport

Top == <<"a", Wildcard>>
MCRequestPath == <<Top>>
Paths == {<<Top>>, <<Top, <<"b", NoKey>>>>, <<Top, <<"b", NoKey>>, <<"c", NoKey>>>>,
          <<Top, <<"d", NoKey>>>>}
AppInfo(id, path, onChange, pType, nonDB) ==
  [id |-> id, path |-> path, onChange |-> onChange, pType |-> pType,
   nonDB |-> nonDB, interval |-> IF id = 2 THEN 40 ELSE 0]
Below == Paths \ {<<Top>>}
Kinds == {<<TRUE, "OnChange">>, <<TRUE, "Sample">>, <<FALSE, "OnChange">>}
AppInfos(id, paths) ==
  {AppInfo(id, p, k[1], k[2], FALSE) : p \in paths, k \in Kinds}
NonDB(id) == {AppInfo(id, <<<<"a", "x">>, <<"e", NoKey>>>>, TRUE, "OnChange", TRUE)}
MCTargetInfos ==
  {<<>>} \cup {<<i>> : i \in AppInfos(1, Paths) \cup NonDB(1)}
  \cup {<<i, j>> : i \in AppInfos(1, Paths), j \in AppInfos(2, Paths)}
MCChildInfos ==
  {<<>>} \cup {<<i>> : i \in AppInfos(3, Below)}
  \cup {<<i, j>> : i \in AppInfos(3, Below), j \in AppInfos(4, Below) \cup NonDB(4)}
=============================================================================
