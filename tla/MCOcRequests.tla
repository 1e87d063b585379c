---------------------------- MODULE MCOcRequests ----------------------------
\* A part of openconfig-test-xfmr.yang and of its annotations: sensor groups
\* with a list below a list, a container in a row of which it owns a part and
\* one that has its own, and NTP, where a server and the global row refer to
\* the keys.
EXTENDS OcRequests

Under(n, C) == [c \in C |-> n]
MCUp ==
  Under("test-xfmr", {"test-xfmr", "groups", "sets", "ntp"}) @@
  Under("groups", {"group"}) @@
  Under("group", {"id", "group-config", "types"}) @@
  Under("group-config", {"group-id", "colors", "hold-time"}) @@
  Under("types", {"type"}) @@
  Under("type", {"type-type", "type-config"}) @@
  Under("type-config", {"config-type", "filter"}) @@
  Under("sets", {"zone-device", "transport"}) @@
  Under("zone-device", {"device-config"}) @@
  Under("device-config", {"metric", "hold-interval"}) @@
  Under("transport", {"transport-config"}) @@
  Under("transport-config", {"keepalive", "delay"}) @@
  Under("ntp", {"ntp-global", "trusted", "keys", "servers"}) @@
  Under("ntp-global", {"ntp-config"}) @@
  Under("ntp-config", {"auth"}) @@
  Under("keys", {"key"}) @@
  Under("key", {"key-id", "key-config"}) @@
  Under("key-config", {"config-key-id", "key-value"}) @@
  Under("servers", {"server"}) @@
  Under("server", {"address", "server-config"}) @@
  Under("server-config", {"config-address", "server-key", "poll"})
MCNode == DOMAIN MCUp
MCKeyLeaf ==
  ("group" :> "id") @@ ("type" :> "type-type") @@ ("key" :> "key-id") @@
  ("server" :> "address")
MCKind ==
  [n \in MCNode |-> CASE n \in DOMAIN MCKeyLeaf -> "list"
                      [] \E m \in MCNode : MCUp[m] = n -> "container"
                      [] OTHER -> "leaf"]

MCTableMark ==
  ("group" :> "GROUP") @@ ("types" :> "NONE") @@ ("type" :> "TYPE") @@
  ("zone-device" :> "DEVICE") @@ ("transport" :> "TRANSPORT") @@
  ("ntp" :> "NTP") @@ ("keys" :> "NONE") @@ ("key" :> "KEY") @@
  ("server" :> "SERVER")
MCOwnerMark == [n \in {"zone-device", "transport-config"} |-> "other"]
MCKeyName ==
  ("zone-device" :> "local-zonehost") @@ ("transport" :> "transport-host") @@
  ("ntp" :> "global")
MCListKey == [l \in DOMAIN MCKeyLeaf |-> IF l = "type" THEN "path" ELSE "own"]
MCFieldMark ==
  [n \in {"colors", "hold-time", "filter", "metric", "hold-interval", "keepalive",
          "delay", "auth", "trusted", "key-value", "poll", "server-key"} |->
     IF n = "server-key" THEN "key-ref" ELSE n]
MCDefaultMark == ("hold-time" :> "10") @@ ("delay" :> "5")
MCRefByKey == {"group-id", "config-type", "config-key-id", "config-address"}
MCInvalid == {<<"types", <<"g2">>>>}

MCTable == {"GROUP", "TYPE", "DEVICE", "TRANSPORT", "NTP", "KEY", "SERVER"}
MCModuleOf == [t \in MCTable |-> "sonic-test-xfmr"]
Group(g) == <<"GROUP", <<g>>>>
Type(g, a) == <<"TYPE", <<g, a>>>>
Device == <<"DEVICE", <<"local-zonehost">>>>
Transport == <<"TRANSPORT", <<"transport-host">>>>
Ntp == <<"NTP", <<"global">>>>
NtpKey(k) == <<"KEY", <<k>>>>
Server(s) == <<"SERVER", <<s>>>>
MCRow == {Group("g1"), Group("g2"), Type("g1", "a"), Type("g1", "b"),
          Type("g2", "c"), Device, Transport, Ntp, NtpKey("k1"), NtpKey("k2"),
          Server("s1"), Server("s2"), Server("global")}
MCDefaultsOf ==
  [t \in MCTable |-> CASE t = "GROUP" -> "hold-time" :> {"10"}
                       [] t = "TRANSPORT" -> "delay" :> {"5"}
                       [] OTHER -> [f \in {} |-> {}]]
NoMandatory == [t \in MCTable |-> {}]
NoLimits == [t \in {} |-> 0]
Leafref(from, key, field, to) ==
  [from |-> from, key |-> key, field |-> field, to |-> to]
MCLeafRef == {Leafref("TYPE", 1, "NULL", "GROUP"),
              Leafref("SERVER", 0, "key-ref", "KEY"),
              Leafref("NTP", 0, "trusted", "KEY"),
              \* A field that the tree does not have.
              Leafref("DEVICE", 0, "via", "TRANSPORT")}

(***************************************************************************)
(* Payloads.                                                               *)
(***************************************************************************)
Leaf(n, ks, v) == <<n, ks>> :> {v}
GroupData(g) == Leaf("id", <<g>>, g) @@ Leaf("group-id", <<g>>, g)
TypeData(g, a) == Leaf("type-type", <<g, a>>, a) @@ Leaf("config-type", <<g, a>>, a)
KeyData(k) == Leaf("key-id", <<k>>, k) @@ Leaf("config-key-id", <<k>>, k)
ServerData(s) == Leaf("address", <<s>>, s) @@ Leaf("config-address", <<s>>, s)
Colors(g, C) == <<"colors", <<g>>>> :> C
Trusted(K) == <<"trusted", <<>>>> :> K
Filter(g, a) == Leaf("filter", <<g, a>>, "f")
ServerKey(s, k) == Leaf("server-key", <<s>>, k)
Value(k) == Leaf("key-value", <<k>>, "v")

Set(oper, n, ks, data) == OcRequest(oper, <<n, ks>>, data, {}, FALSE)
Delete(n, ks, keep) == OcRequest("delete", <<n, ks>>, NoData, {}, keep)

Writes(oper) == {
  Set(oper, "groups", <<>>, GroupData("g1") @@ Colors("g1", {"red"}) @@
        GroupData("g2") @@ Leaf("hold-time", <<"g2">>, "20")),
  Set(oper, "group", <<"g1">>, GroupData("g1") @@ Colors("g1", {"blue"}) @@
        TypeData("g1", "a") @@ Filter("g1", "a")),
  Set(oper, "group", <<>>, GroupData("g1") @@ TypeData("g1", "b")),
  Set(oper, "group", <<"g2">>, GroupData("g2") @@ TypeData("g2", "c")),
  Set(oper, "group-config", <<"g1">>, Colors("g1", {"blue"})),
  Set(oper, "types", <<"g1">>, TypeData("g1", "a")),
  Set(oper, "type", <<"g1", "b">>, TypeData("g1", "b") @@ Filter("g1", "b")),
  Set(oper, "type-config", <<"g1", "a">>, Filter("g1", "a")),
  Set(oper, "colors", <<"g1">>, Colors("g1", {"blue"})),
  Set(oper, "hold-time", <<"g1">>, Leaf("hold-time", <<"g1">>, "30")),
  Set(oper, "sets", <<>>, Leaf("metric", <<>>, "1") @@ Leaf("keepalive", <<>>, "1")),
  Set(oper, "sets", <<>>, Leaf("hold-interval", <<>>, "1")),
  Set(oper, "zone-device", <<>>, Leaf("metric", <<>>, "2")),
  Set(oper, "device-config", <<>>, Leaf("metric", <<>>, "2")),
  Set(oper, "transport", <<>>, Leaf("keepalive", <<>>, "2")),
  Set(oper, "transport-config", <<>>, Leaf("keepalive", <<>>, "2")),
  Set(oper, "ntp", <<>>, Leaf("auth", <<>>, "on") @@ Trusted({"k2"}) @@
        KeyData("k2") @@ Value("k2")),
  Set(oper, "ntp", <<>>, ServerData("s1") @@ ServerKey("s1", "k2") @@ KeyData("k2")),
  Set(oper, "ntp", <<>>, ServerData("s1") @@ KeyData("k2")),
  Set(oper, "ntp-global", <<>>, Leaf("auth", <<>>, "on")),
  Set(oper, "ntp-config", <<>>, Leaf("auth", <<>>, "on")),
  Set(oper, "keys", <<>>, KeyData("k2") @@ Value("k2")),
  Set(oper, "key", <<"k1">>, KeyData("k1") @@ Value("k1")),
  Set(oper, "servers", <<>>, ServerData("s2") @@ ServerKey("s2", "k1")),
  Set(oper, "server", <<"s1">>, ServerData("s1") @@ Leaf("poll", <<"s1">>, "6")),
  Set(oper, "server-config", <<"s1">>, Leaf("poll", <<"s1">>, "6"))}

Deletes ==
  UNION {{Delete("groups", <<>>, keep), Delete("group", <<>>, keep),
          Delete("group", <<"g1">>, keep), Delete("group-config", <<"g1">>, keep),
          Delete("types", <<"g1">>, keep), Delete("types", <<"g2">>, keep), Delete("type", <<"g1">>, keep),
          Delete("type", <<"g1", "a">>, keep), Delete("type-config", <<"g1", "a">>, keep),
          Delete("colors", <<"g1">>, keep), Delete("hold-time", <<"g1">>, keep),
          Delete("sets", <<>>, keep), Delete("zone-device", <<>>, keep),
          Delete("metric", <<>>, keep), Delete("transport", <<>>, keep),
          Delete("transport-config", <<>>, keep),
          Delete("delay", <<>>, keep), Delete("keepalive", <<>>, keep),
          Delete("ntp", <<>>, keep), Delete("ntp-global", <<>>, keep),
          Delete("keys", <<>>, keep), Delete("key", <<"k1">>, keep),
          Delete("servers", <<>>, keep), Delete("server", <<"s1">>, keep),
          Delete("server-key", <<"s1">>, keep),
          OcRequest("delete", <<"colors", <<"g1">>>>, NoData, {"red"}, keep)} :
           keep \in BOOLEAN}
Read(n, ks) == OcRequest("get", <<n, ks>>, NoData, {}, FALSE)
Reads == {
  Read("test-xfmr", <<>>), Read("groups", <<>>), Read("group", <<>>), Read("group", <<"g1">>),
  Read("group-config", <<"g1">>), Read("types", <<"g1">>), Read("types", <<"g2">>),
  Read("type", <<"g1">>), Read("type", <<"g1", "a">>), Read("type", <<"g2", "c">>),
  Read("type-config", <<"g2", "c">>), Read("sets", <<>>), Read("zone-device", <<>>),
  Read("transport", <<>>), Read("ntp", <<>>), Read("ntp-global", <<>>), Read("keys", <<>>),
  Read("key", <<>>), Read("key", <<"k1">>), Read("servers", <<>>), Read("server", <<>>),
  Read("server", <<"s1">>), Read("server-config", <<"s1">>), Read("colors", <<"g1">>),
  Read("hold-time", <<"g1">>), Read("filter", <<"g1", "a">>), Read("metric", <<>>),
  Read("server-key", <<"s1">>), Read("id", <<"g1">>), Read("group-id", <<"g1">>)}
MCAsked == Reads \cup Writes("create") \cup Writes("update") \cup Writes("replace") \cup Deletes

\* Whole lists, instances, and wildcards above keys.
MCSubscribed == {
  <<"test-xfmr", <<>>>>, <<"groups", <<>>>>, <<"group", <<>>>>, <<"group", <<"g1">>>>,
  <<"group-config", <<>>>>, <<"group-config", <<"g1">>>>, <<"types", <<>>>>,
  <<"types", <<"g2">>>>, <<"type", <<"g1">>>>, <<"type", <<"*", "a">>>>,
  <<"type", <<"g1", "b">>>>, <<"type-config", <<>>>>, <<"colors", <<>>>>,
  <<"hold-time", <<"g1">>>>, <<"filter", <<"*", "a">>>>, <<"config-type", <<"g1">>>>,
  <<"sets", <<>>>>, <<"zone-device", <<>>>>, <<"device-config", <<>>>>,
  <<"transport-config", <<>>>>, <<"keepalive", <<>>>>, <<"ntp", <<>>>>,
  <<"ntp-global", <<>>>>, <<"auth", <<>>>>, <<"keys", <<>>>>, <<"key", <<"k2">>>>,
  <<"servers", <<>>>>, <<"server", <<"s1">>>>, <<"server-config", <<>>>>,
  <<"server-key", <<>>>>}

Contents(e) == [r \in Row |-> IF r \in DOMAIN e THEN e[r] ELSE Absent]
GroupRow(C) == ("colors" :> C) @@ ("hold-time" :> {"20"})
Sensors ==
  (Group("g1") :> GroupRow({"red", "green"})) @@ (Group("g2") :> OnlyNull) @@
  (Type("g1", "a") :> ("filter" :> {"e"})) @@ (Type("g1", "b") :> OnlyNull) @@
  (Type("g2", "c") :> OnlyNull) @@
  (Device :> (("metric" :> {"1"}) @@ ("hold-interval" :> {"1"}))) @@
  (Transport :> (("keepalive" :> {"1"}) @@ ("delay" :> {"7"})))
Some == (Group("g1") :> ("colors" :> {"red"})) @@ (Type("g1", "a") :> ("filter" :> {"e"})) @@
        (Device :> (("metric" :> {"1"}) @@ ("via" :> {"transport-host"}))) @@
        (Transport :> ("delay" :> {"5"}))
Clocks ==
  (Ntp :> (("auth" :> {"on"}) @@ ("trusted" :> {"k1"}))) @@
  (NtpKey("k1") :> ("key-value" :> {"u"})) @@ (NtpKey("k2") :> OnlyNull) @@
  (Server("s1") :> (("key-ref" :> {"k1"}) @@ ("poll" :> {"5"}))) @@
  (Server("s2") :> OnlyNull)
OneKey == (NtpKey("k1") :> ("key-value" :> {"u"})) @@ (Ntp :> ("auth" :> {"on"})) @@
          (Server("s1") :> ("key-ref" :> {"k1"})) @@ (Server("global") :> OnlyNull)
MCDatabases == {Contents(NoRows), Contents(Sensors), Contents(Some),
                 Contents(Clocks), Contents(OneKey)}
=============================================================================
