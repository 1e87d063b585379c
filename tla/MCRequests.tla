----------------------------- MODULE MCRequests -----------------------------
\* Ports, an ACL table that is bound to ports, and its rules: a table of
\* another module, a parent and a child table, a leafref of each kind.
EXTENDS Requests

Port(p) == <<"PORT", <<p>>>>
Acl == <<"ACL_TABLE", <<"t1">>>>
Rule(r) == <<"ACL_RULE", <<"t1", r>>>>

MCTable == {"PORT", "ACL_TABLE", "ACL_RULE"}
MCRow == {Port("p1"), Port("p2"), Acl, Rule("r1"), Rule("r2"), Rule("r3")}
MCModuleOf == [t \in MCTable |-> IF t = "PORT" THEN "port" ELSE "acl"]
MCDefaultsOf ==
  [t \in MCTable |->
     IF t = "ACL_TABLE" THEN "stage" :> {"ingress"} ELSE [f \in {} |-> {}]]
MCMandatory == [t \in MCTable |-> IF t = "ACL_RULE" THEN {"prio"} ELSE {}]
MCMaxElements == "ACL_RULE" :> 2
Leafref(from, key, field, to) ==
  [from |-> from, key |-> key, field |-> field, to |-> to]
MCLeafRef == {
  Leafref("ACL_TABLE", 0, "ports", "PORT"),
  Leafref("ACL_RULE", 1, "NULL", "ACL_TABLE"),
  Leafref("ACL_RULE", 0, "redirect", "PORT")}

Ports(P) == "ports" :> P
Prio(n) == "prio" :> {n}
Redirect(p) == "redirect" :> {p}

\* Requests, named for the method and the path.
Set(oper, level, row, field, e) ==
  Request(oper, level, row, field, row :> e, FALSE, FALSE)
Delete(level, row, field) ==
  Request("delete", level, row, field, [r \in {} |-> Absent], FALSE, FALSE)
Only(req) == Batch(FALSE, <<req>>)

PostAcl == Set("create", "table", Acl, "", Ports({"p1"}))
PatchAcl == Set("update", "row", Acl, "", Ports({"p2"}))
PutAcl == Set("replace", "row", Acl, "", "stage" :> {"egress"})
PutAclPorts == Set("replace", "row", Acl, "", Ports({"p2"}))
PutStage == Set("replace", "field", Acl, "stage", "stage" :> {"egress"})
PutPorts == Set("replace", "field", Acl, "ports", Ports({"p2"}))
PostRule(r) ==
  Set("create", "table", Rule(r), "", Prio("1") @@ Redirect("p1"))
PutRule == Set("replace", "row", Rule("r1"), "", Prio("2"))
PatchPrio == Set("update", "field", Rule("r1"), "prio", Prio("3"))
PostPort(p) == Set("create", "table", Port(p), "", [f \in {} |-> {}])
DeleteRules == Delete("table", Rule("r1"), "")
DeleteRule == Delete("row", Rule("r1"), "")
DeleteAcl == Delete("row", Acl, "")
DeleteAcls == Delete("table", Acl, "")
DeleteModule == Delete("module", Acl, "")
DeletePort == Delete("row", Port("p1"), "")
DeleteStage == Delete("field", Acl, "stage")
DeletePrio == Delete("field", Rule("r1"), "prio")
DeleteRedirect == Delete("field", Rule("r1"), "redirect")
DeletePorts == Delete("field", Acl, "ports")
DeleteMember(keep) ==
  Request("delete", "value", Acl, "ports", Acl :> Ports({"p1"}), FALSE, keep)

Singles == {Only(r) : r \in
  {PostAcl, PatchAcl, PutAcl, PutAclPorts, PutStage, PutPorts, PostRule("r1"), PostRule("r3"),
   PutRule, PatchPrio, PostPort("p2"), DeleteRules, DeleteRule, DeleteAcl, DeleteAcls,
   DeleteModule, DeletePort, DeleteStage, DeletePrio, DeleteRedirect,
   DeletePorts, DeleteMember(FALSE), DeleteMember(TRUE)}}
Bulks == {
  Batch(TRUE, <<DeleteAcl, PatchAcl>>),
  Batch(TRUE, <<PostPort("p2"), PatchAcl, PostRule("r1")>>),
  Batch(TRUE, <<DeleteRules, PostRule("r3"), DeleteStage>>),
  Batch(TRUE, <<DeleteRule, PostRule("r1"), PostRule("r3")>>),
  Batch(TRUE, <<DeleteMember(TRUE), DeleteStage, DeletePort>>),
  Batch(TRUE, <<DeletePort, PostAcl>>),
  Batch(TRUE, <<DeleteAcl, PostAcl, PostRule("r3")>>),
  Batch(TRUE, <<DeletePorts, DeleteRedirect, DeletePort>>)}

\* PUTs of a row.
PutBatches == [p \in Process |-> {Only(PutAcl), Only(PutAclPorts)}]

MCBatches ==
  ("rest" :> Singles) @@
  ("gnmi" :> Bulks \cup {Only(r) : r \in
     {PostAcl, PutPorts, DeleteAcl, DeletePort, DeleteStage}})

Contents(e) == [r \in Row |-> IF r \in DOMAIN e THEN e[r] ELSE Absent]
OnePort == Port("p1") :> OnlyNull
Bound ==
  (Port("p1") :> OnlyNull) @@ (Port("p2") :> OnlyNull) @@
  (Acl :> (Ports({"p1"}) @@ ("stage" :> {"ingress"})))
Half ==
  (Port("p1") :> OnlyNull) @@
  (Acl :> (Ports({"p1"}) @@ ("stage" :> {"egress"}) @@ ("policy" :> {"l3"})))
Ruled ==
  (Rule("r1") :> (Prio("1") @@ Redirect("p1"))) @@
  (Rule("r2") :> Prio("2")) @@ Bound
MCDatabases == {Contents(OnePort), Contents(Bound), Contents(Half),
                 Contents(Ruled)}
=============================================================================
