----------------------------- MODULE SwitchedVlan -----------------------------
(***************************************************************************)
(* Requests on the container switched-vlan of an Ethernet interface or a   *)
(* port channel (transformer/sw_vlan.go): the access VLAN and the trunk    *)
(* VLANs of the interface are rows of VLAN_MEMBER, untagged and tagged.    *)
(***************************************************************************)
EXTENDS InterfaceTables

Untagged(i) == {v \in Vlan : member[<<v, i>>] = "untagged"}
Tagged(i) == {v \in Vlan : member[<<v, i>>] = "tagged"}

\* The access VLAN that the code comes upon first.
AccessVlan(i) == IF Untagged(i) = {} THEN {Unset} ELSE Untagged(i)

\* The map of rows to delete and then the map of rows to write.
SetMember(i, gone, tagged, untagged) ==
  /\ member' = [m \in Vlan \X SwPort |->
       CASE m[2] # i -> member[m]
         [] m[2] = i /\ m[1] \in tagged -> "tagged"
         [] m[2] = i /\ m[1] \in untagged \ tagged -> "untagged"
         [] m[2] = i /\ m[1] \in gone \ (tagged \cup untagged) -> "none"
         [] OTHER -> member[m]]
  /\ UNCHANGED <<vlan, lag, lagMember, routedVars, scope>>

\* What a payload says: an access VLAN and trunk VLANs, ranges expanded.
AccessOf == (Vlan \cap scope.intfs) \cup {Unset}
TrunksOf == SUBSET (Vlan \cap scope.intfs)
\* Mutant: the access VLAN that is there stays.
AddSwitchedVlanKeepsOld(i, access, trunks) ==
  /\ Asked(i, "switched") /\ i \in SwPort /\ Exists(i)
  /\ access # Unset \/ trunks # {}
  /\ SetMember(i, {}, trunks \cap vlan, {access} \cap vlan)

\* A VLAN that does not exist is passed over.
AddSwitchedVlan(i, access, trunks) ==
  /\ Asked(i, "switched") /\ i \in SwPort /\ Exists(i)
  /\ access # Unset \/ trunks # {}
  /\ \E old \in AccessVlan(i) :
       SetMember(i,
         IF access \in {Unset, old} THEN {} ELSE {old},
         trunks \cap vlan,
         IF access = old THEN {} ELSE {access} \cap vlan)

\* at: the leaf the request is for, or the container.
Given(at, access, trunks) ==
  CASE at = "access-vlan" -> access # Unset /\ trunks = {}
    [] at = "trunk-vlans" -> access = Unset /\ trunks # {}
    [] OTHER -> TRUE

\* Mutant: a PUT of the trunk VLANs takes the access VLAN along.
ReplaceSwitchedVlanWhole(i, at, access, trunks) ==
  /\ Asked(i, "switched") /\ i \in SwPort /\ Exists(i)
  /\ Given(at, access, trunks)
  /\ \E old \in AccessVlan(i) :
       LET tagged == IF at = "access-vlan" THEN {} ELSE Tagged(i)
       IN SetMember(i,
            ({old} \ {access}) \cup (tagged \ trunks),
            ((trunks \ tagged) \cap vlan) \ {access},
            ({access} \cap vlan) \ {old})

ReplaceSwitchedVlan(i, at, access, trunks) ==
  /\ Asked(i, "switched") /\ i \in SwPort /\ Exists(i)
  /\ Given(at, access, trunks)
  /\ \E old \in (IF at = "trunk-vlans" THEN {Unset} ELSE AccessVlan(i)) :
       LET tagged == IF at = "access-vlan" THEN {} ELSE Tagged(i)
       IN SetMember(i,
            ({old} \ {access}) \cup (tagged \ trunks),
            ((trunks \ tagged) \cap vlan) \ {access},
            ({access} \cap vlan) \ {old})

\* DELETE of the container or of what it is in.
DeleteSwitchedVlan(i) ==
  /\ Asked(i, "switched") /\ i \in SwPort /\ Exists(i)
  /\ \E old \in AccessVlan(i) : SetMember(i, Tagged(i) \cup {old}, {}, {})

DeleteTrunkVlans(i) ==
  /\ Asked(i, "switched") /\ i \in SwPort /\ Exists(i)
  /\ SetMember(i, Tagged(i), {}, {})

DeleteAccessVlan(i) ==
  /\ Asked(i, "switched") /\ i \in SwPort /\ Exists(i)
  /\ \E old \in Untagged(i) : SetMember(i, {old}, {}, {})

\* DELETE of some of the trunk VLANs: those that are none are passed over.
DeleteTrunkVlan(i, trunks) ==
  /\ Asked(i, "switched") /\ i \in SwPort /\ Exists(i)
  /\ trunks # {}
  /\ SetMember(i, trunks \cap Tagged(i), {}, {})

SwitchedVlanRequest ==
  \E i \in SwPort :
    \/ \E access \in AccessOf, trunks \in TrunksOf :
         \/ AddSwitchedVlan(i, access, trunks)
         \/ \E at \in {"config", "access-vlan", "trunk-vlans"} :
              ReplaceSwitchedVlan(i, at, access, trunks)
    \/ DeleteSwitchedVlan(i) \/ DeleteTrunkVlans(i) \/ DeleteAccessVlan(i)
    \/ \E trunks \in TrunksOf : DeleteTrunkVlan(i, trunks)

(***************************************************************************)
(* What a GET answers, of a leaf or of a container.  The containers config *)
(* and state show the same.                                                *)
(***************************************************************************)
\* The rows of an interface, by VLAN.
RowsOf(i) == [v \in Untagged(i) \cup Tagged(i) |-> member[<<v, i>>]]
VlansTagged(rows, tag) == {v \in DOMAIN rows : rows[v] = tag}

ShownLeaf(rows, leaf) ==
  LET access == VlansTagged(rows, "untagged")
      trunks == VlansTagged(rows, "tagged")
  IN CASE leaf = "access-vlan" -> access
       [] leaf = "trunk-vlans" -> trunks
       [] leaf = "interface-mode" ->
            IF trunks # {} THEN {"TRUNK"}
            ELSE IF access # {} THEN {"ACCESS"} ELSE {}

\* The mode comes with the VLANs: TRUNK as soon as there is a trunk VLAN.
ShownConfig(rows) ==
  [access |-> VlansTagged(rows, "untagged"), trunks |-> VlansTagged(rows, "tagged"),
   mode |-> IF VlansTagged(rows, "tagged") # {} THEN {"TRUNK"}
            ELSE {"ACCESS" : v \in VlansTagged(rows, "untagged")}]

\* An answer has what it is asked for, and no more.
GetSwitchedVlan(i, at) ==
  IF at \in {"access-vlan", "trunk-vlans", "interface-mode"}
  THEN ShownLeaf(RowsOf(i), at) ELSE ShownConfig(RowsOf(i))
=============================================================================
