----------------------------- MODULE Interfaces -----------------------------
(***************************************************************************)
(* Requests on openconfig-interfaces, one after the other: interfaces are  *)
(* created and deleted, ports join and leave port channels, and interfaces *)
(* get VLANs (SwitchedVlan) and addresses (InterfaceAddresses).            *)
(***************************************************************************)
EXTENDS SwitchedVlan, InterfaceAddresses

CreateVlan(v) ==
  /\ v \in scope.intfs
  /\ vlan' = vlan \cup {v}
  /\ UNCHANGED <<lag, member, lagMember, routedVars, scope>>

CreateLag(p) ==
  /\ p \in scope.intfs
  /\ lag' = lag \cup {p}
  /\ UNCHANGED <<vlan, member, lagMember, routedVars, scope>>

\* The rows of an interface in the L3 tables.
ForgetL3(i) ==
  /\ l3' = [l3 EXCEPT ![i] = {}]
  /\ addr' = [addr EXCEPT ![i] = {}]
  /\ alone' = alone \ ({i} \X Address)

\* deleteVlanIntfAndMembers, and the subtree of the addresses.
DeleteVlan(v) ==
  /\ v \in scope.intfs /\ v \in vlan
  /\ vlan' = vlan \ {v}
  /\ member' = [m \in Vlan \X SwPort |-> IF m[1] = v THEN "none" ELSE member[m]]
  /\ ForgetL3(v)
  /\ UNCHANGED <<lag, lagMember, scope>>

\* deleteLagIntfAndMembers: not while the port channel is a member of a VLAN.
DeleteLag(p) ==
  /\ p \in scope.intfs /\ p \in lag
  /\ \A v \in Vlan : member[<<v, p>>] = "none"
  /\ lag' = lag \ {p}
  /\ lagMember' = {m \in lagMember : m[1] # p}
  /\ ForgetL3(p)
  /\ UNCHANGED <<vlan, member, scope>>

\* A physical interface is never deleted.
DeleteInterface(i) ==
  \/ i \in Vlan /\ DeleteVlan(i)
  \/ i \in PortChannel /\ DeleteLag(i)

(***************************************************************************)
(* aggregate-id.                                                           *)
(***************************************************************************)
JoinLag(e, p) ==
  /\ Asked(e, "bundled")
  /\ p \in lag
  /\ lagMember' = lagMember \cup {<<p, e>>}
  /\ UNCHANGED <<vlan, lag, member, routedVars, scope>>

\* Of several port channels the code takes the one that it comes upon first.
LagsOf(e) == {p \in PortChannel : <<p, e>> \in lagMember}
LeaveLag(e) ==
  /\ Asked(e, "bundled")
  /\ \E p \in LagsOf(e) : lagMember' = lagMember \ {<<p, e>>}
  /\ UNCHANGED <<vlan, lag, member, routedVars, scope>>

Next ==
  \/ SwitchedVlanRequest
  \/ AddressRequest
  \/ \E v \in Vlan : CreateVlan(v)
  \/ \E p \in PortChannel : CreateLag(p)
  \/ \E i \in Intf : DeleteInterface(i)
  \/ \E e \in Ethernet : LeaveLag(e) \/ \E p \in PortChannel : JoinLag(e, p)

Spec == Init /\ [][Next]_vars

(***************************************************************************)
(* Properties.                                                             *)
(***************************************************************************)
\* A port has one access VLAN at most: a request for another replaces it
\* (intfVlanMemberAdd, intfVlanMemberReplace), also when what it replaces is
\* not given, does not exist or is asked for as a trunk VLAN.
OneAccessVlan == \A i \in SwPort : \A v, w \in Untagged(i) : v = w

\* Every row has the row it belongs to: a member its VLAN or port channel, an
\* address the base row of its interface, a base row the interface.  The
\* deletions of interfaces, addresses and link-local addressing each take
\* along what depends on them (deleteVlanIntfAndMembers,
\* deleteLagIntfAndMembers, check_if_delete_l3_intf_entry).
RowsBelong ==
  /\ \A m \in Vlan \X SwPort :
       member[m] # "none" => m[1] \in vlan /\ Exists(m[2])
  /\ \A m \in lagMember : m[1] \in lag
  /\ \A i \in Intf : /\ addr[i] # {} => l3[i] # {}
                     /\ l3[i] # {} => Exists(i)

\* Addresses of two interfaces overlap only if one of them came in a request
\* for several: every request makes the check (validateIpOverlap), but an
\* error is kept only for the last address.
OverlapOnlyTogether ==
  \A i, j \in Intf : i # j =>
    \A a \in addr[i], b \in addr[j] :
      <<a, b>> \in Overlap => <<i, a>> \notin alone \/ <<j, b>> \notin alone

\* After a request on switched-vlan a GET shows what it asked for: what it
\* gives is set, of the VLANs that exist; what a PUT of the container or of a
\* leaf does not give is gone; and the rest is as it was.  A VLAN that is given
\* as both is a trunk VLAN after a PATCH and the access VLAN after a PUT.
SwitchedVlanAsked(i, access, trunks) ==
  LET old == GetSwitchedVlan(i, "config")
      new == GetSwitchedVlan(i, "config")'
      given == {access} \cap vlan
      exist == trunks \cap vlan
  IN /\ AddSwitchedVlan(i, access, trunks) =>
          /\ new.access = (IF access = Unset THEN old.access ELSE given) \ exist
          /\ new.trunks = (old.trunks \cup exist) \ new.access
     /\ ReplaceSwitchedVlan(i, "config", access, trunks) =>
          new.access = given /\ new.trunks = exist \ given
     /\ ReplaceSwitchedVlan(i, "access-vlan", access, trunks) =>
          /\ GetSwitchedVlan(i, "access-vlan")' = given
          /\ new.trunks = old.trunks \ given
     /\ ReplaceSwitchedVlan(i, "trunk-vlans", access, trunks) =>
          /\ GetSwitchedVlan(i, "trunk-vlans")' = exist
          /\ new.access = old.access \ exist
     /\ DeleteSwitchedVlan(i) => GetSwitchedVlan(i, "interface-mode")' = {}
     /\ DeleteTrunkVlans(i) \/ DeleteTrunkVlan(i, trunks) =>
          new.access = old.access /\ new.trunks \subseteq old.trunks
     /\ new.mode = GetSwitchedVlan(i, "interface-mode")'
SwitchedVlanIsAsked ==
  [][\A i \in SwPort \cap scope.intfs, access \in AccessOf, trunks \in TrunksOf :
       SwitchedVlanAsked(i, access, trunks)]_vars

\* After a request for addresses a GET shows them, and at most one address is
\* gone, an IPv4 address for which a new one came.  After the deletion of
\* addresses none of those is shown, the others are, and the interface is no L3
\* interface any more when nothing is left (intf_ip_addr_del,
\* routed_vlan_ip_addr_del).
AddedAreAsked(i, A) ==
  AddSubinterfaceAddresses(i, A) \/ AddRoutedVlanAddresses(i, A) =>
    /\ {IpOf[a] : a \in A} \subseteq ShownIps(i)'
    /\ Cardinality(addr[i] \ addr'[i]) <= 1
    /\ addr[i] \ addr'[i] # {} =>
         /\ addr[i] \ addr'[i] \subseteq IPv4(Address)
         /\ IPv4(A) \ addr[i] # {}
DeletedAreAsked(i, gone) ==
  DeleteSubinterfaceAddresses(i, gone) \/ DeleteRoutedVlanAddresses(i, gone) =>
    /\ ShownIps(i)' = ShownIps(i) \ {IpOf[a] : a \in gone}
    /\ addr[i] # {} /\ addr'[i] = {} => l3'[i] = {} \/ LinkLocal \in l3'[i]
AddressesAreAsked ==
  [][\A i \in Intf \cap scope.intfs :
       /\ \A A \in Payloads : AddedAreAsked(i, A)
       /\ \A gone \in Named(i) : DeletedAreAsked(i, gone)]_vars
=============================================================================
