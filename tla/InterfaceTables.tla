--------------------------- MODULE InterfaceTables ---------------------------
(***************************************************************************)
(* The rows of ConfigDB that requests on openconfig-interfaces work on,    *)
(* as their transformers see them: VLANs and their members, port channels  *)
(* and their members, and the L3 configuration of every interface.         *)
(*                                                                         *)
(* A request is one step: it runs under the write lock, in a transaction   *)
(* (module Requests), and what the common app makes of the maps of a       *)
(* transformer is the subject of OcRequests.  A request that is refused    *)
(* changes nothing and is no step.                                         *)
(***************************************************************************)
EXTENDS Naturals, FiniteSets

CONSTANTS
  Ethernet, PortChannel, Vlan,  \* names of interfaces, by type
  Unset,                        \* an access VLAN that is not given
  Address,                      \* <ip>/<prefix length>
  FamilyOf,                     \* [Address -> {"IPv4", "IPv6"}]
  IpOf,                         \* [Address -> ip]
  Overlap,                      \* the pairs of addresses that overlap
  Scopes                        \* bound: the requests of one behaviour

SwPort == Ethernet \cup PortChannel
Intf == SwPort \cup Vlan

ASSUME InterfaceAssumption ==
  /\ Ethernet \cap PortChannel = {} /\ SwPort \cap Vlan = {}
  /\ Unset \notin Vlan
  /\ FamilyOf \in [Address -> {"IPv4", "IPv6"}] /\ DOMAIN IpOf = Address
  /\ \A a, b \in Address : IpOf[a] = IpOf[b] => FamilyOf[a] = FamilyOf[b]
  /\ Overlap \subseteq Address \X Address
  /\ \A p \in Overlap : <<p[2], p[1]>> \in Overlap
  /\ Scopes \subseteq [intfs : SUBSET Intf, addresses : SUBSET Address,
                       kinds : SUBSET {"switched", "bundled", "routed"}]

VARIABLES
  vlan,       \* rows of VLAN
  lag,        \* rows of PORTCHANNEL
  member,     \* VLAN_MEMBER: tagging_mode, or "none" where there is no row
  lagMember,  \* rows of PORTCHANNEL_MEMBER
  l3,         \* fields of the rows <table>|<interface>; {}: no row
  addr,       \* rows <table>|<interface>|<address>
  alone,      \* history: the addresses last set by a request for one address
  scope       \* the requests that are made

switchedVars == <<vlan, lag, member, lagMember>>
routedVars == <<l3, addr, alone>>
vars == <<switchedVars, routedVars, scope>>

Tag == {"none", "tagged", "untagged"}
L3Field == {"NULL", "ipv6_use_link_local_only"}

\* The rows exist that a request on the interface depends on.
Exists(i) == i \in Ethernet \cup lag \cup vlan

Asked(i, kind) == i \in scope.intfs /\ kind \in scope.kinds

Init ==
  /\ vlan = {} /\ lag = {}
  /\ member = [m \in Vlan \X SwPort |-> "none"] /\ lagMember = {}
  /\ l3 = [i \in Intf |-> {}] /\ addr = [i \in Intf |-> {}] /\ alone = {}
  /\ scope \in Scopes

\* Type invariant.
InterfaceTypeOK ==
  /\ vlan \subseteq Vlan /\ lag \subseteq PortChannel
  /\ member \in [Vlan \X SwPort -> Tag]
  /\ lagMember \subseteq PortChannel \X Ethernet
  /\ l3 \in [Intf -> SUBSET L3Field]
  /\ addr \in [Intf -> SUBSET Address]
  /\ alone \subseteq Intf \X Address
  /\ scope \in Scopes
=============================================================================
