-------------------------- MODULE InterfaceAddresses --------------------------
(***************************************************************************)
(* Requests on the IP addresses of an interface and on IPv6 link-local     *)
(* addressing (transformer/xfmr_intf.go).  An interface with addresses has *)
(* a base row next to the rows of its addresses, that holds the field NULL *)
(* when nothing else is configured.                                        *)
(*                                                                         *)
(* The subtree of an Ethernet interface or a port channel (subinterface 0) *)
(* and that of a VLAN (routed-vlan) have functions of their own, which do  *)
(* the same but for one case of DeleteAddresses.                           *)
(***************************************************************************)
EXTENDS InterfaceTables

IPv4(A) == {a \in A : FamilyOf[a] = "IPv4"}
IPv6(A) == {a \in A : FamilyOf[a] = "IPv6"}
LinkLocal == "ipv6_use_link_local_only"

\* A list of addresses has the ip as its key.  An entry without a container
\* config is passed over: the payload may come to nothing.
Payloads ==
  {A \in SUBSET scope.addresses : \A a, b \in A : IpOf[a] = IpOf[b] => a = b}

\* Mutant: only the same address is looked for.
OverlapsOtherSame(i, a) == \E j \in Intf \ {i} : a \in addr[j]

\* The result of the check of each address overwrites that of the one before:
\* the check of the last address counts, and the IPv6 addresses come last.
CheckedLast(A) == IF IPv6(A) # {} THEN IPv6(A) ELSE A
OverlapsOther(i, a) ==
  \E j \in Intf \ {i} : \E b \in addr[j] : <<a, b>> \in Overlap
NoOverlapSeen(i, A) == A = {} \/ \E a \in CheckedLast(A) : ~OverlapsOther(i, a)

\* Mutant: the address that is there is taken from both families.
ReplacedAny(i, A) ==
  IF IPv4(A) \subseteq addr[i] \/ addr[i] = {} THEN {{}}
  ELSE {{old} : old \in addr[i]}

\* An IPv4 address that is new takes the place of one that is there, any one.
\* The deletion for a new address overwrites that for the one before.
Replaced(i, A) ==
  IF IPv4(A) \subseteq addr[i] \/ IPv4(addr[i]) = {} THEN {{}}
  ELSE {{old} : old \in IPv4(addr[i])}

\* A checked address is one of a request of its own.
AloneAfter(i, A, gone) ==
  (alone \ ({i} \X (gone \ A))) \cup {<<i, a>> : a \in {b \in A : A = {b}}}

AddAddresses(i, A) ==
  /\ NoOverlapSeen(i, A)
  /\ \E gone \in Replaced(i, A) :
       /\ addr' = [addr EXCEPT ![i] = (@ \ gone) \cup A]
       /\ alone' = AloneAfter(i, A, gone)
  /\ l3' = [l3 EXCEPT ![i] = IF @ = {} THEN {"NULL"} ELSE @]
  /\ UNCHANGED <<switchedVars, scope>>

AddSubinterfaceAddresses(i, A) ==
  Asked(i, "routed") /\ i \in SwPort /\ Exists(i) /\ AddAddresses(i, A)
AddRoutedVlanAddresses(i, A) ==
  Asked(i, "routed") /\ i \in Vlan /\ Exists(i) /\ AddAddresses(i, A)

\* The addresses that a path names: those with an ip, or of a family.
Named(i) ==
  {IPv4(addr[i]), IPv6(addr[i])} \cup
  {{b \in addr[i] : IpOf[b] = IpOf[a]} : a \in scope.addresses}

\* Mutant: the addresses that are left are not counted.
OnlyNullLeftNow(i, gone) == l3[i] = {"NULL"}

\* The base row goes with the last address, unless it says something else.
OnlyNullLeft(i, gone) == addr[i] \subseteq gone /\ l3[i] = {"NULL"}

DeleteAddresses(i, gone, base) ==
  /\ addr' = [addr EXCEPT ![i] = @ \ gone]
  /\ alone' = alone \ ({i} \X gone)
  /\ l3' = [l3 EXCEPT ![i] = IF base THEN {} ELSE @]
  /\ UNCHANGED <<switchedVars, scope>>

\* Without an address to delete the base row stays, but for a VLAN.
DeleteSubinterfaceAddresses(i, gone) ==
  /\ Asked(i, "routed") /\ i \in SwPort /\ Exists(i)
  /\ DeleteAddresses(i, gone, gone # {} /\ OnlyNullLeft(i, gone))
DeleteRoutedVlanAddresses(i, gone) ==
  /\ Asked(i, "routed") /\ i \in Vlan /\ Exists(i)
  /\ DeleteAddresses(i, gone, OnlyNullLeft(i, gone))

EnableIPv6(i) ==
  /\ Asked(i, "routed") /\ Exists(i)
  /\ l3' = [l3 EXCEPT ![i] = @ \cup {LinkLocal}]
  /\ UNCHANGED <<switchedVars, addr, alone, scope>>

\* The whole row is deleted if it has nothing else and there is no address;
\* the common app keeps a row that loses its last field (deleteFields).
DisableIPv6(i) ==
  /\ Asked(i, "routed") /\ Exists(i) /\ LinkLocal \in l3[i]
  /\ l3' = [l3 EXCEPT ![i] =
              IF addr[i] = {} THEN {}
              ELSE IF @ = {LinkLocal} THEN {"NULL"} ELSE @ \ {LinkLocal}]
  /\ UNCHANGED <<switchedVars, addr, alone, scope>>

AddressRequest ==
  \E i \in Intf :
    \/ \E A \in Payloads : AddSubinterfaceAddresses(i, A) \/ AddRoutedVlanAddresses(i, A)
    \/ \E gone \in Named(i) :
         DeleteSubinterfaceAddresses(i, gone) \/ DeleteRoutedVlanAddresses(i, gone)
    \/ EnableIPv6(i) \/ DisableIPv6(i)

\* The addresses that a GET shows, by ip, the key of the list.
ShownIps(i) == {IpOf[a] : a \in addr[i]}
=============================================================================
