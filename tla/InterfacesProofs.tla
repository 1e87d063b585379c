--------------------------- MODULE InterfacesProofs ---------------------------
(***************************************************************************)
(* What holds of the tables of the interfaces for every set of interfaces  *)
(* and addresses, whatever the requests.                                   *)
(***************************************************************************)
EXTENDS Interfaces, FiniteSetTheorems, TLAPS

\* Checked addresses are among the addresses.
AloneAreThere == \A i \in Intf : \A a \in Address : <<i, a>> \in alone => a \in addr[i]

LEMMA TypeInit == Init => InterfaceTypeOK
BY InterfaceAssumption DEF Init, InterfaceTypeOK, Tag, L3Field

\* Every request on switched-vlan sets rows of one interface.
LEMMA SwitchedVlanSets ==
  ASSUME SwitchedVlanRequest
  PROVE  \E i \in SwPort : \E gone, tagged, untagged :
           SetMember(i, gone, tagged, untagged)
<1>1. PICK i \in SwPort :
        \/ \E access \in AccessOf, trunks \in TrunksOf :
             \/ AddSwitchedVlan(i, access, trunks)
             \/ \E at \in {"config", "access-vlan", "trunk-vlans"} :
                  ReplaceSwitchedVlan(i, at, access, trunks)
        \/ DeleteSwitchedVlan(i) \/ DeleteTrunkVlans(i) \/ DeleteAccessVlan(i)
        \/ \E trunks \in TrunksOf : DeleteTrunkVlan(i, trunks)
  BY DEF SwitchedVlanRequest
<1>2. ASSUME NEW access \in AccessOf, NEW trunks \in TrunksOf,
             AddSwitchedVlan(i, access, trunks)
      PROVE  \E gone, tagged, untagged : SetMember(i, gone, tagged, untagged)
  BY <1>2 DEF AddSwitchedVlan
<1>3. ASSUME NEW access \in AccessOf, NEW trunks \in TrunksOf,
             NEW at \in {"config", "access-vlan", "trunk-vlans"},
             ReplaceSwitchedVlan(i, at, access, trunks)
      PROVE  \E gone, tagged, untagged : SetMember(i, gone, tagged, untagged)
  BY <1>3 DEF ReplaceSwitchedVlan
<1>4. QED
  BY <1>1, <1>2, <1>3
     DEF DeleteSwitchedVlan, DeleteTrunkVlans, DeleteAccessVlan, DeleteTrunkVlan

LEMMA TypeNext == InterfaceTypeOK /\ [Next]_vars => InterfaceTypeOK'
<1> SUFFICES ASSUME InterfaceTypeOK, [Next]_vars PROVE InterfaceTypeOK'
  OBVIOUS
<1> USE DEF InterfaceTypeOK, Tag, L3Field, switchedVars, routedVars
<1>1. CASE SwitchedVlanRequest
  <2>1. PICK i \in SwPort :
          \E gone, tagged, untagged : SetMember(i, gone, tagged, untagged)
    BY <1>1, SwitchedVlanSets
  <2>2. PICK gone, tagged, untagged : SetMember(i, gone, tagged, untagged)
    BY <2>1
  <2>3. member' \in [Vlan \X SwPort -> Tag]
    BY <2>2 DEF SetMember
  <2>4. QED
    BY <2>2, <2>3 DEF SetMember
<1>2. CASE AddressRequest
  <2>1. ASSUME NEW i \in Intf, NEW A \in Payloads, AddAddresses(i, A)
        PROVE  InterfaceTypeOK'
    <3>1. A \subseteq Address
      BY InterfaceAssumption DEF Payloads
    <3>2. addr' \in [Intf -> SUBSET Address] /\ l3' \in [Intf -> SUBSET L3Field]
      BY <2>1, <3>1 DEF AddAddresses
    <3>3. alone' \subseteq Intf \X Address
      BY <2>1, <3>1 DEF AddAddresses, AloneAfter
    <3>4. QED
      BY <2>1, <3>2, <3>3 DEF AddAddresses
  <2>2. ASSUME NEW i \in Intf, NEW gone, NEW base, DeleteAddresses(i, gone, base)
        PROVE  InterfaceTypeOK'
    BY <2>2 DEF DeleteAddresses
  <2>3. ASSUME NEW i \in Intf, EnableIPv6(i) \/ DisableIPv6(i)
        PROVE  InterfaceTypeOK'
    BY <2>3 DEF EnableIPv6, DisableIPv6, LinkLocal
  <2>4. QED
    BY <1>2, <2>1, <2>2, <2>3
       DEF AddressRequest, AddSubinterfaceAddresses, AddRoutedVlanAddresses,
           DeleteSubinterfaceAddresses, DeleteRoutedVlanAddresses
<1>3. ASSUME NEW v \in Vlan, CreateVlan(v) PROVE InterfaceTypeOK'
  BY <1>3 DEF CreateVlan
<1>4. ASSUME NEW v \in Vlan, DeleteVlan(v) PROVE InterfaceTypeOK'
  BY <1>4 DEF DeleteVlan, ForgetL3
<1>5. ASSUME NEW p \in PortChannel, CreateLag(p) PROVE InterfaceTypeOK'
  BY <1>5 DEF CreateLag
<1>6. ASSUME NEW p \in PortChannel, DeleteLag(p) PROVE InterfaceTypeOK'
  BY <1>6 DEF DeleteLag, ForgetL3
<1>7. ASSUME NEW e \in Ethernet, NEW p \in PortChannel, JoinLag(e, p)
      PROVE  InterfaceTypeOK'
  BY <1>7 DEF JoinLag
<1>8. ASSUME NEW e \in Ethernet, LeaveLag(e) PROVE InterfaceTypeOK'
  BY <1>8 DEF LeaveLag
<1>9. CASE UNCHANGED vars
  BY <1>9 DEF vars
<1>10. QED
  BY <1>1, <1>2, <1>3, <1>4, <1>5, <1>6, <1>7, <1>8, <1>9 DEF Next, DeleteInterface

\* The tables hold what their types allow.
THEOREM InterfaceTypeCorrect == Spec => []InterfaceTypeOK
BY TypeInit, TypeNext, PTL DEF Spec

(***************************************************************************)
(* One access VLAN.                                                        *)
(***************************************************************************)
\* If what is untagged is removed or the new one is the same, one is left.
LEMMA SetMemberKeepsOne ==
  ASSUME InterfaceTypeOK, OneAccessVlan,
         NEW i \in SwPort, NEW gone, NEW tagged, NEW untagged,
         SetMember(i, gone, tagged, untagged),
         \A v, w \in untagged \cap Vlan : v = w,
         untagged \cap Vlan = {} \/ Untagged(i) \subseteq gone \cup untagged \cup tagged
  PROVE  OneAccessVlan'
<1> SUFFICES ASSUME NEW j \in SwPort, NEW v \in Vlan, NEW w \in Vlan,
                    member'[<<v, j>>] = "untagged", member'[<<w, j>>] = "untagged"
             PROVE  v = w
  BY DEF OneAccessVlan, Untagged
<1>1. \A u \in Vlan, k \in SwPort : member'[<<u, k>>] =
        CASE k # i -> member[<<u, k>>]
          [] k = i /\ u \in tagged -> "tagged"
          [] k = i /\ u \in untagged \ tagged -> "untagged"
          [] k = i /\ u \in gone \ (tagged \cup untagged) -> "none"
          [] OTHER -> member[<<u, k>>]
  BY DEF SetMember
<1>2. CASE j # i
  BY <1>1, <1>2 DEF OneAccessVlan, Untagged
<1>3. CASE j = i
  <2>1. \A u \in Vlan : member'[<<u, i>>] = "untagged" =>
          u \notin tagged /\ (u \in untagged \/ (u \notin gone /\ u \in Untagged(i)))
    BY <1>1 DEF Untagged
  <2>2. QED
    BY <1>3, <2>1 DEF OneAccessVlan, Untagged
<1>4. QED
  BY <1>2, <1>3

LEMMA OneAccessVlanNext ==
  InterfaceTypeOK /\ OneAccessVlan /\ [Next]_vars => OneAccessVlan'
<1> SUFFICES ASSUME InterfaceTypeOK, OneAccessVlan, [Next]_vars PROVE OneAccessVlan'
  OBVIOUS
<1>1. \A i \in SwPort : \A old \in AccessVlan(i) :
        Untagged(i) \subseteq {old} /\ (old = Unset => Untagged(i) = {})
  BY InterfaceAssumption DEF AccessVlan, OneAccessVlan, Untagged
<1>2. ASSUME NEW i \in SwPort, NEW access \in AccessOf, NEW trunks \in TrunksOf,
             AddSwitchedVlan(i, access, trunks)
      PROVE  OneAccessVlan'
  <2> DEFINE gone(old) == IF access \in {Unset, old} THEN {} ELSE {old}
             untagged(old) == IF access = old THEN {} ELSE {access} \cap vlan
  <2>1. PICK old \in AccessVlan(i) :
          SetMember(i, gone(old), trunks \cap vlan, untagged(old))
    BY <1>2 DEF AddSwitchedVlan
  <2>2. \/ untagged(old) \cap Vlan = {}
        \/ Untagged(i) \subseteq gone(old) \cup untagged(old) \cup (trunks \cap vlan)
    BY <1>1, <2>1, InterfaceAssumption
  <2>3. \A v, w \in untagged(old) \cap Vlan : v = w
    OBVIOUS
  <2>4. QED
    BY <2>1, <2>2, <2>3, SetMemberKeepsOne
<1>3. ASSUME NEW i \in SwPort, NEW access \in AccessOf, NEW trunks \in TrunksOf,
             NEW at \in {"config", "access-vlan", "trunk-vlans"},
             ReplaceSwitchedVlan(i, at, access, trunks)
      PROVE  OneAccessVlan'
  <2> DEFINE was == IF at = "access-vlan" THEN {} ELSE Tagged(i)
             gone(old) == ({old} \ {access}) \cup (was \ trunks)
             tagged == ((trunks \ was) \cap vlan) \ {access}
             untagged(old) == ({access} \cap vlan) \ {old}
  <2>1. PICK old \in (IF at = "trunk-vlans" THEN {Unset} ELSE AccessVlan(i)) :
          SetMember(i, gone(old), tagged, untagged(old))
    BY <1>3 DEF ReplaceSwitchedVlan
  <2>2. at = "trunk-vlans" => access = Unset
    BY <1>3 DEF ReplaceSwitchedVlan, Given
  <2>3. at # "trunk-vlans" => Untagged(i) \subseteq {old}
    BY <1>1, <2>1
  <2>4. \/ untagged(old) \cap Vlan = {}
        \/ Untagged(i) \subseteq gone(old) \cup untagged(old) \cup tagged
    BY <2>2, <2>3, InterfaceAssumption
  <2>5. \A v, w \in untagged(old) \cap Vlan : v = w
    OBVIOUS
  <2>6. QED
    BY <2>1, <2>4, <2>5, SetMemberKeepsOne
<1>4. ASSUME NEW i \in SwPort, NEW gone, SetMember(i, gone, {}, {})
      PROVE  OneAccessVlan'
  BY <1>4, SetMemberKeepsOne
<1>5. CASE SwitchedVlanRequest
  BY <1>2, <1>3, <1>4, <1>5
     DEF SwitchedVlanRequest, DeleteSwitchedVlan, DeleteTrunkVlans,
         DeleteAccessVlan, DeleteTrunkVlan
<1>6. ASSUME NEW v \in Vlan, DeleteVlan(v) PROVE OneAccessVlan'
  BY <1>6 DEF DeleteVlan, OneAccessVlan, Untagged
<1>7. CASE UNCHANGED member
  BY <1>7 DEF OneAccessVlan, Untagged
<1>8. ASSUME AddressRequest PROVE UNCHANGED member
  BY <1>8
     DEF AddressRequest, AddSubinterfaceAddresses, AddRoutedVlanAddresses,
         DeleteSubinterfaceAddresses, DeleteRoutedVlanAddresses, AddAddresses,
         DeleteAddresses, EnableIPv6, DisableIPv6, switchedVars
<1>9. QED
  BY <1>5, <1>6, <1>7, <1>8
     DEF Next, DeleteInterface, vars, CreateVlan, CreateLag, DeleteLag, JoinLag, LeaveLag, switchedVars

\* No port ever has two access VLANs.
THEOREM OneAccessVlanAlways == Spec => []OneAccessVlan
<1>1. Init => OneAccessVlan
  BY DEF Init, OneAccessVlan, Untagged
<1>2. QED
  BY <1>1, OneAccessVlanNext, InterfaceTypeCorrect, PTL DEF Spec

(***************************************************************************)
(* Rows and the rows they belong to.                                       *)
(***************************************************************************)
MembersBelong ==
  \A v \in Vlan, i \in SwPort : member[<<v, i>>] # "none" => v \in vlan /\ Exists(i)
LagMembersBelong == \A m \in lagMember : m[1] \in lag
L3RowsBelong ==
  \A i \in Intf : (addr[i] # {} => l3[i] # {}) /\ (l3[i] # {} => Exists(i))

LEMMA RowsBelongParts ==
  InterfaceTypeOK =>
    (RowsBelong <=> MembersBelong /\ LagMembersBelong /\ L3RowsBelong)
BY DEF RowsBelong, MembersBelong, LagMembersBelong, L3RowsBelong, InterfaceTypeOK

\* What a request on switched-vlan sets are members of VLANs that exist.
LEMMA SetMemberBelongs ==
  ASSUME MembersBelong, NEW i \in SwPort, Exists(i),
         NEW gone, NEW tagged, NEW untagged,
         tagged \subseteq vlan, untagged \subseteq vlan,
         SetMember(i, gone, tagged, untagged)
  PROVE  MembersBelong'
<1> SUFFICES ASSUME NEW v \in Vlan, NEW k \in SwPort, member'[<<v, k>>] # "none"
             PROVE  v \in vlan' /\ Exists(k)'
  BY DEF MembersBelong
<1>1. UNCHANGED <<vlan, lag>>
  BY DEF SetMember
<1>2. member'[<<v, k>>] =
        CASE k # i -> member[<<v, k>>]
          [] k = i /\ v \in tagged -> "tagged"
          [] k = i /\ v \in untagged \ tagged -> "untagged"
          [] k = i /\ v \in gone \ (tagged \cup untagged) -> "none"
          [] OTHER -> member[<<v, k>>]
  BY DEF SetMember
<1>3. v \in vlan /\ Exists(k)
  BY <1>2 DEF MembersBelong
<1>4. QED
  BY <1>1, <1>3 DEF Exists

LEMMA SwitchedVlanBelongs ==
  ASSUME MembersBelong, SwitchedVlanRequest
  PROVE  MembersBelong'
<1>1. ASSUME NEW i \in SwPort, NEW access, NEW trunks, AddSwitchedVlan(i, access, trunks)
      PROVE  MembersBelong'
  <2>1. PICK old \in AccessVlan(i) :
          SetMember(i, IF access \in {Unset, old} THEN {} ELSE {old}, trunks \cap vlan,
                    IF access = old THEN {} ELSE {access} \cap vlan)
    BY <1>1 DEF AddSwitchedVlan
  <2>2. QED
    BY <1>1, <2>1, SetMemberBelongs DEF AddSwitchedVlan
<1>2. ASSUME NEW i \in SwPort, NEW access, NEW trunks, NEW at,
             ReplaceSwitchedVlan(i, at, access, trunks)
      PROVE  MembersBelong'
  <2> DEFINE was == IF at = "access-vlan" THEN {} ELSE Tagged(i)
  <2>1. PICK old : SetMember(i, ({old} \ {access}) \cup (was \ trunks),
                             ((trunks \ was) \cap vlan) \ {access},
                             ({access} \cap vlan) \ {old})
    BY <1>2 DEF ReplaceSwitchedVlan
  <2> HIDE DEF was
  <2>2. QED
    BY <1>2, <2>1, SetMemberBelongs DEF ReplaceSwitchedVlan
<1>3. ASSUME NEW i \in SwPort, NEW gone, Exists(i), SetMember(i, gone, {}, {})
      PROVE  MembersBelong'
  BY <1>3, SetMemberBelongs
<1>4. QED
  BY <1>1, <1>2, <1>3
     DEF SwitchedVlanRequest, DeleteSwitchedVlan, DeleteTrunkVlans,
         DeleteAccessVlan, DeleteTrunkVlan

LEMMA AddressesBelong ==
  ASSUME InterfaceTypeOK, L3RowsBelong, AddressRequest
  PROVE  L3RowsBelong'
<1> USE DEF InterfaceTypeOK, L3RowsBelong, Exists, switchedVars
<1>1. ASSUME NEW i \in Intf, Exists(i), NEW A, AddAddresses(i, A)
      PROVE  L3RowsBelong'
  BY <1>1 DEF AddAddresses
<1>2. ASSUME NEW i \in Intf, NEW gone, NEW base, base => OnlyNullLeft(i, gone),
             DeleteAddresses(i, gone, base)
      PROVE  L3RowsBelong'
  BY <1>2 DEF DeleteAddresses, OnlyNullLeft
<1>3. ASSUME NEW i \in Intf, EnableIPv6(i)
      PROVE  L3RowsBelong'
  BY <1>3 DEF EnableIPv6
<1>4. ASSUME NEW i \in Intf, DisableIPv6(i)
      PROVE  L3RowsBelong'
  BY <1>4 DEF DisableIPv6
<1>5. QED
  BY <1>1, <1>2, <1>3, <1>4
     DEF AddressRequest, AddSubinterfaceAddresses, AddRoutedVlanAddresses,
         DeleteSubinterfaceAddresses, DeleteRoutedVlanAddresses

LEMMA RowsBelongNext ==
  InterfaceTypeOK /\ RowsBelong /\ [Next]_vars => RowsBelong'
<1> SUFFICES ASSUME InterfaceTypeOK, MembersBelong, LagMembersBelong, L3RowsBelong,
                    [Next]_vars
             PROVE  MembersBelong' /\ LagMembersBelong' /\ L3RowsBelong'
  BY RowsBelongParts, TypeNext, PTL
<1> USE DEF switchedVars, routedVars
<1>1. CASE SwitchedVlanRequest
  <2>1. MembersBelong'
    BY <1>1, SwitchedVlanBelongs
  <2>2. UNCHANGED <<vlan, lag, lagMember, l3, addr>>
    BY <1>1, SwitchedVlanSets DEF SetMember
  <2>3. QED
    BY <2>1, <2>2 DEF LagMembersBelong, L3RowsBelong, Exists
<1>2. CASE AddressRequest
  <2>1. L3RowsBelong'
    BY <1>2, AddressesBelong
  <2>2. UNCHANGED switchedVars
    BY <1>2
       DEF AddressRequest, AddSubinterfaceAddresses, AddRoutedVlanAddresses,
           DeleteSubinterfaceAddresses, DeleteRoutedVlanAddresses, AddAddresses,
           DeleteAddresses, EnableIPv6, DisableIPv6
  <2>3. QED
    BY <2>1, <2>2 DEF LagMembersBelong, MembersBelong, Exists
<1> USE DEF MembersBelong, LagMembersBelong, L3RowsBelong, Exists
<1>3. ASSUME NEW v \in Vlan, CreateVlan(v)
      PROVE  MembersBelong' /\ LagMembersBelong' /\ L3RowsBelong'
  BY <1>3 DEF CreateVlan
<1>4. ASSUME NEW v \in Vlan, DeleteVlan(v)
      PROVE  MembersBelong' /\ LagMembersBelong' /\ L3RowsBelong'
  <2>1. MembersBelong'
    BY <1>4, InterfaceAssumption DEF DeleteVlan
  <2>2. L3RowsBelong'
    BY <1>4 DEF DeleteVlan, ForgetL3, InterfaceTypeOK
  <2>3. QED
    BY <1>4, <2>1, <2>2 DEF DeleteVlan
<1>5. ASSUME NEW p \in PortChannel, CreateLag(p)
      PROVE  MembersBelong' /\ LagMembersBelong' /\ L3RowsBelong'
  BY <1>5 DEF CreateLag
<1>6. ASSUME NEW p \in PortChannel, DeleteLag(p)
      PROVE  MembersBelong' /\ LagMembersBelong' /\ L3RowsBelong'
  <2>1. MembersBelong'
    BY <1>6 DEF DeleteLag
  <2>2. L3RowsBelong'
    BY <1>6 DEF DeleteLag, ForgetL3, InterfaceTypeOK
  <2>3. QED
    BY <1>6, <2>1, <2>2 DEF DeleteLag
<1>7. ASSUME NEW e \in Ethernet, NEW p \in PortChannel, JoinLag(e, p)
      PROVE  MembersBelong' /\ LagMembersBelong' /\ L3RowsBelong'
  BY <1>7 DEF JoinLag
<1>8. ASSUME NEW e \in Ethernet, LeaveLag(e)
      PROVE  MembersBelong' /\ LagMembersBelong' /\ L3RowsBelong'
  BY <1>8 DEF LeaveLag
<1>9. CASE UNCHANGED vars
  BY <1>9 DEF vars
<1>10. QED
  BY <1>1, <1>2, <1>3, <1>4, <1>5, <1>6, <1>7, <1>8, <1>9 DEF Next, DeleteInterface

\* No row ever outlives the row it belongs to.
THEOREM RowsBelongAlways == Spec => []RowsBelong
<1>1. Init => RowsBelong
  BY DEF Init, RowsBelong
<1>2. QED
  BY <1>1, RowsBelongNext, InterfaceTypeCorrect, PTL DEF Spec

(***************************************************************************)
(* Overlapping addresses.                                                  *)
(***************************************************************************)
OverlapInv == OverlapOnlyTogether /\ AloneAreThere

\* An address that comes alone is checked.
LEMMA AddAloneChecks ==
  ASSUME NEW i \in Intf, NEW A \in SUBSET Address, NEW a, A = {a}, NoOverlapSeen(i, A)
  PROVE  ~OverlapsOther(i, a)
<1>1. CheckedLast(A) = {a}
  BY DEF CheckedLast, IPv6
<1>2. QED
  BY <1>1 DEF NoOverlapSeen

LEMMA AddKeepsOverlap ==
  ASSUME InterfaceTypeOK, OverlapInv,
         NEW i \in Intf, NEW A \in SUBSET Address, AddAddresses(i, A)
  PROVE  OverlapInv'
<1>1. PICK gone \in Replaced(i, A) :
        /\ addr' = [addr EXCEPT ![i] = (@ \ gone) \cup A]
        /\ alone' = AloneAfter(i, A, gone)
  BY DEF AddAddresses
<1>2. \A j \in Intf : j # i => addr'[j] = addr[j]
  BY <1>1 DEF InterfaceTypeOK
<1>3. addr'[i] = (addr[i] \ gone) \cup A
  BY <1>1 DEF InterfaceTypeOK
<1>4. \A j \in Intf, b \in Address : <<j, b>> \in alone' =>
        \/ <<j, b>> \in alone /\ (j = i => b \notin gone \ A)
        \/ j = i /\ A = {b} /\ ~OverlapsOther(i, b)
  BY <1>1, AddAloneChecks DEF AloneAfter, AddAddresses
<1>5. AloneAreThere'
  BY <1>2, <1>3, <1>4 DEF AloneAreThere, OverlapInv
<1>6. ASSUME NEW j \in Intf, NEW k \in Intf, j # k,
             NEW a \in addr'[j], NEW b \in addr'[k], <<a, b>> \in Overlap,
             <<j, a>> \in alone', <<k, b>> \in alone'
      PROVE  FALSE
  <2>1. a \in Address /\ b \in Address /\ <<b, a>> \in Overlap
    BY <1>6, InterfaceAssumption
  <2>2. CASE <<j, a>> \in alone /\ <<k, b>> \in alone
    BY <1>6, <2>1, <2>2 DEF OverlapInv, OverlapOnlyTogether, AloneAreThere
  <2>3. CASE j = i /\ ~OverlapsOther(i, a)
    BY <1>2, <1>6, <2>1, <2>3 DEF OverlapsOther
  <2>4. CASE k = i /\ ~OverlapsOther(i, b)
    BY <1>2, <1>6, <2>1, <2>4 DEF OverlapsOther
  <2>5. QED
    BY <1>4, <1>6, <2>1, <2>2, <2>3, <2>4
<1>7. OverlapOnlyTogether'
  BY <1>6 DEF OverlapOnlyTogether
<1>8. QED
  BY <1>5, <1>7 DEF OverlapInv

\* Fewer addresses do not overlap more.
LEMMA FewerAddressesKeepOverlap ==
  ASSUME InterfaceTypeOK, OverlapInv,
         NEW i \in Intf, NEW gone,
         addr' = [addr EXCEPT ![i] = @ \ gone], alone' = alone \ ({i} \X gone)
  PROVE  OverlapInv'
<1>1. \A j \in Intf : addr'[j] = IF j = i THEN addr[i] \ gone ELSE addr[j]
  BY DEF InterfaceTypeOK
<1>2. AloneAreThere'
  BY <1>1 DEF AloneAreThere, OverlapInv
<1>3. OverlapOnlyTogether'
  BY <1>1 DEF OverlapOnlyTogether, OverlapInv
<1>4. QED
  BY <1>2, <1>3 DEF OverlapInv

LEMMA OverlapNext == InterfaceTypeOK /\ OverlapInv /\ [Next]_vars => OverlapInv'
<1> SUFFICES ASSUME InterfaceTypeOK, OverlapInv, [Next]_vars PROVE OverlapInv'
  OBVIOUS
<1>1. CASE AddressRequest
  <2>1. ASSUME NEW i \in Intf, NEW A \in Payloads, AddAddresses(i, A)
        PROVE  OverlapInv'
    <3>1. A \in SUBSET Address
      BY InterfaceAssumption DEF Payloads, InterfaceTypeOK
    <3>2. QED
      BY <2>1, <3>1, AddKeepsOverlap
  <2>2. ASSUME NEW i \in Intf, NEW gone, NEW base, DeleteAddresses(i, gone, base)
        PROVE  OverlapInv'
    BY <2>2, FewerAddressesKeepOverlap DEF DeleteAddresses
  <2>3. ASSUME NEW i \in Intf, EnableIPv6(i) \/ DisableIPv6(i)
        PROVE  OverlapInv'
    BY <2>3 DEF EnableIPv6, DisableIPv6, OverlapInv, OverlapOnlyTogether, AloneAreThere
  <2>4. QED
    BY <1>1, <2>1, <2>2, <2>3
       DEF AddressRequest, AddSubinterfaceAddresses, AddRoutedVlanAddresses,
           DeleteSubinterfaceAddresses, DeleteRoutedVlanAddresses
<1>2. ASSUME NEW i \in Intf, ForgetL3(i) PROVE OverlapInv'
  <2>1. addr' = [addr EXCEPT ![i] = @ \ Address]
    BY <1>2 DEF ForgetL3, InterfaceTypeOK
  <2>2. QED
    BY <1>2, <2>1, FewerAddressesKeepOverlap DEF ForgetL3
<1>3. CASE UNCHANGED <<addr, alone>>
  BY <1>3 DEF OverlapInv, OverlapOnlyTogether, AloneAreThere
<1>4. SwitchedVlanRequest => UNCHANGED <<addr, alone>>
  BY SwitchedVlanSets DEF SetMember, routedVars
<1>5. QED
  BY <1>1, <1>2, <1>3, <1>4
     DEF Next, DeleteInterface, vars, CreateVlan, DeleteVlan, CreateLag, DeleteLag, JoinLag, LeaveLag,
         routedVars, Intf, SwPort

\* Addresses that were each checked never overlap between interfaces.
THEOREM OverlapOnlyTogetherAlways == Spec => []OverlapOnlyTogether
<1>1. Init => OverlapInv
  BY DEF Init, OverlapInv, OverlapOnlyTogether, AloneAreThere
<1>2. OverlapInv => OverlapOnlyTogether
  BY DEF OverlapInv
<1>3. QED
  BY <1>1, <1>2, OverlapNext, InterfaceTypeCorrect, PTL DEF Spec

(***************************************************************************)
(* What a GET shows after a request.                                       *)
(***************************************************************************)
\* What a GET shows of the VLANs of an interface, in terms of its members.
ShowsMembers(i) ==
  LET shown == GetSwitchedVlan(i, "config") IN
  /\ shown.access = Untagged(i) /\ shown.trunks = Tagged(i)
  /\ GetSwitchedVlan(i, "access-vlan") = Untagged(i)
  /\ GetSwitchedVlan(i, "trunk-vlans") = Tagged(i)
  /\ GetSwitchedVlan(i, "interface-mode") =
       IF Tagged(i) # {} THEN {"TRUNK"}
       ELSE IF Untagged(i) # {} THEN {"ACCESS"} ELSE {}
  /\ shown.mode = GetSwitchedVlan(i, "interface-mode")

\* ShownLeaf and ShownConfig agree on what the rows say.
LEMMA GetShowsMembers == \A i \in SwPort : ShowsMembers(i)
<1> SUFFICES ASSUME NEW i \in SwPort PROVE ShowsMembers(i)
  OBVIOUS
<1>1. VlansTagged(RowsOf(i), "untagged") = Untagged(i)
  BY DEF VlansTagged, RowsOf, Untagged, Tagged
<1>2. VlansTagged(RowsOf(i), "tagged") = Tagged(i)
  BY DEF VlansTagged, RowsOf, Untagged, Tagged
<1>3. QED
  BY <1>1, <1>2 DEF ShowsMembers, GetSwitchedVlan, ShownLeaf, ShownConfig

\* The members of an interface after a request on its switched-vlan.
LEMMA SetMemberSets ==
  ASSUME NEW i \in SwPort, NEW gone, NEW tagged, NEW untagged,
         SetMember(i, gone, tagged, untagged)
  PROVE  /\ Tagged(i)' = (Tagged(i) \ (gone \cup untagged)) \cup (tagged \cap Vlan)
         /\ Untagged(i)' = ((Untagged(i) \ gone) \cup (untagged \cap Vlan)) \ tagged
<1>1. \A v \in Vlan : member'[<<v, i>>] =
        CASE v \in tagged -> "tagged"
          [] v \in untagged \ tagged -> "untagged"
          [] v \in gone \ (tagged \cup untagged) -> "none"
          [] OTHER -> member[<<v, i>>]
  BY DEF SetMember
<1>2. QED
  BY <1>1 DEF Tagged, Untagged

\* What each request on switched-vlan comes to.  The access VLAN that the code
\* takes is the only one, and every VLAN with a member exists.
LEMMA SwitchedVlanStep ==
  ASSUME InterfaceTypeOK, OneAccessVlan, RowsBelong,
         NEW i \in SwPort, ShowsMembers(i), ShowsMembers(i)',
         NEW access \in AccessOf, NEW trunks \in TrunksOf
  PROVE  SwitchedVlanAsked(i, access, trunks)
<1> DEFINE given == {access} \cap vlan
           exist == trunks \cap vlan
<1>1. \A old \in AccessVlan(i) :
        Untagged(i) \subseteq {old} /\ (old = Unset => Untagged(i) = {})
  BY InterfaceAssumption DEF AccessVlan, OneAccessVlan, Untagged
<1>2. Untagged(i) \subseteq vlan /\ Tagged(i) \subseteq vlan /\ vlan \subseteq Vlan
  BY DEF RowsBelong, Untagged, Tagged, InterfaceTypeOK
<1>3. Untagged(i) \cap Tagged(i) = {}
  BY DEF Untagged, Tagged
<1>4. Unset \notin vlan
  BY <1>2, InterfaceAssumption
<1>5. ASSUME AddSwitchedVlan(i, access, trunks)
      PROVE  /\ Untagged(i)' = (IF access = Unset THEN Untagged(i) ELSE given) \ exist
             /\ Tagged(i)' = (Tagged(i) \cup exist) \ Untagged(i)'
  <2>1. PICK old \in AccessVlan(i) :
          SetMember(i, IF access \in {Unset, old} THEN {} ELSE {old}, exist,
                    IF access = old THEN {} ELSE given)
    BY <1>5 DEF AddSwitchedVlan
  <2>2. /\ Tagged(i)' = (Tagged(i) \ ((IF access \in {Unset, old} THEN {} ELSE {old})
                                        \cup (IF access = old THEN {} ELSE given)))
                        \cup exist
        /\ Untagged(i)' = ((Untagged(i) \ (IF access \in {Unset, old} THEN {} ELSE {old}))
                           \cup (IF access = old THEN {} ELSE given)) \ exist
    BY <1>2, <2>1, SetMemberSets
  <2>3. old \in Untagged(i) \cup {Unset}
    BY <2>1 DEF AccessVlan
  <2>4. QED
    BY <1>1, <1>2, <1>3, <1>4, <2>1, <2>2, <2>3
<1>6. ASSUME ReplaceSwitchedVlan(i, "config", access, trunks)
      PROVE  Untagged(i)' = given /\ Tagged(i)' = exist \ given
  <2>1. PICK old \in AccessVlan(i) :
          SetMember(i, ({old} \ {access}) \cup (Tagged(i) \ trunks),
                    ((trunks \ Tagged(i)) \cap vlan) \ {access}, given \ {old})
    BY <1>6 DEF ReplaceSwitchedVlan
  <2>2. old \in Untagged(i) \cup {Unset}
    BY <2>1 DEF AccessVlan
  <2>3. QED
    BY <1>1, <1>2, <1>3, <1>4, <2>1, <2>2, SetMemberSets
<1>7. ASSUME ReplaceSwitchedVlan(i, "access-vlan", access, trunks)
      PROVE  Untagged(i)' = given /\ Tagged(i)' = Tagged(i) \ given
  <2>1. PICK old \in AccessVlan(i) :
          SetMember(i, ({old} \ {access}) \cup ({} \ trunks),
                    ((trunks \ {}) \cap vlan) \ {access}, given \ {old})
    BY <1>7 DEF ReplaceSwitchedVlan
  <2>2. trunks = {}
    BY <1>7 DEF ReplaceSwitchedVlan, Given
  <2>3. old \in Untagged(i) \cup {Unset}
    BY <2>1 DEF AccessVlan
  <2>4. QED
    BY <1>1, <1>2, <1>3, <1>4, <2>1, <2>2, <2>3, SetMemberSets
<1>8. ASSUME ReplaceSwitchedVlan(i, "trunk-vlans", access, trunks)
      PROVE  Tagged(i)' = exist /\ Untagged(i)' = Untagged(i) \ exist
  <2>1. access = Unset
    BY <1>8 DEF ReplaceSwitchedVlan, Given
  <2>2. SetMember(i, ({Unset} \ {access}) \cup (Tagged(i) \ trunks),
                  ((trunks \ Tagged(i)) \cap vlan) \ {access},
                  ({access} \cap vlan) \ {Unset})
    BY <1>8 DEF ReplaceSwitchedVlan
  <2>3. QED
    BY <1>2, <1>3, <1>4, <2>1, <2>2, SetMemberSets
<1>9. ASSUME DeleteSwitchedVlan(i)
      PROVE  Untagged(i)' = {} /\ Tagged(i)' = {}
  <2>1. PICK old \in AccessVlan(i) : SetMember(i, Tagged(i) \cup {old}, {}, {})
    BY <1>9 DEF DeleteSwitchedVlan
  <2>2. QED
    BY <1>1, <2>1, SetMemberSets
<1>10. ASSUME DeleteTrunkVlans(i) \/ DeleteTrunkVlan(i, trunks)
       PROVE  Untagged(i)' = Untagged(i) /\ Tagged(i)' \subseteq Tagged(i)
  <2>1. PICK gone \in SUBSET Tagged(i) : SetMember(i, gone, {}, {})
    BY <1>10 DEF DeleteTrunkVlans, DeleteTrunkVlan
  <2>2. /\ Tagged(i)' = (Tagged(i) \ (gone \cup {})) \cup ({} \cap Vlan)
        /\ Untagged(i)' = ((Untagged(i) \ gone) \cup ({} \cap Vlan)) \ {}
    BY <2>1, SetMemberSets
  <2>3. QED
    BY <1>3, <2>2
<1>11. QED
  BY <1>5, <1>6, <1>7, <1>8, <1>9, <1>10 DEF SwitchedVlanAsked, ShowsMembers

\* A GET of switched-vlan always shows what the request before it asked for.
THEOREM SwitchedVlanIsAskedAlways == Spec => SwitchedVlanIsAsked
<1>1. /\ InterfaceTypeOK /\ OneAccessVlan /\ RowsBelong /\ [Next]_vars
      /\ \A i \in SwPort : ShowsMembers(i)
      /\ (\A i \in SwPort : ShowsMembers(i))'
      => [\A i \in SwPort \cap scope.intfs, access \in AccessOf, trunks \in TrunksOf :
            SwitchedVlanAsked(i, access, trunks)]_vars
  BY SwitchedVlanStep
<1>2. QED
  BY <1>1, InterfaceTypeCorrect, OneAccessVlanAlways, RowsBelongAlways,
     GetShowsMembers, PTL DEF Spec, SwitchedVlanIsAsked
\* One address at most makes room for the new ones.
LEMMA AddAddressesStep ==
  ASSUME InterfaceTypeOK, NEW i \in Intf, NEW A \in SUBSET Address, AddAddresses(i, A)
  PROVE  /\ {IpOf[a] : a \in A} \subseteq ShownIps(i)'
         /\ Cardinality(addr[i] \ addr'[i]) <= 1
         /\ addr[i] \ addr'[i] # {} =>
              /\ addr[i] \ addr'[i] \subseteq IPv4(Address)
              /\ IPv4(A) \ addr[i] # {}
<1>1. PICK gone \in Replaced(i, A) : addr' = [addr EXCEPT ![i] = (@ \ gone) \cup A]
  BY DEF AddAddresses
<1>2. addr'[i] = (addr[i] \ gone) \cup A /\ addr[i] \subseteq Address
  BY <1>1 DEF InterfaceTypeOK
<1>3. {IpOf[a] : a \in A} \subseteq ShownIps(i)'
  BY <1>2 DEF ShownIps
<1>4. CASE gone = {}
  <2>1. addr[i] \ addr'[i] = {}
    BY <1>2, <1>4
  <2>2. QED
    BY <1>3, <2>1, FS_EmptySet
<1>5. CASE gone # {}
  <2>1. /\ ~(IPv4(A) \subseteq addr[i])
        /\ \E old \in IPv4(addr[i]) : gone = {old}
    BY <1>1, <1>5 DEF Replaced
  <2>2. PICK old \in IPv4(addr[i]) : gone = {old}
    BY <2>1
  <2>3. addr[i] \ addr'[i] = {} \/ addr[i] \ addr'[i] = {old}
    BY <1>2, <2>2
  <2>4. Cardinality(addr[i] \ addr'[i]) <= 1
    <3>1. Cardinality({}) = 0
      BY FS_EmptySet
    <3>2. Cardinality({old}) = 1
      BY FS_Singleton
    <3>3. QED
      BY <2>3, <3>1, <3>2
  <2>5. {old} \subseteq IPv4(Address)
    BY <1>2, <2>2 DEF IPv4
  <2>6. QED
    BY <1>3, <2>1, <2>3, <2>4, <2>5
<1>6. QED
  BY <1>4, <1>5

\* The base row goes with the last address or says something else.
LEMMA DeleteAddressesStep ==
  ASSUME InterfaceTypeOK, RowsBelong, NEW i \in Intf, NEW gone \in Named(i),
         NEW base \in BOOLEAN, DeleteAddresses(i, gone, base),
         addr[i] # {} => (base <=> OnlyNullLeft(i, gone))
  PROVE  /\ ShownIps(i)' = ShownIps(i) \ {IpOf[a] : a \in gone}
         /\ addr[i] # {} /\ addr'[i] = {} => l3'[i] = {} \/ LinkLocal \in l3'[i]
<1>1. /\ addr'[i] = addr[i] \ gone
      /\ l3'[i] = IF base THEN {} ELSE l3[i]
  BY DEF DeleteAddresses, InterfaceTypeOK
<1>2. gone \subseteq addr[i]
  BY DEF Named, IPv4, IPv6
<1>3. ShownIps(i)' = ShownIps(i) \ {IpOf[a] : a \in gone}
  <2>1. ASSUME NEW a \in addr[i], NEW b \in gone, IpOf[a] = IpOf[b]
        PROVE  a \in gone
    <3>1. a \in Address /\ b \in Address
      BY <1>2 DEF InterfaceTypeOK
    <3>2. FamilyOf[a] = FamilyOf[b]
      BY <2>1, <3>1, InterfaceAssumption
    <3>3. QED
      BY <1>2, <2>1, <3>2 DEF Named, IPv4, IPv6
  <2>2. QED
    BY <1>1, <1>2, <2>1 DEF ShownIps
<1>4. ASSUME addr[i] # {}, addr'[i] = {}, l3'[i] # {}
      PROVE  LinkLocal \in l3'[i]
  <2>1. l3[i] # {"NULL"} /\ l3'[i] = l3[i]
    BY <1>1, <1>4 DEF OnlyNullLeft
  <2>2. l3[i] \subseteq L3Field
    BY DEF InterfaceTypeOK
  <2>3. QED
    BY <1>4, <2>1, <2>2 DEF L3Field, LinkLocal
<1>5. QED
  BY <1>3, <1>4

\* What the requests for addresses come to, for both kinds of interfaces.
LEMMA AddressesStep ==
  ASSUME InterfaceTypeOK, RowsBelong, NEW i \in Intf
  PROVE  /\ \A A \in Payloads : AddedAreAsked(i, A)
         /\ \A gone \in Named(i) : DeletedAreAsked(i, gone)
<1>1. ASSUME NEW A \in Payloads
      PROVE  AddedAreAsked(i, A)
  <2>1. A \in SUBSET Address
    BY InterfaceAssumption DEF Payloads, InterfaceTypeOK
  <2>2. QED
    BY <2>1, AddAddressesStep
       DEF AddedAreAsked, AddSubinterfaceAddresses, AddRoutedVlanAddresses
<1>2. ASSUME NEW gone \in Named(i)
      PROVE  DeletedAreAsked(i, gone)
  <2>1. OnlyNullLeft(i, gone) \in BOOLEAN
    BY DEF OnlyNullLeft
  <2>2. addr[i] # {} /\ OnlyNullLeft(i, gone) => gone # {}
    BY DEF OnlyNullLeft
  <2>3. CASE DeleteSubinterfaceAddresses(i, gone)
    <3>1. DeleteAddresses(i, gone, gone # {} /\ OnlyNullLeft(i, gone))
      BY <2>3 DEF DeleteSubinterfaceAddresses
    <3>2. QED
      BY <2>1, <2>2, <3>1, DeleteAddressesStep DEF DeletedAreAsked
  <2>4. CASE DeleteRoutedVlanAddresses(i, gone)
    <3>1. DeleteAddresses(i, gone, OnlyNullLeft(i, gone))
      BY <2>4 DEF DeleteRoutedVlanAddresses
    <3>2. QED
      BY <2>1, <3>1, DeleteAddressesStep DEF DeletedAreAsked
  <2>5. QED
    BY <2>3, <2>4 DEF DeletedAreAsked
<1>3. QED
  BY <1>1, <1>2

\* A GET of the addresses always shows what the request before it asked for.
THEOREM AddressesAreAskedAlways == Spec => AddressesAreAsked
<1>1. InterfaceTypeOK /\ RowsBelong /\ [Next]_vars
      => [\A i \in Intf \cap scope.intfs :
            /\ \A A \in Payloads : AddedAreAsked(i, A)
            /\ \A gone \in Named(i) : DeletedAreAsked(i, gone)]_vars
  BY AddressesStep
<1>2. QED
  BY <1>1, InterfaceTypeCorrect, RowsBelongAlways, PTL DEF Spec, AddressesAreAsked
=============================================================================
