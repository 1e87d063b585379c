---------------------------- MODULE MCInterfaces ----------------------------
\* Two Ethernet interfaces, two port channels, three VLANs; addresses of which
\* two have the same ip, two networks overlap, and one is IPv6.  Each behaviour
\* is about some of the interfaces and some kinds of requests.
EXTENDS Interfaces, TLC

MCFamilyOf ==
  [a \in Address |-> IF a = "fc00::1/64" THEN "IPv6" ELSE "IPv4"]
MCIpOf ==
  [a \in Address |-> IF a \in {"10.0.0.1/24", "10.0.0.1/16"} THEN "10.0.0.1" ELSE a]
InNetwork == {"10.0.0.1/24", "10.0.0.1/16"}
MCOverlap == {<<a, a>> : a \in Address} \cup InNetwork \X InNetwork

Of(intfs, addresses, kinds) ==
  [intfs |-> intfs, addresses |-> addresses, kinds |-> kinds]
MCScopes == {
  Of({"Ethernet0"} \cup Vlan, {}, {"switched"}),
  Of({"Ethernet0", "PortChannel1", "Vlan10", "Vlan20"}, {}, {"switched"}),
  Of(Ethernet \cup PortChannel, {}, {"bundled"}),
  Of({"Ethernet0", "PortChannel1"}, Address, {"routed"}),
  Of({"Ethernet0", "Vlan10"}, Address \ {"20.0.0.1/24"}, {"routed"}),
  Of({"Ethernet0", "PortChannel1", "Vlan10"}, {"10.0.0.1/24"},
     {"switched", "bundled", "routed"})}
=============================================================================
