CONSTANTS
  Ethernet = {"Ethernet0", "Ethernet4"}
  PortChannel = {"PortChannel1", "PortChannel2"}
  Vlan = {"Vlan10", "Vlan20", "Vlan30"}
  Unset = "unset"
  Address = {"10.0.0.1/24", "10.0.0.1/16", "20.0.0.1/24", "fc00::1/64"}
  FamilyOf <- MCFamilyOf
  IpOf <- MCIpOf
  Overlap <- MCOverlap
  Scopes <- MCScopes
SPECIFICATION Spec
INVARIANTS OneAccessVlan RowsBelong OverlapOnlyTogether
PROPERTIES SwitchedVlanIsAsked AddressesAreAsked
