CONSTANTS
  Table <- MCTable
  ModuleOf <- MCModuleOf
  Row <- MCRow
  Field = {"ports", "stage", "policy", "prio", "redirect"}
  LeafList = {"ports"}
  Atom = {"p1", "p2", "ingress", "egress", "l3", "1", "2", "3"}
  NullField = "NULL"
  DefaultsOf <- MCDefaultsOf
  Mandatory <- MCMandatory
  MaxElements <- MCMaxElements
  LeafRef <- MCLeafRef
  Process = {"rest", "gnmi"}
  None = None
  Batches <- MCBatches
  Databases <- MCDatabases
  MaxBatches = 1
SPECIFICATION Spec
PROPERTIES ReferencesHold
CHECK_DEADLOCK FALSE
