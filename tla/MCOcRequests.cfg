CONSTANTS
  Node <- MCNode
  Root = "test-xfmr"
  Up <- MCUp
  Kind <- MCKind
  NoTable = "NONE"
  TableMark <- MCTableMark
  OwnerMark <- MCOwnerMark
  KeyName <- MCKeyName
  ListKey <- MCListKey
  FieldMark <- MCFieldMark
  DefaultMark <- MCDefaultMark
  KeyLeaf <- MCKeyLeaf
  RefByKey <- MCRefByKey
  Invalid <- MCInvalid
  FillFields = "FillFields"
  Table <- MCTable
  ModuleOf <- MCModuleOf
  Row <- MCRow
  Field = {"colors", "hold-time", "filter", "metric", "hold-interval", "via", "keepalive", "delay", "auth", "trusted", "key-value", "poll", "key-ref"}
  LeafList = {"colors", "trusted"}
  Atom = {"g1", "g2", "a", "b", "c", "k1", "k2", "s1", "s2", "red", "green", "blue", "10", "20", "30", "5", "6", "7", "1", "2", "on", "u", "v", "e", "f", "transport-host"}
  NullField = "NULL"
  DefaultsOf <- MCDefaultsOf
  Mandatory <- NoMandatory
  MaxElements <- NoLimits
  LeafRef <- MCLeafRef
  Subscribed <- MCSubscribed
  Asked <- MCAsked
  Databases <- MCDatabases
  MaxRequests = 1
SPECIFICATION Spec
PROPERTIES OcDoesWhatIsAsked RefusedForAReason OcReadShowsContents ChangesAreNotified
CHECK_DEADLOCK FALSE
