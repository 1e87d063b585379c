CONSTANTS
  Key = {"k1"}
  Field = {"f", "g"}
  Val = {1, 2}
  Leaf = {"a", "b", "c"}
  Info = {"table", "byField", "state"}
  DbNo = {"configDB", "applDB"}
  None = None
  DbOf <- MCDbOf
  Matching <- MCMatching
  LeavesOf <- MCLeavesOf
  KeyFieldOf <- MCKeyFieldOf
  FlagsOf <- MCFlagsOf
  Written <- MCWritten
  MaxWrites = 2
  MaxChannel = 3
  MaxLost = 1
SPECIFICATION FairSpec
INVARIANTS Converged CacheIsClientView TerminatedOnce
PROPERTIES SilentAfterCleanup CleanedUp Drained
