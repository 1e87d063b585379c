CONSTANTS
  NoKey = NoKey
  RequestPath <- MCRequestPath
  TargetInfos <- MCTargetInfos
  ChildInfos <- MCChildInfos
SPECIFICATION Spec
INVARIANT EachInfoOnce
