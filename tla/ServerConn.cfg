SPECIFICATION Spec
CONSTANTS
  ChannelIDs = {c1}
  RequestIDs = {r1}
  Tasks = {t1, t2, t3}
  None = None
  Kinds = {"get", "rpc", "monitor"}
SYMMETRY TaskSymmetry
INVARIANTS ExclusiveExecution BusyHasRunner CancelReachesRunner
PROPERTIES EvictedOnlyByStaleFinish
CHECK_DEADLOCK FALSE
