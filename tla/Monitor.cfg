SPECIFICATION FairSpec
CONSTANTS
  Requests <- AllRequests
  NFrees = {0, 1, 2}
  MaxValues = 3
  MaxAcked = 3
INVARIANTS FlowControl NoStall
PROPERTIES StreamSpec LaterValuesDelivered WatchEnds
CHECK_DEADLOCK FALSE
