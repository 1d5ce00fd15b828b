SPECIFICATION FairSpec
CONSTANTS
  Requests <- WireRequests
  NFrees = {0}
  MaxValues = 2
  MaxAcked = 0
PROPERTIES NotifiesMonitors
CHECK_DEADLOCK FALSE
