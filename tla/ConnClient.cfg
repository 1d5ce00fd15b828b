SPECIFICATION ClientFairSpec
CONSTANTS
  ChannelIDs = {c1}
  RequestIDs = {r1}
  Tasks = {t1, t2, t3}
  None = None
  Kinds = {"get", "rpc"}
INVARIANTS RequestsFound TablesAgree RefusalWindow
PROPERTIES EveryMessageServed CancelledRunRecovers
CHECK_DEADLOCK FALSE
