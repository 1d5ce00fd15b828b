SPECIFICATION ClientSpec
CONSTANTS
  ChannelIDs = {c1}
  RequestIDs = {r1}
  Tasks = {t1, t2}
  None = None
  Kinds = {"monitor"}
INVARIANTS NoCrash
CHECK_DEADLOCK FALSE
