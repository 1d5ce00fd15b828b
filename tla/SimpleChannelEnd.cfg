SPECIFICATION FairSpec
CONSTANTS
  Watches = {w1}
  Free = Free
  MaxSets = 1
PROPERTIES EndedContextStopsWatch
CHECK_DEADLOCK FALSE
