SPECIFICATION FairSpec
CONSTANTS
  Watches = {w1, w2}
  Free = Free
  MaxSets = 2
INVARIANTS NoMissedUpdate
PROPERTIES EveryWatchCatchesUp SetReleasesEndedWatch
CHECK_DEADLOCK FALSE
