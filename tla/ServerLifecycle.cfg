SPECIFICATION FairSpec
CONSTANTS
  Conns = {c1, c2}
  MaxHandlers = 1
  MaxWatches = 1
  Search = TRUE
INVARIANTS OnlyWatchesLeft ClosedForCause
PROPERTIES  FailureReleases EofReleasesHandlers
CHECK_DEADLOCK FALSE
