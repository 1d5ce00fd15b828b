SPECIFICATION Spec
CONSTANTS
  Servers <- TwoServers
  NProviders = 2
  Has <- SomeHas
  Names <- SomeNames
  Clients = {"c1"}
  MaxSearches = 1
INVARIANTS NoForwardingLoop RepliesTruthful FirstHandRepliesReachAsker
CHECK_DEADLOCK FALSE
