SPECIFICATION Spec
CONSTANTS
  Max8 = 2
  Max32 = 12
  ByteBits = 2
  WordBytes = 2
  IntBits = 24
  Values <- MCValues
  Results <- MCResults
  MaxSets = 1
  MaxSends = 3
INVARIANTS Understood HistoryIndependent BitsFollowDescription ReadBack OptionLookup
CHECK_DEADLOCK FALSE
