SPECIFICATION FetchSpec
CONSTANTS
  u1 = u1
  u2 = u2
  k1 = k1
  k2 = k2
  NoUlt = NoUlt
  Ults <- TwoUlts
  Vals <- TwoVals
  Diffs <- NoDiffs
  BufferSize = 3
  Calls <- OneCall
  Requests <- AllRequests
  Junk <- JunkCounts
  Faults <- AllFaults
  Fused = TRUE
SYMMETRY UltSymmetry
INVARIANTS
  FetchInductive
  FetchLatest
  FetchStamped
  PushIntoRegistered
CHECK_DEADLOCK FALSE
