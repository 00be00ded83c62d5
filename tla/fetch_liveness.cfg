SPECIFICATION FairFetchSpec
CONSTANTS
  u1 = u1
  u2 = u2
  k1 = k1
  k2 = k2
  NoUlt = NoUlt
  Ults <- OneUlt
  Vals <- TwoVals
  Diffs <- NoDiffs
  BufferSize = 3
  Calls <- OneCall
  Requests <- AllRequests
  Junk <- JunkCounts
  Faults <- AllFaults
  Fused = FALSE
PROPERTIES
  FetchReturns
CHECK_DEADLOCK FALSE
