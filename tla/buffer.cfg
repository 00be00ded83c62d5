SPECIFICATION FairBufferSpec
CONSTANTS
  u1 = u1
  u2 = u2
  u3 = u3
  NoUlt = NoUlt
  Ults <- ThreeUlts
  Vals <- SmallVals
  Diffs <- SmallDiffs
  BufferSize = 3
INVARIANTS
  Inductive
  SoloMonotone
PROPERTIES
  NoStaleCounter
  ImplementsTimeSeries
  UpdateReturns
CHECK_DEADLOCK FALSE
