SPECIFICATION BufferSpec
CONSTANTS
  u1 = u1
  u2 = u2
  u3 = u3
  NoUlt = NoUlt
  Ults <- TwoUlts
  Vals <- OrderVals
  Diffs <- SmallDiffs
  BufferSize = 2
INVARIANTS
  CounterMonotone
CHECK_DEADLOCK FALSE
