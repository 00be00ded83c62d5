SPECIFICATION WalkSpec
CONSTANTS
  u1 = u1
  u2 = u2
  n1 = n1
  n2 = n2
  n3 = n3
  b1 = b1
  b2 = b2
  b3 = b3
  Null = Null
  Nobody = Nobody
  None = None
  Ults <- OneUlt
  Names <- ThreeNames
  Ops <- SumOnly
  Blocks <- ThreeBlocks
  Sizes <- NoSizes
  MaxCreates = 4
  MaxSamples = 1
INVARIANTS
  WalkSafe
  WalkComplete
PROPERTY
  ReductionReturns
CHECK_DEADLOCK FALSE
