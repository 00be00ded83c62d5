SPECIFICATION StoreSpec
CONSTANTS
  u1 = u1
  u2 = u2
  n1 = n1
  n2 = n2
  n3 = n3
  b1 = b1
  b2 = b2
  b3 = b3
  Null = Null
  Nobody = Nobody
  None = None
  Ults <- TwoUlts
  Names <- OneName
  Ops <- StoreAndSum
  Blocks <- TwoBlocks
  Sizes <- NoSizes
  MaxCreates = 2
  MaxSamples = 2
INVARIANTS
  ReductionInv
  NotBehindStart
  AbsentOnlyBetween
PROPERTY
  ReductionReturns
CHECK_DEADLOCK FALSE
