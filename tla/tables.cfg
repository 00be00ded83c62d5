SPECIFICATION TablesSpec
CONSTANTS
  n1 = n1
  n2 = n2
  n3 = n3
  b1 = b1
  b2 = b2
  b3 = b3
  Null = Null
  Names <- ThreeNames
  Ops <- SumOnly
  Blocks <- ThreeBlocks
  Sizes <- AllSizes
  MaxCreates = 4
  MaxSamples = 1
  e1 = e1
  e2 = e2
  e3 = e3
  e4 = e4
  e5 = e5
  e6 = e6
  Elements = {e1, e2, e3, e4, e5, e6}
  NoElem = NoElem
  Key <- FiveKeys
  Hash <- KeyHash
  Rank <- TwoRanks
  Initial = 1
  Threshold = 1
  MaxBuckets = 32
SYMMETRY Symmetry
INVARIANTS
  RegistryInv
  ListingReal
  Fsck
  FindsWhatIterates
  ChainsBounded
PROPERTY
  ImplementsOrderedTable
CHECK_DEADLOCK FALSE
