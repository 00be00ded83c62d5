SPECIFICATION ServiceSpec
CONSTANTS
  s1 = s1
  s2 = s2
  h1 = h1
  h2 = h2
  Streams <- TwoStreams
  Handles <- TwoHandles
  MaxRefs = 3
  MaxCalls = 6
  b1 = b1
  b2 = b2
  Null = Null
  Ids <- TwoIds
  Blocks <- TwoBlocks
  MaxRegister = 4
  MaxMetrics = 1
  Strings <- ThreeStrings
  Taglists <- FiveTaglists
  MaxRegistered = 2
  Width = 16
  Values <- Quarters
  Scale = 4
  Large = 100
  Buckets <- NoneToThree
  MaxSamples = 3
INVARIANT
  IgnoredIsDestroyed
CHECK_DEADLOCK FALSE
