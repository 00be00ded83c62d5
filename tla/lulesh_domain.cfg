SPECIFICATION DomainSpec
CONSTANTS
  RankCounts <- MCRankCounts
  CubeSizes <- MCCubeSizes
  MyRanks <- MCMyRanks
  NumElem = 8
  RegionCounts <- MCRegionCounts
  Balances <- MCBalances
  RunLengths <- MCRunLengths
  Sides <- MCSides
  EdgeSizes <- MCEdgeSizes
INVARIANTS
  MeshInv
  RegionInv
  ExchangeInv
  FieldsAgree
PROPERTIES
  RegionsEnd
