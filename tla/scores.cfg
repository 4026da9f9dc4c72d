SPECIFICATION Spec
CONSTANTS
  p1 = p1
  p2 = p2
  c1 = c1
  c2 = c2
  None = None
  Players <- TwoPlayers
  Conns <- TwoConns
  MaxPoint = 1
  MaxTime = 1
  RealTime = TRUE
SYMMETRY Symmetry
CONSTRAINT FewOverlaps
INVARIANTS RankingMatchesTimes PointsMatchRanks OneRecordUnlessOverlap
           CountsAgree
PROPERTIES PassTimesOnlyImprove
