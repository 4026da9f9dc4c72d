SPECIFICATION FairSpec
CONSTANTS
  j1 = j1
  j2 = j2
  Jobs <- TwoJobs
  PortMin = 10
  PortMax = 11
  CopyGame = FALSE
PROPERTIES PortComesBack RemovedIsRanked
CHECK_DEADLOCK FALSE
