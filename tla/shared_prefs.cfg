SPECIFICATION Spec
CONSTANTS
  j1 = j1
  j2 = j2
  Jobs <- TwoJobs
  PortMin = 10
  PortMax = 12
  CopyGame = FALSE
CHECK_DEADLOCK FALSE
INVARIANTS ListensOnOwnPort
