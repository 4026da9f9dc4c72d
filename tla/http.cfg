\* One session with a queue of two, four requests, one of which may throw.
SPECIFICATION FairSpec
CONSTANTS
  Limit = 2
  MaxRequests = 4
  MaxThrows = 1
INVARIANTS
  NeverStuckNorTwice
PROPERTIES
  SessionShutsDown
  SessionFreed
  ImplementsReplies
CHECK_DEADLOCK FALSE
