\* One connection, from its handshake to its end: two requests, a header of two
\* bytes and messages of at most four, one exception.
SPECIFICATION FairSpec
CONSTANTS
  HeaderLen = 2
  MaxMessageLen = 4
  MaxRequests = 2
  MaxFaults = 1
INVARIANTS
  BufferUsedOnce
  SocketHasOneOwner
  NeverAbandoned
PROPERTIES
  ConnectionEnds
  ImplementsReplies
CHECK_DEADLOCK FALSE
