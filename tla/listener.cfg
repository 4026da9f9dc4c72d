\* Both listeners, with and without a dual-stack system; two clients over IPv4
\* and one over IPv6, three exceptions.
SPECIFICATION ListenerFairSpec
CONSTANTS
  Clients4 = {c1, c2}
  Clients6 = {c3}
  NoClient = NoClient
  MaxFaults = 3
INVARIANTS
  OneContinuation
PROPERTIES
  ClientsAreServed
CHECK_DEADLOCK FALSE
