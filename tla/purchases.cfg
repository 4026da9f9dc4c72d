SPECIFICATION FairSpec
CONSTANTS
  a = a
  b = b
  t1 = t1
  t2 = t2
  Nothing = Nothing
  Items <- TwoItems
  Threads <- TwoThreads
  Stock = 1
  MaxFaults = 3
  Idempotent = TRUE
INVARIANTS DeliveredIsCharged PendingIsWatched
PROPERTIES PendingIsSettled ImplementsSale
CHECK_DEADLOCK FALSE
