\* Two jobs load two releases; a client asks for the latest.
SPECIFICATION Spec
CONSTANTS
  j1 = j1  j2 = j2  p1 = p1  p2 = p2  c1 = c1
  Jobs = {j1, j2}
  Releases = {1, 2}
  Paths = {p1, p2}
  Clients = {c1}
  MaxFileId = 5
  Blocks <- MCBlocks
INVARIANTS
  BlocksAreOfFile AllOrNothing ClientFindsRelease
CHECK_DEADLOCK FALSE
