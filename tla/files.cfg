\* A connection that asks either server for blocks of two files.
SPECIFICATION FilesSpec
CONSTANTS
  p1 = p1  p2 = p2
  Ids = {1, 2}
  Paths = {p1, p2}
  PathOf <- MCPathOf
  Full <- MCFull
  MaxBlock = 2
INVARIANTS
  FilesTypeOK
  DataIsOfFile
