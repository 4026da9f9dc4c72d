\* Two names that can be confused and one that cannot; one starting item.
SPECIFICATION Spec
CONSTANTS
  ann = ann  a_n = a_n  bob = bob
  Names <- ThreeNames
  Alike <- Wildcard
  Unknown = Unknown
  Items = {drink, shoes}
  Gift = 3
  Requests = {q1, q2}
  MaxMoves = 2
INVARIANTS ItemsAccounted NothingLost EquippedUnlessBroken
CHECK_DEADLOCK FALSE
