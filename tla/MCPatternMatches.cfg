CONSTANTS
  p1 = p1
  p2 = p2
  Patterns = {p1, p2}
  MaxOffset = 2
  Matches <- MCMatches
  Bounds <- MCBounds
  Limits = {1, 3}
  InitialCapacity = 1
  CapacityThreshold = 3
SPECIFICATION Spec
INVARIANTS AllSorted CapacityIsSum RangeCountIsExact
PROPERTIES ListsGrowToTheLimit MatchesOnlyGrow ImplementsOffsetMap
