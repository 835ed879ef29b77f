SPECIFICATION Spec
CONSTANTS
  Links = 3
  Gap <- ThreeLinks
  Lengths <- ThreeLengths
  MaxMatches = 2
  Blocks = 2
  BlockSize = 4
  MaxFound = 5
CHECK_DEADLOCK FALSE
INVARIANTS
  ChainsAreExact
  EndIsTheRightOne
