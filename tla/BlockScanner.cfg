CONSTANTS
  p1 = p1
  p2 = p2
  NumRules = 3
  NamespaceOf <- MCNamespaceOf
  GlobalRules = {2}
  PrivateRules = {1, 3}
  Condition <- MCCondition
  Patterns = {p1, p2}
  FastScanPatterns = {p1}
  FastScan = TRUE
  MaxMatches = 1
  Modules = {}
  Imports <- MCImports
  NoMain = {}
  TeddyMinimum = 0
  Profiling = FALSE
  Timeouts <- MCTimeouts
  Data <- MCData
  Blocks <- MCBlocks
SPECIFICATION BlockSpec
INVARIANTS BlockResultIsExact BlockPatternsAreCurrent PanicsOnlyWithoutBlocks
CHECK_DEADLOCK FALSE
