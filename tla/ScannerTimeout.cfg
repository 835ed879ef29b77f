CONSTANTS
  p1 = p1
  p2 = p2
  m1 = m1
  m2 = m2
  NumRules = 5
  NamespaceOf <- MCNamespaceOf
  GlobalRules <- MCGlobal
  PrivateRules <- MCPrivate
  Condition <- MCCondLoop
  Patterns = {p1, p2}
  FastScanPatterns = {p1}
  FastScan = TRUE
  MaxMatches = 1
  Modules = {m1}
  Imports <- MCImports1
  NoMain = {}
  TeddyMinimum = 2
  Profiling = TRUE
  Timeouts <- MCTimeouts
  Data <- MCDataLive
SPECIFICATION FairSpec
PROPERTY TimedScanEnds
CHECK_DEADLOCK FALSE
