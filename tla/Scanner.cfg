CONSTANTS
  p1 = p1
  p2 = p2
  m1 = m1
  m2 = m2
  NumRules = 5
  NamespaceOf <- MCNamespaceOf
  GlobalRules <- MCGlobal
  PrivateRules <- MCPrivate
  Condition <- MCCondition
  Patterns = {p1, p2}
  FastScanPatterns = {p1}
  FastScan = TRUE
  MaxMatches = 1
  Modules = {m1, m2}
  Imports <- MCImportsNoMain
  NoMain = {m2}
  TeddyMinimum = 0
  Profiling = FALSE
  Timeouts <- MCTimeouts
  Data <- MCData
SPECIFICATION Spec
INVARIANTS ResultIsExact BitsAreTracked PrivateCountIsExact ResetIsComplete NeverPanics
