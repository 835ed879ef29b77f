CONSTANTS
  NumThreads = 2
  Capacity = 1
  Entries <- MCEntries
  FatalErrors = {"timeout"}
  Formats <- MCFormats
  HasTimeout = TRUE
SPECIFICATION FairSpec
INVARIANTS OutputIsComplete CountersAreExact AbortIsExplained PanicsOnlyAfterAbort
PROPERTY WalkEndsUnlessStuck
CHECK_DEADLOCK FALSE
