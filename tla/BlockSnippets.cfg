CONSTANTS
  a = a
  r = r
  Occurrences <- MCOccurrences
  Greedy = {r}
  Blocks <- MCBlocks
  ContextSizes = {0, 2}
SPECIFICATION SnippetSpec
INVARIANTS MatchDataIsExact
