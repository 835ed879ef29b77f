SPECIFICATION Spec
CONSTANTS
  Rules <- YaraGrammar
  Bodies <- MCBodies
  Sources <- MCSources
INVARIANTS BookmarksAreLive Lossless TreeIsWellFormed AcceptsTheGrammar NodesAreGrammatical
PROPERTY Ends
CHECK_DEADLOCK FALSE
