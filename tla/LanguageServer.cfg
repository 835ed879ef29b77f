SPECIFICATION FairSpec
CONSTANTS
  Uris <- MCUris
  WorkspaceFiles = {"a", "b", "c"}
  Texts <- MCTexts
  CST <- MCCST
  InitialDisks <- MCDisks
  Clients <- MCClients
  OpenUris = {"a", "b"}
  WrittenUris = {"b"}
  EditTexts = {"top", "mid"}
  MaxOps = 3
INVARIANTS TextIsInSync DiagnosticsAreCurrent ConfigIsCurrent WatcherFollowsConfig SearchesAreExact
PROPERTY Settles
CHECK_DEADLOCK FALSE
