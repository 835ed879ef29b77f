SPECIFICATION Spec
CONSTANTS
  Uris <- MCUris
  WorkspaceFiles = {"a", "b", "c"}
  Texts <- MCTexts
  CST <- MCCST
  InitialDisks <- MCDisks
  Clients <- MCUnwatched
  OpenUris = {"a", "b"}
  WrittenUris = {}
  EditTexts = {"top", "mid"}
  MaxOps = 4
INVARIANT TreeIsOfText

CHECK_DEADLOCK FALSE
