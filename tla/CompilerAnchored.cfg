CONSTANTS
  a = a
  b = b
  c = c
  x = x
  pe = pe
  old = old
  f = f
  None = None
  Regexps <- MCRegexps
  FastRegexps = {"fast"}
  WastedRegexps = {"wasted"}
  BadRegexps = {"bad"}
  Decls <- MCDecls
  ModuleNames = {pe, old, f}
  Modules = {pe}
  IgnoredModules = {old}
  BannedModules = {pe}
  Variables = {pe}
  Namespaces = {"default", "other"}
  Files = {f}
  MaxItems = 3
  MaxCalls = 3
SPECIFICATION Spec
CHECK_DEADLOCK FALSE
INVARIANT
  AnchoredAreAnchored
