SPECIFICATION Spec
CONSTANTS
  Workers = {w1}
  Uris = {1}
  Texts = {"t1", "t2"}
  Names = {"f", "g", "h"}
  Options = {"edit", "index"}
  MaxSnap = 2
  MaxVersion = 2
  MaxCalls = 2
  None = None
  Failed = Failed
  Index <- MCIndex
  Exports <- MCExports
  Refs <- MCRefs
  Compatible <- MCCompatible
  Stable <- MCStable
  LocalConst <- MCLocalConst
  InitialDocs <- OneOpen
  Requests <- IndexThenWorkspace
CHECK_DEADLOCK FALSE
INVARIANT ConstantsAreClean
