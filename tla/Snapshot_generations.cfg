SPECIFICATION Spec
CONSTANTS
  Workers = {w1}
  Uris = {1, 2}
  Texts = {"t1", "t4"}
  Names = {"f", "g", "h"}
  Options = {"edit", "index"}
  MaxSnap = 3
  MaxVersion = 3
  MaxCalls = 3
  None = None
  Failed = Failed
  Index <- MCIndex
  Exports <- MCExports
  Refs <- MCRefs
  Compatible <- MCCompatible
  Stable <- MCStable
  LocalConst <- MCLocalConst
  InitialDocs <- OneOrBothOpen
  Requests <- IndexThenBoth
CHECK_DEADLOCK FALSE
INVARIANTS CachesMatchDocuments AnswersAreClean ReuseIsJustified
