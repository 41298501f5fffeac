SPECIFICATION Spec
CONSTANTS
  Workers = {w1, w2}
  Uris = {1, 2}
  Texts = {"t1", "t2", "t3", "t4"}
  Names = {"f", "g", "h"}
  Options = {"index"}
  MaxSnap = 2
  MaxVersion = 2
  MaxCalls = 3
  None = None
  Failed = Failed
  Index <- MCIndex
  Exports <- MCExports
  Refs <- MCRefs
  Compatible <- MCCompatible
  Stable <- MCStable
  LocalConst <- MCLocalConst
  InitialDocs <- BothOpen
  Requests <- SmallRequests
CHECK_DEADLOCK FALSE
INVARIANTS TypeOK AnswersAreShared
PROPERTIES ImplementsClean PublishedStays
SYMMETRY Interchangeable
