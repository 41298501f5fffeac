SPECIFICATION Spec
CONSTANTS
  None = None
  Root = "root"
  Uris = {"root", "inc"}
  Names = {"guard"}
  Bodies = {"b"}
  Lines <- AnyLines
  MaxConditionalDepth = 2
  MaxIncludeDepth = 2
  MaxOutputTokens = 1
  MayRead <- LongOrMany
CHECK_DEADLOCK FALSE
INVARIANTS TypeOK IncludesBounded FilesAccounted TruncatedIsReported SelectedThroughout OneBranchSelected BranchesTellTheView
