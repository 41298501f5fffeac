SPECIFICATION Spec
CONSTANTS
  Names = {"A", "B", "C"}
  Parameters = {"%0", "%1"}
  Tables <- MCTables
  Sources <- MCSources
  None = None
  MaxExpansionDepth = 2
  MaxOutputTokens = 6
CHECK_DEADLOCK FALSE
INVARIANTS TypeOK NamesAreExpanded DepthIsJustified SourceAccounted
PROPERTY Ends
