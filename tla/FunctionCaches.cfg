SPECIFICATION Spec
CONSTANTS
  Names = {"x"}
  FunctionNames = {"f"}
  Bodies <- MCBodies
  Minimum = 2
  Values = {0, 1}
  MaxFunctions = 2
  MaxEdits = 2
  None = None
INVARIANTS TypeOK NamesAreClean TagsAreClean FlowsAreClean
