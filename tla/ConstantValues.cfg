SPECIFICATION Spec
CONSTANTS
  Count = 4
  Values = {0, 1}
  Zero = 0
  Successor <- MCSuccessor
  Unknown = Unknown
  None = None
  Unary <- MCUnary
  Binary <- MCBinary
  Programs <- MCPrograms
CHECK_DEADLOCK FALSE
INVARIANTS TypeOK ValuesAreExact RecursionEnds CyclesAreReported
