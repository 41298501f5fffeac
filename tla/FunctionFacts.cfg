SPECIFICATION Spec
CONSTANTS
  Functions = {"a", "b", "c"}
  Globals = {"g"}
  Constant = {}
  Locals = {"p"}
  Positions = {1}
  Names = {"native", "unknown"}
  None = None
  External <- MCExternal
  Programs <- MCPrograms
CHECK_DEADLOCK FALSE
INVARIANTS TypeOK FactsAreExact
PROPERTY Terminates
