SPECIFICATION Spec
CONSTANTS
  Names = {n1, n2}
  Signatures <- MCSignatures
  Arguments = {1, 2}
  MaxEvents = 5
CHECK_DEADLOCK FALSE
INVARIANTS TypeOK UsesAreResolved RedeclarationsAreReported PatchedIsClean
SYMMETRY Interchangeable
