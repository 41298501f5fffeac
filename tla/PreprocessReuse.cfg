SPECIFICATION EditSpec
CONSTANTS
  Letters = {a, b}
  Blanks = {" "}
  Marks = {"#", "newline", "continued"}
  Texts <- MCTexts
  Insertions <- MCInsertions
INVARIANTS ReusedIsClean
SYMMETRY Renamed
