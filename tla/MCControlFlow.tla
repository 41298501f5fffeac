--------------------------- MODULE MCControlFlow ---------------------------
(* Values of ControlFlow's constants for TLC: every kind of statement, and *)
(* conditions with and without a known value.                              *)
EXTENDS ControlFlow

Of(kinds, tests, defaults) ==
  [kind : kinds, parent : {0}, test : tests, default : defaults, name : {"x"}]
MCStatements ==
  Of({"plain", "return", "break", "continue", "goto", "label", "block"}, {"unknown"}, {FALSE})
    \cup Of({"while"}, {"true", "unknown"}, {FALSE})
    \cup Of({"if", "do"}, {"false", "unknown"}, {FALSE})
    \cup Of({"switch"}, {"unknown"}, BOOLEAN)
=============================================================================
