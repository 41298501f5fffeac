--------------------------- MODULE MCSymbolTable ---------------------------
(* Values of SymbolTable's constants for TLC. *)
EXTENDS SymbolTable, TLC

Plain == [kind |-> "function", test |-> FALSE, state |-> FALSE, min |-> 1, max |-> 1,
          body |-> TRUE, own |-> TRUE]
\* A function with one parameter, of the active file, a forward of it, one
\* with two parameters or more in an included file, one for a state and a test.
MCSignatures ==
  {Plain, [Plain EXCEPT !.kind = "forward", !.body = FALSE],
   [Plain EXCEPT !.min = 2, !.max = -1, !.own = FALSE],
   [Plain EXCEPT !.state = TRUE], [Plain EXCEPT !.test = TRUE]}

\* Identifiers are interchangeable.
Interchangeable == Permutations(Names)
============================================================================
