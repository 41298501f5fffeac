-------------------------- MODULE MCFunctionCaches -------------------------
(* Values of FunctionCaches' constants for TLC. *)
EXTENDS FunctionCaches

\* A body that uses a name, worth keeping, and a small one that uses none.
MCBodies == {[use |-> "x", size |-> 2], [use |-> None, size |-> 1]}
============================================================================
