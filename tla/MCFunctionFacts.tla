-------------------------- MODULE MCFunctionFacts --------------------------
(* Values of FunctionFacts' constants for TLC. *)
EXTENDS FunctionFacts

\* Every function has one parameter, "p", at position 1.
Source(mutable, accesses, calls) ==
  [prototype |-> FALSE, clear |-> TRUE, stateful |-> FALSE,
   parameters |-> <<[symbol |-> "p", mutable |-> mutable]>>,
   accesses |-> accesses, calls |-> calls]
Access(x, write) == [symbol |-> x, write |-> write]
CallOf(f, arguments) == [function |-> f, arguments |-> arguments]

Leaves ==
  {Source(TRUE, {Access("p", TRUE)}, {}),
   [Source(FALSE, {Access("g", FALSE)}, {}) EXCEPT !.stateful = TRUE],
   [Source(TRUE, {}, {}) EXCEPT !.prototype = TRUE]}
\* Functions that call h, k, both, or what only the host knows.
Callers(h, k) ==
  {Source(TRUE, {}, {CallOf(h, <<"p">>)}),
   Source(TRUE, {Access("g", FALSE)}, {CallOf(h, <<"g">>), CallOf(k, <<"p">>)}),
   Source(FALSE, {Access("p", TRUE)}, {CallOf(k, <<"p">>)}),
   Source(FALSE, {}, {CallOf(h, <<>>)}),
   Source(TRUE, {}, {CallOf("native", <<"p">>)}),
   Source(FALSE, {Access("g", FALSE)}, {CallOf("unknown", <<>>)})}

MCExternal ==
  [n \in {"native"} |-> [complete |-> TRUE, effects |-> {<<"mutate", 1>>}]]
MCPrograms ==
  {[f \in Functions |-> CASE f = "a" -> x [] f = "b" -> y [] f = "c" -> z] :
     x \in Leaves \cup Callers("b", "c"), y \in Leaves \cup Callers("a", "c"),
     z \in Leaves \cup Callers("a", "b")}
============================================================================
