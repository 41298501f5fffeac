-------------------------- MODULE MCMacroExpansion -------------------------
(* Values of MacroExpansion's constants for TLC. *)
EXTENDS MacroExpansion

Macro(kind, count, slots, pattern, body) ==
  [kind |-> kind, count |-> count, slots |-> slots, pattern |-> pattern, body |-> body]
Object(body) == Macro("object", 0, <<>>, <<>>, body)
One(body) == Macro("function", 1, [l \in {"%0"} |-> 1], <<>>, body)
Two(body) == Macro("function", 2, [l \in {"%0", "%1"} |-> IF l = "%0" THEN 1 ELSE 2], <<>>, body)
Pattern(pattern, body) == Macro("pattern", 1, [l \in {"%0"} |-> 1], pattern, body)

\* A and B use each other and themselves, as a name, as a call and in an
\* argument; C adds a level, with a parameter that it does not declare in its
\* body, or is a call that its body does not end.
MCTables ==
  {[n \in Names |-> CASE n = "A" -> a [] n = "B" -> b [] n = "C" -> c] :
     a \in {Object(<<"B">>), One(<<"B", "(", "%0", ")">>), Two(<<"%1", "A", "%0">>),
            Pattern(<<",", "%0", ",">>, <<"B", "%0">>)},
     b \in {None, Object(<<>>), Object(<<"C", "A">>), One(<<"A", "(", "%0", ",", "%0", ")">>),
            Pattern(<<"(", "%0", ")">>, <<"%0", "B">>)},
     c \in {None, Object(<<"x", "%0", "C">>), Object(<<"A", "(">>)}}

\* Lines of up to six tokens.
MCSources ==
  {<<"A">> \o s \o e : s \in SeqOf({"A", "B", "(", ")", ","}, 4), e \in {<<>>, <<")">>}}
============================================================================
