-------------------------- MODULE MCPreprocessReuse ------------------------
(* Values of PreprocessReuse's constants for TLC. *)
EXTENDS PreprocessReuse, TLC

Strings(n) == UNION {[1..k -> Chars] : k \in 0..n}

\* Lines of two definitions or a definition and a use: words before the first,
\* a macro with a body, on its line or continued, or without, or a directive
\* that has no name yet; then words, or the macro again.
Separated == {<<x, y>> : x \in Letters, y \in Blanks \cup {"continued"}}
Word == {<<x>> : x \in Letters}
LongWord == {<<x, y>> : x, y \in Letters}
TwoWords == {<<x, " ", y>> : x, y \in Letters}
Define == {<<"#">> \o name : name \in Word}
WithBody == {<<"#">> \o s \o body : s \in Separated, body \in {<<>>} \cup Word}
Line(s) == s \o <<"newline">>
Opening == {<<>>} \cup {Line(s) : s \in {<<>>} \cup Word \cup Define}
Middle == {Line(s) : s \in {<<"#">>} \cup Define \cup WithBody}
Closing == {<<>>} \cup Word \cup LongWord \cup TwoWords \cup Define

\* Bounds: all texts of up to three characters, and the lines above.
MCTexts ==
  Strings(3) \cup {s \o t \o u : s \in Opening, t \in Middle, u \in Closing}
\* An edit removes any part and inserts at most one character.
MCInsertions == Strings(1)
\* The letters are interchangeable.
Renamed == Permutations(Letters)
============================================================================
