--------------------------- MODULE MCPreprocessor ---------------------------
(* Values of Preprocessor's constants for TLC. *)
EXTENDS Preprocessor

Plain(kinds) == [kind : kinds]

\* Conditionals of one file, in every order, matched or not.
ConditionalLines ==
  Plain({"text", "else", "endif", "endinput"})
    \cup [kind : {"if"}, cond : Names] \cup [kind : {"elseif"}, cond : {"true", "unknown"}]

\* Files that include each other, themselves and what is not found, with
\* guards: #if on a macro that they define, use or undefine.
FileLines ==
  Plain({"message", "else"})
    \cup [kind : {"if"}, cond : Names] \cup [kind : {"use", "undef"}, name : Names]
    \cup [kind : {"define"}, name : Names, body : Bodies]
    \cup [kind : {"include"}, uri : Uris, optional : {TRUE}]
    \cup [kind : {"include"}, uri : {None}, optional : {FALSE}]

\* Bounds: either one file of five lines and a text, or three files of two lines each, with
\* messages in the first one only, before it includes another.
AnyLines == ConditionalLines \cup FileLines
LongOrMany(known, f, line) ==
  \/ /\ Len(known) = 1 /\ Len(known[1]) < 6
     /\ \A l \in DOMAIN known[1] : known[1][l] \in ConditionalLines
     /\ line \in ConditionalLines
     /\ Len(known[1]) = 5 => line.kind = "text"
  \/ /\ Len(known) <= 3 /\ Len(known[f]) < 2 /\ line \in FileLines
     /\ line.kind = "message" => Len(known) = 1
     /\ \A k \in DOMAIN known : \A l \in DOMAIN known[k] : known[k][l] \in FileLines
=============================================================================
