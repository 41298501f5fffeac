-------------------------- MODULE PreprocessReuse --------------------------
(***************************************************************************)
(* preprocess/reuse.go: a run of the preprocessor on an edited text takes  *)
(* over what an earlier run recorded and moves its ranges.  The promise is *)
(* the record of a clean run (engine.run), whatever was edited before.     *)
(*                                                                         *)
(* A text is a sequence of characters; "#" stands for the directive        *)
(* #define and "continued" for a newline that a backslash hides from the   *)
(* preprocessor.  Texts have object-like macros, no other directives and   *)
(* no comments.  Offsets start at 0 and ranges are half open, as in the    *)
(* code.                                                                   *)
(***************************************************************************)
EXTENDS Integers, Sequences, FiniteSets

CONSTANTS
  Letters,         \* characters of identifiers
  Blanks,          \* blanks within a line
  Marks,           \* "#", "newline" and, maybe, "continued"
  Texts,           \* bound: the texts that are analysed
  Insertions       \* bound: what an edit may insert

VARIABLES
  text,    \* the source last analysed
  result,  \* what the run for it recorded (Result), reused or not
  strayed  \* history: an edit since the last clean run touched half a #define

analysed == <<text, result, strayed>>

Chars == Letters \cup Blanks \cup Marks
ASSUME CharsAssumption ==
  /\ {"#", "newline"} \subseteq Marks /\ Marks \subseteq {"#", "newline", "continued"}
  /\ {"#", "newline", "continued"} \cap (Letters \cup Blanks) = {}
  /\ Letters \cap Blanks = {}
ASSUME BoundsAssumption == Texts \subseteq Seq(Chars) /\ Insertions \subseteq Seq(Chars)

ByteRange(start, end) == [start |-> start, end |-> end]
Ranges(t) == {ByteRange(s, e) : s, e \in 0..Len(t)}
At(t, offset) == t[offset + 1]
Slice(t, r) == SubSeq(t, r.start + 1, r.end)
Least(S) == CHOOSE n \in S : \A m \in S : n <= m
Greatest(S) == CHOOSE n \in S : \A m \in S : m <= n
----------------------------------------------------------------------------
(* A clean run.                                                            *)

\* The tokens: words as long as possible, and directives.
Words(t) ==
  LET Letter(o) == o \in 0..Len(t) - 1 /\ At(t, o) \in Letters
      Starts == {o \in 0..Len(t) - 1 : Letter(o) /\ ~Letter(o - 1)}
  IN {ByteRange(s, Least({e \in s + 1..Len(t) : ~Letter(e)})) : s \in Starts}
Hashes(t) == {ByteRange(o, o + 1) : o \in {p \in 0..Len(t) - 1 : At(t, p) = "#"}}
Tokens(t) == Words(t) \cup Hashes(t)

\* endsLine: what ends a line for the lexer, and what directiveRange sees.
EndsLine(t, o) == At(t, o) = "newline"
IsNewline(t, o) == At(t, o) \in {"newline", "continued"}
SameLine(t, k, l) == \A o \in k.end..l.start - 1 : ~EndsLine(t, o)

\* The lines that engine.run hands to handleDirectiveLine: their first token
\* is a directive.
Directives(t) ==
  {h \in Hashes(t) : \A k \in Tokens(t) : k.end <= h.start => ~SameLine(t, k, h)}

\* What handleDefine takes: the rest of the line, or, if the directive ends
\* its line, the next word, wherever it is, with the rest of the word's line.
First(tokens) == CHOOSE k \in tokens : \A l \in tokens : k.start <= l.start
Following(t, h) == {k \in Tokens(t) : h.end <= k.start}
RestOfLine(t, h) == {k \in Following(t, h) : SameLine(t, h, k)}
NextWord(t, h) == IF Following(t, h) = {} THEN {} ELSE {First(Following(t, h))} \cap Words(t)
Operands(t, h) ==
  IF RestOfLine(t, h) # {} THEN RestOfLine(t, h)
  ELSE NextWord(t, h) \cup UNION {RestOfLine(t, k) : k \in NextWord(t, h)}
HasName(t, h) == Operands(t, h) # {} /\ First(Operands(t, h)) \in Words(t)

\* The macro that a #define defines.  Bodies are equal if their tokens are,
\* and which of them touch (macroEqual).
Definition(t, h) ==
  LET name == First(Operands(t, h))
      Body == Operands(t, h) \ {name}
      Rank(k) == Cardinality({l \in Body : l.start < k.start})
  IN [name |-> Slice(t, name),
      body |-> {<<Rank(k), Slice(t, k), \E l \in Body : l.end = k.start>> : k \in Body},
      span |-> ByteRange(h.start, name.end)]
Defines(t) == {Definition(t, h) : h \in {d \in Directives(t) : HasName(t, d)}}
Last(defines) == CHOOSE d \in defines : \A e \in defines : e.span.start <= d.span.start

Diagnostic(code, range) == [code |-> code, range |-> range]

\* What a run records: the macros in the end, the words replaced by macros,
\* and the diagnostics.
Run(t) ==
  LET defines == Defines(t)
      names == {d.name : d \in defines}
      Before(name, offset) == {d \in defines : d.name = name /\ d.span.start < offset}
      taken == UNION {Operands(t, h) : h \in Directives(t)}
  IN [tokens |-> Tokens(t),
      macros |-> {Last({d \in defines : d.name = n}) : n \in names},
      invocations |-> {k \in Words(t) \ taken : Before(Slice(t, k), k.start) # {}},
      diagnostics |->
        {Diagnostic("malformed", h) : h \in {d \in Directives(t) : ~HasName(t, d)}}
          \cup {Diagnostic("redefined", d.span) : d \in
                  {e \in defines : LET earlier == Before(e.name, e.span.start)
                                   IN earlier # {} /\ Last(earlier).body # e.body}}]
----------------------------------------------------------------------------
(* Reuse.                                                                  *)

Edit(start, beforeEnd, afterEnd) ==
  [before |-> ByteRange(start, beforeEnd), after |-> ByteRange(start, afterEnd)]

\* compatibleEdit: what is left without the common beginning and end.
CompatibleEdit(before, after) ==
  LET SamePrefix(n) == \A o \in 0..n - 1 : At(before, o) = At(after, o)
      shorter == IF Len(before) < Len(after) THEN Len(before) ELSE Len(after)
      start == Greatest({n \in 0..shorter : SamePrefix(n)})
      SameSuffix(n) == \A o \in 1..n : At(before, Len(before) - o) = At(after, Len(after) - o)
      end == Greatest({n \in 0..shorter - start : SameSuffix(n)})
  IN Edit(start, Len(before) - end, Len(after) - end)

\* directiveRange: a line that an edit changes has "#" behind its blanks.
LineStarts(t) ==
  {o \in 0..Len(t) - 1 : o > 0 => IsNewline(t, o - 1)}
LinesOf(t, changed) ==
  LET from == IF changed.start = Len(t) /\ changed.start > 0
              THEN changed.start - 1 ELSE changed.start
      NoNewline(s, e) == \A o \in s..e - 1 : ~IsNewline(t, o)
  IN {o \in LineStarts(t) :
        (o <= from /\ NoNewline(o, from)) \/ (from < o /\ (o <= changed.end \/ NoNewline(changed.end, o)))}
DirectiveRange(t, changed) ==
  \E l \in LinesOf(t, changed) : \E o \in l..Len(t) - 1 :
    At(t, o) = "#" /\ \A p \in l..o - 1 : At(t, p) \in Blanks

\* touchesMacro: a token in or next to the changed range names a macro.
TouchesInside(tokens, t, changed, macros) ==  \* a slip: tokens next to it are not asked
  \E k \in tokens : /\ k.end > changed.start /\ k.start < changed.end
                    /\ \E m \in macros : m.name = Slice(t, k)
TouchesMacro(tokens, t, changed, macros) ==
  \E k \in tokens : /\ k.end >= changed.start /\ k.start <= changed.end
                    /\ \E m \in macros : m.name = Slice(t, k)

ShiftOffset(offset, edit) ==
  IF offset <= edit.before.start THEN offset
  ELSE IF offset >= edit.before.end THEN offset + edit.after.end - edit.before.end
  ELSE IF offset - edit.before.start > edit.after.end - edit.after.start THEN edit.after.end
  ELSE edit.after.start + offset - edit.before.start
ShiftRange(r, edit) == ByteRange(ShiftOffset(r.start, edit), ShiftOffset(r.end, edit))

\* reuseSingleTokenEdit: one word becomes another word of its length; the
\* tokens stay as they are.
SingleTokenEdit(src, edit, tokens) ==
  /\ edit.before.end = edit.after.end /\ edit.before.start < edit.before.end
  /\ edit.before \in tokens /\ At(text, edit.before.start) \in Letters
  /\ LET replaced == Slice(src, edit.after) IN Words(replaced) = {ByteRange(0, Len(replaced))}

\* ReuseCompatibleContext, with the edit that the host knows or computed.
Compatible(src, edit) ==
  LET tokens == IF SingleTokenEdit(src, edit, result.tokens) THEN result.tokens ELSE Tokens(src)
  IN /\ ~DirectiveRange(text, edit.before) /\ ~DirectiveRange(src, edit.after)
     /\ ~TouchesMacro(tokens, src, edit.after, result.macros)
     /\ ~TouchesMacro(result.tokens, text, edit.before, result.macros)
Reused(src, edit) ==
  [tokens |-> IF SingleTokenEdit(src, edit, result.tokens) THEN result.tokens ELSE Tokens(src),
   macros |-> {[m EXCEPT !.span = ShiftRange(m.span, edit)] : m \in result.macros},
   invocations |-> {ShiftRange(r, edit) : r \in result.invocations},
   diagnostics |-> {Diagnostic(d.code, ShiftRange(d.range, edit)) : d \in result.diagnostics}]

\* EditTouchesCode, and ReuseTriviaContext: nothing but blanks changes, and
\* their extent does not.
EditTouchesCode(edit) ==
  \E k \in result.tokens : k.end > edit.before.start /\ k.start < edit.before.end
SameLayout(src) ==
  /\ Len(src) = Len(text)
  /\ \A o \in DOMAIN src : src[o] = text[o] \/ {src[o], text[o]} \subseteq Blanks

\* The history: the lines that directiveRange looks at are not whole, but
\* continue a line or are continued, or a #define before them has no name yet.
Strays(t, changed) ==
  LET from == Least(LinesOf(t, changed))
      to == Least({o \in changed.end..Len(t) : o = Len(t) \/ IsNewline(t, o)})
      before == {k \in Tokens(t) : k.end <= from}
  IN /\ LinesOf(t, changed) # {}
     /\ \/ from > 0 /\ ~EndsLine(t, from - 1)
        \/ to < Len(t) /\ ~EndsLine(t, to)
        \/ \E h \in before \cap Directives(t) : \A k \in before : k.start <= h.start

\* AnalyzeContext: trivia first, then a compatible edit, then a clean run.
\* `known` says whether the host names the edit (PreviousEdit).
Analyze(src, edit, known) ==
  LET trivia == (known => ~EditTouchesCode(edit)) /\ SameLayout(src)
      local == (known \/ text # src) /\ Compatible(src, edit)
  IN /\ text' = src
     /\ IF trivia THEN UNCHANGED <<result, strayed>>
        ELSE IF local
        THEN /\ result' = Reused(src, edit)
             /\ strayed' = (strayed \/ Strays(text, edit.before) \/ Strays(src, edit.after))
        ELSE result' = Run(src) /\ strayed' = FALSE
----------------------------------------------------------------------------
(* Edits.                                                                  *)

FirstAnalysis ==
  /\ text \in Texts
  /\ result = Run(text) /\ strayed = FALSE

\* Any part is replaced, known to the host or not.
Spliced(t, r, inserted) ==
  SubSeq(t, 1, r.start) \o inserted \o SubSeq(t, r.end + 1, Len(t))
EditText(r, inserted) ==
  LET src == Spliced(text, r, inserted)
      edit == Edit(r.start, r.end, r.start + Len(inserted))
  IN /\ r.start <= r.end /\ src \in Texts
     /\ \/ Analyze(src, edit, TRUE)
        \/ Analyze(src, CompatibleEdit(text, src), FALSE)

NextEdit == \E r \in Ranges(text), inserted \in Insertions : EditText(r, inserted)

EditSpec == FirstAnalysis /\ [][NextEdit]_analysed
-----------------------------------------------------------------------------
(* Properties.                                                             *)

\* After any sequence of edits the macros, the ranges that macros replace,
\* the diagnostics and the tokens are those of a clean run of the text,
\* unless an edit touched some of the lines of a #define and not the one that
\* it begins on, which directiveRange does not notice.
ReusedIsClean == ~strayed => result = Run(text)

=============================================================================
