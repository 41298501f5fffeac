--------------------------- MODULE MacroExpansion --------------------------
(***************************************************************************)
(* preprocess/expand.go and pattern.go: the expansion of macros in a line  *)
(* of active text.  An invocation is replaced by the body of its macro     *)
(* with the arguments in place; the replacement is read again by a call of *)
(* expandRun, one level down, where the macros of all levels above are     *)
(* hidden.  The table of macros does not change within a line.             *)
(*                                                                         *)
(* A token is its text and where it comes from (token.Origin).  The spans  *)
(* of an origin are the one of the invocation in the source; captures that *)
(* would form new tokens with their neighbours are left out.               *)
(***************************************************************************)
EXTENDS Integers, FiniteSetsExt, SequencesExt

CONSTANTS
  Names,             \* identifiers
  Parameters,        \* what parameters of macros look like (%0 ...)
  Tables,            \* tables of macros: for each name its macro, or None
  Sources,           \* lines: sequences of texts
  None,
  MaxExpansionDepth, MaxOutputTokens

VARIABLES
  macros,      \* the table
  source,      \* the line
  position,    \* the first token that has not been read (frame.pos)
  levels,      \* the calls of expandRun: tokens, the one it is at, macros hidden
  out,         \* expanded tokens
  invocations, \* invocations in the source: first and last token
  truncated, stopped,
  diags        \* codes

vars == <<macros, source, position, levels, out, invocations, truncated, stopped, diags>>

Kinds == {"object", "function", "pattern"}
ASSUME LimitsAssumption == MaxExpansionDepth \in Nat /\ MaxOutputTokens \in Nat
ASSUME NamesAssumption == IsFiniteSet(Names)
IsSequence(s) == s \in Seq(Range(s))
ASSUME SourcesAssumption == \A s \in Sources : IsSequence(s)
\* A slot is the text of a parameter, its value the parameter's number.
ASSUME TablesAssumption ==
  \A t \in Tables : \A n \in Names : t[n] = None \/
    /\ t[n].kind \in Kinds /\ t[n].count \in Nat
    /\ \A text \in DOMAIN t[n].slots : t[n].slots[text] \in 1..t[n].count
    /\ IsSequence(t[n].pattern) /\ IsSequence(t[n].body)

\* `at' is the token's place, or the first token of the invocation in the
\* source that it comes from; `within' the macros it is from, innermost first.
Token(text, at) == [text |-> text, at |-> at, within |-> <<>>]
Line == [k \in DOMAIN source |-> Token(source[k], k)]
WrapOwn(token, name, at) == \* a slip: the origin of an argument stays its own place
  [token EXCEPT !.at = IF @ = 0 THEN at ELSE @, !.within = <<name>> \o @]
Wrap(token, name, at) ==
  [token EXCEPT !.at = at, !.within = <<name>> \o @]
----------------------------------------------------------------------------
(* Arguments and patterns.  An invocation has the arguments and the place  *)
(* of its last token.                                                      *)

Invocation(args, last) == [args |-> args, last |-> last]

\* Parentheses stand for all brackets.
Depth(tokens, from, to) ==
  Cardinality({k \in from..to : tokens[k].text = "("})
    - Cardinality({k \in from..to : tokens[k].text = ")"})
At(tokens, k, text) == k \in DOMAIN tokens /\ tokens[k].text = text

\* collectArgs and collectArgsSlice, from the token after "(".
Collected(tokens, start) ==
  LET Outer(text) == {k \in start..Len(tokens) : /\ tokens[k].text = text
                                                 /\ Depth(tokens, start, k - 1) = 0}
      close == Min(Outer(")"))
      ends == {k \in Outer(",") : k < close} \cup {close}
      End(i) == CHOOSE k \in ends : Cardinality({j \in ends : j < k}) = i - 1
      args == [i \in 1..Cardinality(ends) |->
                 SubSeq(tokens, IF i = 1 THEN start ELSE End(i - 1) + 1, End(i) - 1)]
  IN IF Outer(")") = {} THEN {}
     ELSE {Invocation(IF close = start THEN <<>> ELSE args, close)}

\* matchPattern: the tokens after the name follow the pattern, a capture up to
\* the next token of the pattern outside of brackets.
Matches(m, tokens, start) ==
  LET Capture(text) == text \in DOMAIN m.slots
      Ends(from, delimiter) ==
        {k \in from..Len(tokens) : /\ tokens[k].text = delimiter /\ Depth(tokens, from, k - 1) = 0
                                   /\ \A j \in from..k - 1 : Depth(tokens, from, j) >= 0}
      matched[i \in 0..Len(m.pattern)] ==
        IF i = 0 THEN {Invocation([s \in 1..m.count |-> <<>>], start - 1)}
        ELSE UNION {LET from == found.last + 1
                        text == m.pattern[i]
                        ends == IF i = Len(m.pattern) THEN {} ELSE Ends(from, m.pattern[i + 1])
                    IN IF ~Capture(text)
                       THEN IF At(tokens, from, text) THEN {[found EXCEPT !.last = from]} ELSE {}
                       ELSE IF ends = {} THEN {}
                       ELSE {[args |-> [found.args EXCEPT ![m.slots[text]] =
                                          SubSeq(tokens, from, Min(ends) - 1)],
                              last |-> Min(ends) - 1]} : found \in matched[i - 1]}
  IN matched[Len(m.pattern)]

\* How the macro that tokens[i] names is invoked there: once, or not at all.
Invoked(tokens, i) ==
  LET m == macros[tokens[i].text]
  IN CASE m.kind = "object" -> {Invocation(<<>>, i)}
       [] m.kind = "function" -> IF At(tokens, i + 1, "(") THEN Collected(tokens, i + 2) ELSE {}
       [] m.kind = "pattern" -> Matches(m, tokens, i + 1)
IsMacro(text) == text \in Names /\ macros[text] # None

\* In the source, more arguments than parameters belong to the last one.
Fitted(m, args) ==
  LET comma == Token(",", 0)
      rest == SubSeq(args, m.count, Len(args))
      joined == FlattenSeq([i \in DOMAIN rest |->
                              IF i = 1 THEN rest[i] ELSE <<comma>> \o rest[i]])
  IN IF m.kind # "function" \/ m.count = 0 THEN args
     ELSE IF args = <<>> THEN <<<<>>>>
     ELSE IF Len(args) > m.count THEN Append(SubSeq(args, 1, m.count - 1), joined)
     ELSE args

\* substituteParams: a parameter without an argument is nothing, and so is
\* one that the macro does not declare.
Substituted(name, args, at) ==
  LET m == macros[name]
      Argument(text) == IF m.slots[text] <= Len(args) THEN args[m.slots[text]] ELSE <<>>
      Part(text) == IF text \in DOMAIN m.slots THEN Argument(text)
                    ELSE IF text \in Parameters THEN <<>> ELSE <<Token(text, 0)>>
      tokens == FlattenSeq([k \in DOMAIN m.body |-> Part(m.body[k])])
  IN [k \in DOMAIN tokens |-> Wrap(tokens[k], name, at)]
----------------------------------------------------------------------------
Init ==
  /\ macros \in Tables /\ source \in Sources
  /\ position = 1 /\ levels = <<>> /\ out = <<>> /\ invocations = <<>>
  /\ truncated = FALSE /\ stopped = FALSE /\ diags = {}

Same == UNCHANGED <<macros, source>>

OutputFullLate == Len(out) > MaxOutputTokens  \* a slip
OutputFull == Len(out) >= MaxOutputTokens
\* appendOut, unless the run is cancelled.
AppendOut(token) ==
  /\ out' = IF truncated \/ OutputFull THEN out ELSE Append(out, token)
  /\ truncated' = (truncated \/ OutputFull)
  /\ stopped' = (stopped \/ (~truncated /\ OutputFull))

HideOnly(hidden, name) == {name}  \* a slip: the levels above are forgotten
Hide(hidden, name) == hidden \cup {name}
TooDeep(depth) == depth > MaxExpansionDepth

\* expandRun begins; `rest' are the levels above, at the token they go on with.
\* Beyond the limit it gives up all output, that of these tokens, too.
ExpandRun(rest, tokens, hidden) ==
  IF TooDeep(Len(rest) + 1)
  THEN /\ truncated' = TRUE /\ diags' = diags \cup {"expansion_depth"}
       /\ levels' = rest /\ UNCHANGED <<out, stopped>>
  ELSE /\ levels' = Append(rest, [tokens |-> tokens, at |-> 1, hidden |-> hidden])
       /\ UNCHANGED <<out, truncated, stopped, diags>>
----------------------------------------------------------------------------
(* emitActive: the next token of the source.                               *)

Reading == levels = <<>> /\ ~stopped /\ position <= Len(source)
Text == source[position]

Emit ==
  /\ Reading
  /\ IsMacro(Text) =>
       /\ Invoked(Line, position) = {}
       /\ macros[Text].kind = "function" => ~At(Line, position + 1, "(")
  /\ AppendOut(Token(Text, position))
  /\ position' = position + 1
  /\ Same /\ UNCHANGED <<levels, invocations, diags>>

Invoke ==
  /\ Reading /\ IsMacro(Text)
  /\ \E call \in Invoked(Line, position) :
       LET args == Fitted(macros[Text], call.args)
       IN /\ invocations' = Append(invocations, <<position, call.last>>)
          /\ ExpandRun(<<>>, Substituted(Text, args, position), Hide({}, Text))
          /\ position' = call.last + 1
  /\ Same

\* An invocation without ")": collectArgs has read everything that follows.
Unterminated ==
  /\ Reading /\ IsMacro(Text) /\ macros[Text].kind = "function"
  /\ At(Line, position + 1, "(") /\ Invoked(Line, position) = {}
  /\ AppendOut(Token(Text, position))
  /\ diags' = diags \cup {"unterminated_invocation"}
  /\ position' = Len(source) + 1
  /\ Same /\ UNCHANGED <<levels, invocations>>
----------------------------------------------------------------------------
(* expandRun: the next token of the innermost level.                       *)

Expanding == levels # <<>> /\ ~truncated /\ ~stopped /\ Last(levels).at <= Len(Last(levels).tokens)
Current(level) == level.tokens[level.at]
PastNothing(last) == last  \* a slip: it goes on with the invocation's last token
Past(last) == last + 1
AdvancedHiding(last) == \* a slip: levels share one set of hidden macros
  [levels EXCEPT ![Len(levels)].at = Past(last),
                 ![Len(levels)].hidden = Hide(@, Current(Last(levels)).text) \cap Names]
Advanced(last) == [levels EXCEPT ![Len(levels)].at = Past(last)]

Visible(level) == IsMacro(Current(level).text) /\ Current(level).text \notin level.hidden

Expand ==
  /\ Expanding
  /\ LET level == Last(levels)
         token == Current(level)
     IN /\ Visible(level)
        /\ \E call \in Invoked(level.tokens, level.at) :
             ExpandRun(Advanced(call.last), Substituted(token.text, call.args, token.at),
                       Hide(level.hidden, token.text))
  /\ Same /\ UNCHANGED <<position, invocations>>

Output ==
  /\ Expanding
  /\ LET level == Last(levels)
     IN /\ Visible(level) => Invoked(level.tokens, level.at) = {}
        /\ AppendOut(Current(level))
        /\ levels' = Advanced(level.at)
  /\ Same /\ UNCHANGED <<position, invocations, diags>>

Return ==
  /\ levels # <<>> /\ ~Expanding
  /\ levels' = Front(levels)
  /\ Same /\ UNCHANGED <<position, out, invocations, truncated, stopped, diags>>

\* A poll sees that the context is cancelled.
Cancel ==
  /\ ~stopped /\ stopped' = TRUE
  /\ levels # <<>> \/ position <= Len(source)
  /\ Same /\ UNCHANGED <<position, levels, out, invocations, truncated, diags>>

Step == Emit \/ Invoke \/ Unterminated \/ Expand \/ Output \/ Return
Next == Step \/ Cancel

\* One goroutine expands the line and waits for nothing.
Spec == Init /\ [][Next]_vars /\ WF_vars(Step)
----------------------------------------------------------------------------
TypeOK ==
  /\ position \in 1..(Len(source) + 1) /\ Len(out) <= MaxOutputTokens
  /\ \A t \in Range(out) : t.at \in DOMAIN source /\ Range(t.within) \subseteq Names
  /\ \A l \in DOMAIN levels : /\ levels[l].at \in 1..(Len(levels[l].tokens) + 1)
                              /\ levels[l].hidden \subseteq Names
  /\ truncated \in BOOLEAN /\ stopped \in BOOLEAN
  /\ diags \subseteq {"expansion_depth", "unterminated_invocation"}

\* Macros that the bodies of a macro lead to, by way of others or not.
Uses(n) == {m \in Names : IsMacro(n) /\ m \in Range(macros[n].body) /\ IsMacro(m)}
UsesItself(n) ==
  \A S \in SUBSET Names : Uses(n) \subseteq S /\ (\A m \in S : Uses(m) \subseteq S) => n \in S

\* Hiding a macro keeps it out of its own expansion and out of nothing else:
\* an object-like macro that does not use itself is always expanded, in every
\* body and argument, whatever was expanded before (hideSet.with,
\* expand.go:298).
NamesAreExpanded ==
  \A t \in Range(out) :
    IsMacro(t.text) /\ macros[t.text].kind = "object" => UsesItself(t.text)

\* Each level hides one macro more, so that the limit of the depth is met
\* only by a longer chain of different macros (expand.go:249).
DepthIsJustified ==
  LET defined == Cardinality({n \in Names : IsMacro(n)})
  IN /\ \A l \in DOMAIN levels : Cardinality(levels[l].hidden) = l
     /\ ("expansion_depth" \in diags => defined > MaxExpansionDepth)

\* Every token read is passed on as it is, or belongs to one invocation, and
\* the output is in the order of the source: the origins that the source map
\* is made of (expand.go:87) and the invocations recorded agree.  Except for
\* a call without ")", no text is lost.
SourceAccounted ==
  levels = <<>> /\ ~truncated /\ ~stopped /\ "unterminated_invocation" \notin diags =>
    LET plain == {t.at : t \in {u \in Range(out) : u.within = <<>>}}
        covered(k) == {i \in DOMAIN invocations : k \in invocations[i][1]..invocations[i][2]}
    IN /\ \A k \in 1..(position - 1) :
            Cardinality(covered(k)) = IF k \in plain THEN 0 ELSE 1
       /\ \A i, j \in DOMAIN out : /\ i < j => out[i].at <= out[j].at
                                   /\ i < j /\ out[i].at = out[j].at => out[i].within # <<>>
       /\ \A t \in Range(out) : t.within # <<>> => \E i \in DOMAIN invocations :
                                                     invocations[i][1] = t.at

\* The expansion of a line ends.
Ends == <>(levels = <<>> /\ (stopped \/ position > Len(source)))
============================================================================
