----------------------- MODULE MacroExpansionProofs ------------------------
(***************************************************************************)
(* Proofs about MacroExpansion, for every table, line and limit.           *)
(*                                                                         *)
(* NamesAreExpanded is about the output only, and says nothing of the      *)
(* tokens still to be read.  What makes it true is a fact about the levels *)
(* (Leads): where an object-like macro is hidden, all macros among the     *)
(* tokens are ones that it leads to, since they come from its body or, by  *)
(* way of arguments, from tokens of the level above.  A hidden macro that  *)
(* meets its own name therefore leads to itself.  The other parts of Inv   *)
(* relate the levels, the output and the invocations to the line.          *)
(*                                                                         *)
(* Arguments, patterns and replacements are recursive functions over       *)
(* sequences; that they exist and have their types is proved by induction  *)
(* over the set of numbers for which it holds (Induction).                 *)
(***************************************************************************)
EXTENDS MacroExpansion, FiniteSetTheorems, WellFoundedInduction, TLAPS

MacroOK(m) ==
  /\ m.kind \in Kinds /\ m.count \in Nat
  /\ \A text \in DOMAIN m.slots : m.slots[text] \in 1..m.count
  /\ IsSequence(m.pattern) /\ IsSequence(m.body)

TokensOf(X) == [text : X, at : Nat, within : Seq(Names)]
Texts ==
  Range(source) \cup {","} \cup UNION {Range(macros[n].body) : n \in {m \in Names : IsMacro(m)}}
Tokens == TokensOf(Texts)
LevelType == [tokens : Seq(Tokens), at : Nat, hidden : SUBSET Names]

LevelsOK(calls) ==
  /\ calls \in Seq(LevelType)
  /\ \A l \in DOMAIN calls : calls[l].at \in 1..(Len(calls[l].tokens) + 1)
StateOK ==
  /\ macros \in Tables /\ source \in Sources /\ position \in 1..(Len(source) + 1)
  /\ out \in Seq(Tokens) /\ Len(out) <= MaxOutputTokens
  /\ LevelsOK(levels)
  /\ invocations \in Seq(Nat \X Nat)
  /\ truncated \in BOOLEAN /\ stopped \in BOOLEAN
  /\ diags \subseteq {"expansion_depth", "unterminated_invocation"}

Defined == {n \in Names : IsMacro(n)}

\* What a macro leads to, and tokens that are of the macros that the hidden
\* object-like ones lead to, or of none.
Reached(n) ==
  {m \in Names : \A S \in SUBSET Names :
                   Uses(n) \subseteq S /\ (\A k \in S : Uses(k) \subseteq S) => m \in S}
Leads(tokens, hidden) ==
  \A n \in hidden : macros[n].kind = "object" =>
    \A k \in DOMAIN tokens : IsMacro(tokens[k].text) => tokens[k].text \in Reached(n)

\* Each level hides one macro more than the level above; its tokens are what
\* the macros that it hides lead to, and of one invocation in the source.
Nested(calls, begun) ==
  \A l \in DOMAIN calls :
    /\ calls[l].hidden \subseteq Defined /\ Cardinality(calls[l].hidden) = l
    /\ Leads(calls[l].tokens, calls[l].hidden)
    /\ \A k \in DOMAIN calls[l].tokens :
         calls[l].tokens[k].at = begun /\ calls[l].tokens[k].within # <<>>

\* Invocations follow one another in the source.
Follow(found, before) ==
  \A i \in DOMAIN found :
    /\ 1 <= found[i][1] /\ found[i][1] <= found[i][2] /\ found[i][2] < before
    /\ \A j \in DOMAIN found : i < j => found[i][2] < found[j][1]

\* Each token of the output is of what has been read of the source: one
\* outside of all invocations, or from one of them.
Covers(invocation, k) == invocation[1] <= k /\ k <= invocation[2]
Sourced(tokens, found, before) ==
  \A i \in DOMAIN tokens :
    /\ 1 <= tokens[i].at /\ tokens[i].at < before
    /\ tokens[i].within = <<>> => \A j \in DOMAIN found : ~Covers(found[j], tokens[i].at)
    /\ tokens[i].within # <<>> => \E j \in DOMAIN found : found[j][1] = tokens[i].at
    /\ \A j \in DOMAIN tokens : i < j =>
         /\ tokens[i].at <= tokens[j].at
         /\ tokens[i].at = tokens[j].at => tokens[i].within # <<>>

\* All that has been read is there.
Complete(tokens, found, before) ==
  \A k \in 1..(before - 1) :
    \/ \E i \in DOMAIN tokens : tokens[i].at = k /\ tokens[i].within = <<>>
    \/ \E j \in DOMAIN found : Covers(found[j], k)

Begun == IF invocations = <<>> THEN 0 ELSE Last(invocations)[1]
Inv ==
  /\ StateOK
  /\ Nested(levels, Begun)
  /\ "expansion_depth" \in diags => Cardinality(Defined) > MaxExpansionDepth
  /\ NamesAreExpanded
  /\ levels # <<>> => invocations # <<>> /\ \A i \in DOMAIN out : out[i].at <= Begun
  /\ Follow(invocations, position)
  /\ Sourced(out, invocations, position)
  /\ ~truncated /\ "unterminated_invocation" \notin diags => Complete(out, invocations, position)
----------------------------------------------------------------------------
(* Induction and sequences.                                                *)

Less == {ss \in Nat \X Nat : ss[1] < ss[2]}

\* A set of numbers has a least one.
LEMMA Least ==
  ASSUME NEW T \in SUBSET Nat, T # {}
  PROVE  \E n \in T : \A m \in T : n <= m
<1>1. IsWellFoundedOn(Less, Nat)
  BY NatLessThanWellFounded DEF OpToRel, Less
<1>2. PICK n \in T : \A m \in T : <<m, n>> \notin Less
  BY <1>1, WFMin, Zenon
<1>3. ASSUME NEW m \in T PROVE n <= m
  <2>1. ~(m < n)
    BY <1>2 DEF Less
  <2> QED BY <2>1
<1> QED BY <1>2, <1>3

\* Induction, for a set.
LEMMA Induction ==
  ASSUME NEW S, 0 \in S, \A n \in Nat : n \in S => n + 1 \in S
  PROVE  Nat \subseteq S
<1> DEFINE T == Nat \ S
<1> SUFFICES ASSUME T # {} PROVE FALSE
  OBVIOUS
<1>1. PICK n \in T : \A m \in T : n <= m
  BY Least
<1> QED BY <1>1

\* A part of a sequence, and sequences joined, are of the same elements.
LEMMA SubSeqType ==
  ASSUME NEW T, NEW s \in Seq(T), NEW a \in Nat \ {0}, NEW b \in Int, b <= Len(s)
  PROVE  SubSeq(s, a, b) \in Seq(T)
<1>1. CASE a <= b
  BY <1>1
<1>2. CASE ~(a <= b)
  <2>1. SubSeq(s, a, b) = <<>>
    BY <1>2
  <2> QED BY <2>1
<1> QED BY <1>1, <1>2

LEMMA FlattenType ==
  ASSUME NEW T, NEW seqs \in Seq(Seq(T))
  PROVE  FlattenSeq(seqs) \in Seq(T)
<1> DEFINE n == Len(seqs)
           Is(g, k) == g = [i \in 1..k |-> IF i = 1 THEN seqs[i] ELSE g[i - 1] \o seqs[i]]
           flatten == CHOOSE g : Is(g, n)
           S == {k \in Nat : k <= n => \E g \in [1..k -> Seq(T)] : Is(g, k)}
           V == {k \in Nat : 1 <= k /\ k <= n => flatten[k] \in Seq(T)}
<1>1. n \in Nat /\ \A i \in 1..n : seqs[i] \in Seq(T)
  OBVIOUS
<1>2. 0 \in S
  <2> DEFINE g == [i \in 1..0 |-> <<>>]
  <2>1. Is(g, 0) /\ g \in [1..0 -> Seq(T)]
    OBVIOUS
  <2> HIDE DEF g, Is, flatten
  <2> QED BY <2>1
<1>3. ASSUME NEW k \in Nat, k \in S PROVE k + 1 \in S
  <2> HIDE DEF flatten, Is, n
  <2> SUFFICES ASSUME k + 1 <= n PROVE \E g \in [1..k + 1 -> Seq(T)] : Is(g, k + 1)
    OBVIOUS
  <2>1. PICK g \in [1..k -> Seq(T)] : Is(g, k)
    BY <1>1, <1>3
  <2> DEFINE last == IF k = 0 THEN seqs[1] ELSE g[k] \o seqs[k + 1]
             h == [i \in 1..k + 1 |-> IF i = k + 1 THEN last ELSE g[i]]
  <2>2. last \in Seq(T)
    <3>1. k + 1 \in 1..n /\ seqs[k + 1] \in Seq(T)
      BY <1>1
    <3>2. k # 0 => g[k] \in Seq(T)
      OBVIOUS
    <3> QED BY <3>1, <3>2
  <2>3. h \in [1..k + 1 -> Seq(T)]
    <3> HIDE DEF last
    <3> QED BY <2>2
  <2>4. \A i \in 1..k + 1 : h[i] = IF i = 1 THEN seqs[i] ELSE h[i - 1] \o seqs[i]
    <3>1. ASSUME NEW i \in 1..k PROVE h[i] = IF i = 1 THEN seqs[i] ELSE h[i - 1] \o seqs[i]
      <4>1. g[i] = IF i = 1 THEN seqs[i] ELSE g[i - 1] \o seqs[i]
        BY <2>1 DEF Is
      <4>2. h[i] = g[i] /\ (i # 1 => h[i - 1] = g[i - 1])
        <5> HIDE DEF last
        <5>1. i \in 1..k + 1 /\ i # k + 1 /\ (i # 1 => i - 1 \in 1..k + 1 /\ i - 1 # k + 1)
          OBVIOUS
        <5> QED BY <5>1
      <4> QED BY <4>1, <4>2
    <3>2. h[k + 1] = IF k + 1 = 1 THEN seqs[k + 1] ELSE h[k] \o seqs[k + 1]
      <4>1. h[k + 1] = last /\ (k # 0 => h[k] = g[k])
        <5> HIDE DEF last
        <5>1. k + 1 \in 1..k + 1 /\ (k # 0 => k \in 1..k + 1 /\ k # k + 1)
          OBVIOUS
        <5> QED BY <5>1
      <4>2. k + 1 = 1 <=> k = 0
        OBVIOUS
      <4> HIDE DEF h
      <4> QED BY <4>1, <4>2
    <3> HIDE DEF h
    <3>3. \A i \in 1..k + 1 : i \in 1..k \/ i = k + 1
      OBVIOUS
    <3>4. (k + 1) - 1 = k
      OBVIOUS
    <3> QED BY <3>1, <3>2, <3>3, <3>4
  <2>5. Is(h, k + 1)
    <3>1. h = [i \in 1..k + 1 |-> h[i]]
      OBVIOUS
    <3> HIDE DEF h
    <3> QED BY <2>4, <3>1 DEF Is
  <2> QED BY <2>3, <2>5
<1>4. n \in S
  <2> HIDE DEF S
  <2> QED BY <1>1, <1>2, <1>3, Induction
<1>5. Is(flatten, n)
  <2> HIDE DEF Is
  <2>1. \E g : Is(g, n)
    <3> HIDE DEF flatten, n
    <3> QED BY <1>1, <1>4
  <2> QED BY <2>1
<1>6. \A i \in 1..n : flatten[i] = IF i = 1 THEN seqs[i] ELSE flatten[i - 1] \o seqs[i]
  <2> HIDE DEF flatten, n
  <2> QED BY <1>5
<1>7. 0 \in V
  OBVIOUS
<1>8. ASSUME NEW k \in Nat, k \in V PROVE k + 1 \in V
  <2> HIDE DEF flatten, n
  <2> SUFFICES ASSUME k + 1 <= n PROVE flatten[k + 1] \in Seq(T)
    OBVIOUS
  <2>1. k + 1 \in 1..n /\ seqs[k + 1] \in Seq(T) /\ k + 1 - 1 = k
    BY <1>1
  <2>2. flatten[k + 1] = IF k + 1 = 1 THEN seqs[k + 1] ELSE flatten[k] \o seqs[k + 1]
    BY <1>6, <2>1
  <2>3. k # 0 => flatten[k] \in Seq(T)
    BY <1>1, <1>8
  <2> QED BY <2>1, <2>2, <2>3
<1>9. n \in V
  <2> HIDE DEF V
  <2> QED BY <1>1, <1>7, <1>8, Induction
<1>10. FlattenSeq(seqs) = IF n = 0 THEN seqs ELSE flatten[n]
  BY DEF FlattenSeq
<1>11. CASE n = 0
  <2>1. seqs = <<>>
    BY <1>11
  <2> QED BY <1>10, <1>11, <2>1
<1>12. CASE n # 0
  <2> HIDE DEF flatten
  <2> QED BY <1>1, <1>9, <1>10, <1>12
<1> QED BY <1>11, <1>12
----------------------------------------------------------------------------
(* Arguments.                                                              *)

\* The elements of a finite set of numbers are the first, the second, and so
\* on: each number of smaller ones is that of one element.
LEMMA Ranks ==
  ASSUME NEW E \in SUBSET Int, IsFiniteSet(E), NEW i \in 1..Cardinality(E)
  PROVE  \E k \in E : Cardinality({j \in E : j < k}) = i - 1
<1> DEFINE Below(k) == {j \in E : j < k}
           n == Cardinality(E)
           rank == [k \in E |-> Cardinality(Below(k)) + 1]
<1>1. n \in Nat
  BY FS_CardinalityType
<1>2. ASSUME NEW k \in E
      PROVE  IsFiniteSet(Below(k)) /\ rank[k] \in 1..n
  <2>1. /\ IsFiniteSet(Below(k)) /\ Cardinality(Below(k)) <= n
        /\ n = Cardinality(Below(k)) => E = Below(k)
    BY FS_Subset
  <2>2. k \notin Below(k)
    OBVIOUS
  <2>3. Cardinality(Below(k)) \in Nat
    BY <2>1, FS_CardinalityType
  <2> HIDE DEF Below, n
  <2> QED BY <1>1, <2>1, <2>2, <2>3
<1>3. ASSUME NEW k \in E, NEW l \in E, k < l PROVE rank[k] # rank[l]
  <2>1. Below(k) \in SUBSET Below(l) /\ k \in Below(l) /\ k \notin Below(k)
    <3>1. \A j \in E : j \in Int /\ (j < k => j < l)
      BY <1>3
    <3>2. ~(k < k) /\ k < l
      BY <1>3
    <3> QED BY <3>1, <3>2, Zenon
  <2>2. IsFiniteSet(Below(l)) /\ IsFiniteSet(Below(k))
    BY <1>2
  <2> HIDE DEF Below
  <2>3. Cardinality(Below(k)) # Cardinality(Below(l))
    BY <2>1, <2>2, FS_Subset
  <2>4. Cardinality(Below(k)) \in Nat /\ Cardinality(Below(l)) \in Nat
    BY <2>2, FS_CardinalityType
  <2> QED BY <2>3, <2>4
<1>4. rank \in [E -> 1..n]
  <2> HIDE DEF n
  <2> QED BY <1>2
<1>5. rank \in Injection(E, 1..n)
  <2>1. \A k, l \in E : rank[k] = rank[l] => k = l
    <3>1. \A k, l \in E : k < l \/ l < k \/ k = l
      OBVIOUS
    <3> HIDE DEF rank
    <3> QED BY <1>3, <3>1
  <2> HIDE DEF rank
  <2> QED BY <1>4, <2>1 DEF Injection, IsInjective
<1>6. rank \in Surjection(E, 1..n)
  <2>1. IsFiniteSet(1..n) /\ Cardinality(1..n) = n
    BY <1>1, FS_Interval
  <2> HIDE DEF rank
  <2> QED BY <1>5, <2>1, FS_Injection
<1>7. PICK k \in E : rank[k] = i
  BY <1>6 DEF Surjection
<1>8. Cardinality(Below(k)) \in Nat
  BY <1>2, FS_CardinalityType
<1> HIDE DEF Below
<1>9. Cardinality(Below(k)) = i - 1
  BY <1>7, <1>8
<1> QED BY <1>9 DEF Below

\* A finite set of numbers has a least one.
LEMMA MinOf ==
  ASSUME NEW E \in SUBSET Nat, E # {}
  PROVE  Min(E) \in E
BY Least DEF Min

\* Calls of a function-like macro end with a token of the sequence, and the
\* arguments are parts of it.
LEMMA CollectedType ==
  ASSUME NEW T, NEW tokens \in Seq(T), NEW start \in Nat \ {0},
         NEW call \in Collected(tokens, start)
  PROVE  call.last \in start..Len(tokens) /\ call.args \in Seq(Seq(T))
<1> DEFINE Outer(text) == {k \in start..Len(tokens) : /\ tokens[k].text = text
                                                      /\ Depth(tokens, start, k - 1) = 0}
           close == Min(Outer(")"))
           ends == {k \in Outer(",") : k < close} \cup {close}
           End(i) == CHOOSE k \in ends : Cardinality({j \in ends : j < k}) = i - 1
           n == Cardinality(ends)
           from(i) == IF i = 1 THEN start ELSE End(i - 1) + 1
           args == [i \in 1..n |-> SubSeq(tokens, from(i), End(i) - 1)]
<1>1. Outer(")") # {} /\ call = Invocation(IF close = start THEN <<>> ELSE args, close)
  BY DEF Collected
<1>2. \A text : Outer(text) \subseteq start..Len(tokens)
  OBVIOUS
<1> HIDE DEF Outer
<1>3. close \in start..Len(tokens)
  <2>1. Outer(")") \in SUBSET Nat
    BY <1>2
  <2> QED BY <1>1, <1>2, <2>1, MinOf
<1> HIDE DEF close
<1>4. ends \subseteq start..Len(tokens)
  BY <1>2, <1>3
<1>5. IsFiniteSet(ends) /\ ends \in SUBSET Int
  <2>1. start \in Int /\ Len(tokens) \in Int
    OBVIOUS
  <2>2. IsFiniteSet(start..Len(tokens))
    BY <2>1, FS_Interval
  <2>3. start..Len(tokens) \subseteq Int
    OBVIOUS
  <2>4. IsFiniteSet(ends)
    <3> HIDE DEF ends
    <3> QED BY <1>4, <2>2, FS_Subset
  <2> HIDE DEF ends
  <2> QED BY <1>4, <2>3, <2>4
<1> HIDE DEF ends
<1>6. n \in Nat /\ \A i \in 1..n : End(i) \in ends
  BY <1>5, Ranks, FS_CardinalityType
<1> HIDE DEF n, End
<1>7. ASSUME NEW i \in 1..n PROVE SubSeq(tokens, from(i), End(i) - 1) \in Seq(T)
  <2>1. End(i) \in start..Len(tokens)
    BY <1>4, <1>6
  <2>2. from(i) \in Nat \ {0}
    <3>1. i # 1 => i - 1 \in 1..n
      BY <1>6
    <3>2. i # 1 => End(i - 1) \in start..Len(tokens)
      BY <1>4, <1>6, <3>1
    <3> QED BY <3>2
  <2>3. End(i) - 1 \in Int /\ End(i) - 1 <= Len(tokens)
    BY <2>1
  <2> HIDE DEF from
  <2> QED BY <2>2, <2>3, SubSeqType
<1>8. args \in Seq(Seq(T))
  <2> HIDE DEF from
  <2> QED BY <1>6, <1>7
<1> HIDE DEF args
<1> QED BY <1>1, <1>3, <1>8 DEF Invocation

\* The same for patterns.
LEMMA MatchesType ==
  ASSUME NEW T, NEW tokens \in Seq(T), NEW start \in 1..(Len(tokens) + 1),
         NEW m, MacroOK(m), NEW call \in Matches(m, tokens, start)
  PROVE  call.last \in (start - 1)..Len(tokens) /\ call.args \in Seq(Seq(T))
<1> DEFINE Capture(text) == text \in DOMAIN m.slots
           EndsFrom(from, delimiter) ==
             {k \in from..Len(tokens) :
                /\ tokens[k].text = delimiter /\ Depth(tokens, from, k - 1) = 0
                /\ \A j \in from..k - 1 : Depth(tokens, from, j) >= 0}
           n == Len(m.pattern)
           base == {Invocation([s \in 1..m.count |-> <<>>], start - 1)}
           Next1(i, found) ==
             LET from == found.last + 1
                 text == m.pattern[i]
                 ends == IF i = n THEN {} ELSE EndsFrom(from, m.pattern[i + 1])
             IN IF ~Capture(text)
                THEN IF At(tokens, from, text) THEN {[found EXCEPT !.last = from]} ELSE {}
                ELSE IF ends = {} THEN {}
                ELSE {[args |-> [found.args EXCEPT ![m.slots[text]] =
                                   SubSeq(tokens, from, Min(ends) - 1)],
                       last |-> Min(ends) - 1]}
           Is(g, k) == g = [i \in 0..k |-> IF i = 0 THEN base
                                           ELSE UNION {Next1(i, found) : found \in g[i - 1]}]
           matched == CHOOSE g : Is(g, n)
           Shape == [args : [1..m.count -> Seq(T)], last : (start - 1)..Len(tokens)]
           S == {k \in Nat : k <= n => \E g : Is(g, k)}
           V == {k \in Nat : k <= n => matched[k] \subseteq Shape}
<1>1. n \in Nat /\ m.count \in Nat
  BY DEF MacroOK, IsSequence
<1>2. Matches(m, tokens, start) = matched[n]
  BY DEF Matches
<1> HIDE DEF matched
<1>3. ASSUME NEW i \in 1..n, NEW found \in Shape
      PROVE  Next1(i, found) \subseteq Shape
  <2> DEFINE from == found.last + 1
             text == m.pattern[i]
             ends == IF i = n THEN {} ELSE EndsFrom(from, m.pattern[i + 1])
             slot == m.slots[text]
             arg == SubSeq(tokens, from, Min(ends) - 1)
             args == [found.args EXCEPT ![slot] = arg]
  <2>1. /\ found.args \in [1..m.count -> Seq(T)] /\ found.last \in (start - 1)..Len(tokens)
        /\ from \in start..(Len(tokens) + 1) /\ from \in Nat \ {0}
    OBVIOUS
  <2>2. ends \subseteq from..Len(tokens)
    OBVIOUS
  <2>3. /\ ~Capture(text) => Next1(i, found) \subseteq
                               IF At(tokens, from, text) THEN {[found EXCEPT !.last = from]}
                               ELSE {}
        /\ Capture(text) => Next1(i, found) \subseteq
                              IF ends = {} THEN {} ELSE {[args |-> args, last |-> Min(ends) - 1]}
    OBVIOUS
  <2> HIDE DEF Next1, ends
  <2>4. CASE ~Capture(text)
    <3>1. At(tokens, from, text) => from \in (start - 1)..Len(tokens)
      BY <2>1 DEF At
    <3>2. At(tokens, from, text) => [found EXCEPT !.last = from] \in Shape
      <4> HIDE DEF from
      <4> QED BY <3>1
    <3> HIDE DEF from, text, Shape
    <3> QED BY <2>3, <2>4, <3>2
  <2>5. CASE Capture(text) /\ ends # {}
    <3>1. Min(ends) \in from..Len(tokens)
      <4>1. ends \in SUBSET Nat
        BY <2>1, <2>2
      <4> HIDE DEF from
      <4> QED BY <2>2, <2>5, <4>1, MinOf
    <3>2. arg \in Seq(T) /\ Min(ends) - 1 \in (start - 1)..Len(tokens)
      <4>1. Min(ends) - 1 \in Int /\ Min(ends) - 1 <= Len(tokens)
            /\ Min(ends) - 1 \in (start - 1)..Len(tokens)
        BY <2>1, <3>1
      <4> HIDE DEF from
      <4> QED BY <2>1, <4>1, SubSeqType
    <3> HIDE DEF arg, slot, from, text
    <3>3. args \in [1..m.count -> Seq(T)]
      BY <2>1, <3>2
    <3> HIDE DEF args
    <3>4. [args |-> args, last |-> Min(ends) - 1] \in Shape
      BY <3>2, <3>3
    <3> HIDE DEF Shape
    <3> QED BY <2>3, <2>5, <3>4
  <2>6. CASE Capture(text) /\ ends = {}
    <3> HIDE DEF Shape, args
    <3> QED BY <2>3, <2>6
  <2> QED BY <2>4, <2>5, <2>6
<1>4. base \subseteq Shape
  BY <1>1 DEF Invocation
<1> HIDE DEF Next1, base
<1>5. 0 \in S
  <2> DEFINE g == [i \in 0..0 |-> base]
  <2>1. Is(g, 0)
    OBVIOUS
  <2> HIDE DEF g, Is
  <2> QED BY <2>1
<1>6. ASSUME NEW k \in Nat, k \in S PROVE k + 1 \in S
  <2> SUFFICES ASSUME k + 1 <= n PROVE \E g : Is(g, k + 1)
    <3> HIDE DEF Is
    <3> QED OBVIOUS
  <2>1. PICK g : Is(g, k)
    <3> HIDE DEF Is
    <3> QED BY <1>1, <1>6
  <2> DEFINE h == [i \in 0..k + 1 |-> IF i = k + 1 THEN UNION {Next1(i, found) : found \in g[k]}
                                      ELSE g[i]]
  <2>2. ASSUME NEW i \in 0..k
        PROVE  h[i] = IF i = 0 THEN base ELSE UNION {Next1(i, found) : found \in h[i - 1]}
    <3>1. g[i] = IF i = 0 THEN base ELSE UNION {Next1(i, found) : found \in g[i - 1]}
      BY <2>1
    <3>2. h[i] = g[i] /\ (i # 0 => h[i - 1] = g[i - 1])
      OBVIOUS
    <3> HIDE DEF h
    <3> QED BY <3>1, <3>2
  <2>3. h[k + 1] = UNION {Next1(k + 1, found) : found \in h[k]}
    <3>1. h[k + 1] = UNION {Next1(k + 1, found) : found \in g[k]} /\ h[k] = g[k]
      OBVIOUS
    <3> HIDE DEF h
    <3> QED BY <3>1
  <2>4. h = [i \in 0..k + 1 |-> h[i]]
    OBVIOUS
  <2> HIDE DEF h
  <2>5. \A i \in 0..k + 1 :
          h[i] = IF i = 0 THEN base ELSE UNION {Next1(i, found) : found \in h[i - 1]}
    <3>1. \A i \in 0..k + 1 : i \in 0..k \/ i = k + 1
      OBVIOUS
    <3>2. k + 1 # 0 /\ (k + 1) - 1 = k
      OBVIOUS
    <3> QED BY <2>2, <2>3, <3>1, <3>2
  <2>6. Is(h, k + 1)
    BY <2>4, <2>5
  <2> QED BY <2>6
<1>7. n \in S
  <2> HIDE DEF S
  <2> QED BY <1>1, <1>5, <1>6, Induction
<1>8. Is(matched, n)
  <2> HIDE DEF Is
  <2>1. \E g : Is(g, n)
    BY <1>1, <1>7
  <2> QED BY <2>1 DEF matched
<1>9. \A i \in 0..n : matched[i] = IF i = 0 THEN base
                                   ELSE UNION {Next1(i, found) : found \in matched[i - 1]}
  BY <1>8
<1> HIDE DEF Shape
<1>10. 0 \in V
  <2>1. 0 \in 0..n
    BY <1>1
  <2>2. matched[0] = base
    BY <1>9, <2>1
  <2> QED BY <1>4, <2>2
<1>11. ASSUME NEW k \in Nat, k \in V PROVE k + 1 \in V
  <2> SUFFICES ASSUME k + 1 <= n PROVE matched[k + 1] \subseteq Shape
    OBVIOUS
  <2>1. k + 1 \in 1..n /\ k + 1 \in 0..n /\ (k + 1) - 1 = k /\ k <= n /\ k + 1 # 0
    BY <1>1
  <2>2. matched[k] \subseteq Shape
    BY <1>11, <2>1
  <2>3. matched[k + 1] = UNION {Next1(k + 1, found) : found \in matched[k]}
    BY <1>9, <2>1
  <2> QED BY <1>3, <2>1, <2>2, <2>3
<1>12. n \in V
  <2> HIDE DEF V
  <2> QED BY <1>1, <1>10, <1>11, Induction
<1>13. call \in Shape
  BY <1>1, <1>2, <1>12
<1>14. [1..m.count -> Seq(T)] \subseteq Seq(Seq(T))
  BY <1>1
<1> QED BY <1>13, <1>14 DEF Shape

\* An invocation ends with a token of the sequence that it begins in, and its
\* arguments are parts of that sequence.
LEMMA InvokedType ==
  ASSUME NEW T, NEW tokens \in Seq(T), NEW i \in DOMAIN tokens,
         MacroOK(macros[tokens[i].text]), NEW call \in Invoked(tokens, i)
  PROVE  call.last \in i..Len(tokens) /\ call.args \in Seq(Seq(T))
<1> DEFINE m == macros[tokens[i].text]
<1>1. i \in 1..Len(tokens) /\ Len(tokens) \in Nat
  OBVIOUS
<1>2. CASE m.kind = "object"
  <2>1. call = Invocation(<<>>, i)
    BY <1>2, Zenon DEF Invoked
  <2> QED BY <1>1, <2>1 DEF Invocation
<1>3. CASE m.kind = "function"
  <2>1. call \in IF At(tokens, i + 1, "(") THEN Collected(tokens, i + 2) ELSE {}
    BY <1>3, Zenon DEF Invoked
  <2>2. call \in Collected(tokens, i + 2)
    BY <2>1
  <2>3. i + 2 \in Nat \ {0}
    BY <1>1
  <2>4. call.last \in (i + 2)..Len(tokens) /\ call.args \in Seq(Seq(T))
    BY <2>2, <2>3, CollectedType
  <2> QED BY <1>1, <2>4
<1>4. CASE m.kind = "pattern"
  <2>1. call \in Matches(m, tokens, i + 1)
    BY <1>4, Zenon DEF Invoked
  <2>2. i + 1 \in 1..(Len(tokens) + 1) /\ (i + 1) - 1 = i
    BY <1>1
  <2> HIDE DEF m
  <2>3. call.last \in ((i + 1) - 1)..Len(tokens) /\ call.args \in Seq(Seq(T))
    BY <2>1, <2>2, MatchesType DEF m
  <2> QED BY <2>2, <2>3
<1> QED BY <1>2, <1>3, <1>4 DEF MacroOK, Kinds

\* Object-like macros are always invoked, without arguments.
LEMMA ObjectInvoked ==
  ASSUME NEW tokens, NEW i, macros[tokens[i].text].kind = "object"
  PROVE  Invoked(tokens, i) = {Invocation(<<>>, i)}
BY Zenon DEF Invoked

Comma == Token(",", 0)
LEMMA FittedType ==
  ASSUME NEW T, NEW m, MacroOK(m), NEW args \in Seq(Seq(T)), Comma \in T
  PROVE  Fitted(m, args) \in Seq(Seq(T))
<1> DEFINE rest == SubSeq(args, m.count, Len(args))
           joined == [i \in DOMAIN rest |-> IF i = 1 THEN rest[i] ELSE <<Comma>> \o rest[i]]
<1>1. CASE m.kind # "function" \/ m.count = 0
  BY <1>1 DEF Fitted, Comma
<1>2. CASE m.kind = "function" /\ m.count # 0 /\ args = <<>>
  <2>1. Fitted(m, args) = <<<<>>>>
    BY <1>2 DEF Fitted, Comma
  <2>2. <<>> \in Seq(T)
    OBVIOUS
  <2> QED BY <2>1, <2>2
<1>3. CASE m.kind = "function" /\ m.count # 0 /\ args # <<>> /\ Len(args) <= m.count
  <2>1. ~(Len(args) > m.count)
    BY <1>3 DEF MacroOK
  <2>2. Fitted(m, args) = args
    BY <1>3, <2>1 DEF Fitted, Comma
  <2> QED BY <2>2
<1>4. CASE m.kind = "function" /\ m.count # 0 /\ args # <<>> /\ ~(Len(args) <= m.count)
  <2>1. m.count \in Nat \ {0} /\ Len(args) \in Nat /\ Len(args) > m.count
    BY <1>4 DEF MacroOK
  <2>2. Fitted(m, args) = Append(SubSeq(args, 1, m.count - 1), FlattenSeq(joined))
    BY <1>4, <2>1 DEF Fitted, Comma
  <2>3. rest \in Seq(Seq(T))
    BY <2>1, SubSeqType
  <2>4. SubSeq(args, 1, m.count - 1) \in Seq(Seq(T))
    <3>1. m.count - 1 \in Int /\ m.count - 1 <= Len(args) /\ 1 \in Nat \ {0}
      BY <2>1
    <3> QED BY <3>1, SubSeqType
  <2>5. joined \in Seq(Seq(T))
    <3> HIDE DEF rest
    <3>1. <<Comma>> \in Seq(T)
      OBVIOUS
    <3>2. \A i \in DOMAIN rest : rest[i] \in Seq(T) /\ <<Comma>> \o rest[i] \in Seq(T)
      BY <2>3, <3>1
    <3>3. DOMAIN rest = 1..Len(rest) /\ Len(rest) \in Nat
      BY <2>3
    <3>4. joined \in [1..Len(rest) -> Seq(T)]
      BY <3>2, <3>3
    <3> HIDE DEF joined
    <3> QED BY <3>3, <3>4
  <2> HIDE DEF joined
  <2>6. FlattenSeq(joined) \in Seq(T)
    BY <2>5, FlattenType
  <2> QED BY <2>2, <2>4, <2>6
<1> QED BY <1>1, <1>2, <1>3, <1>4

\* The tokens of a replacement have the place of the invocation and the macro
\* as the innermost they come from; their texts are of the body or of the
\* arguments.
LEMMA SubstitutedType ==
  ASSUME NEW X, NEW name \in Names, NEW at \in Nat, MacroOK(macros[name]),
         NEW args \in Seq(Seq(TokensOf(X))),
         \A k \in DOMAIN macros[name].body :
           macros[name].body[k] \in X \cup DOMAIN macros[name].slots
  PROVE  /\ Substituted(name, args, at) \in Seq(TokensOf(X))
         /\ \A k \in DOMAIN Substituted(name, args, at) :
              /\ Substituted(name, args, at)[k].at = at
              /\ Substituted(name, args, at)[k].within # <<>>
<1> DEFINE m == macros[name]
           T == TokensOf(X)
           Argument(text) == IF m.slots[text] <= Len(args) THEN args[m.slots[text]] ELSE <<>>
           Part(text) == IF text \in DOMAIN m.slots THEN Argument(text)
                         ELSE IF text \in Parameters THEN <<>> ELSE <<Token(text, 0)>>
           parts == [k \in DOMAIN m.body |-> Part(m.body[k])]
           tokens == FlattenSeq(parts)
           wrapped == [k \in DOMAIN tokens |-> Wrap(tokens[k], name, at)]
<1>1. Substituted(name, args, at) = wrapped
  BY DEF Substituted
<1>2. m.body \in Seq(Range(m.body))
  BY DEF MacroOK, IsSequence
<1>3. ASSUME NEW k \in DOMAIN m.body PROVE Part(m.body[k]) \in Seq(T)
  <2> DEFINE text == m.body[k]
  <2>1. CASE text \in DOMAIN m.slots
    <3>1. Part(text) = Argument(text) /\ m.slots[text] \in Nat \ {0}
      BY <2>1 DEF MacroOK
    <3>2. args \in Seq(Seq(T))
      OBVIOUS
    <3> DEFINE slot == m.slots[text]
    <3> HIDE DEF Part, T, slot
    <3>3. slot <= Len(args) => args[slot] \in Seq(T)
      BY <3>1, <3>2 DEF slot
    <3>4. <<>> \in Seq(T)
      OBVIOUS
    <3> QED BY <3>1, <3>3, <3>4 DEF slot
  <2>2. CASE text \notin DOMAIN m.slots
    <3>1. Part(text) = <<>> \/ Part(text) = <<Token(text, 0)>>
      BY <2>2
    <3>2. text \in X
      BY <2>2
    <3>3. Token(text, 0) \in T
      BY <3>2 DEF Token, TokensOf
    <3> HIDE DEF Part, T
    <3> DEFINE single == Token(text, 0)
    <3>4. single \in T
      BY <3>3
    <3> HIDE DEF single
    <3>5. <<>> \in Seq(T) /\ <<single>> \in Seq(T)
      BY <3>4
    <3> QED BY <3>1, <3>5 DEF single
  <2> QED BY <2>1, <2>2
<1>4. parts \in Seq(Seq(T))
  <2>1. DOMAIN m.body = 1..Len(m.body) /\ Len(m.body) \in Nat
    BY <1>2
  <2> HIDE DEF Part, T, m
  <2> DEFINE l == Len(m.body)
  <2>2. parts \in [1..l -> Seq(T)] /\ l \in Nat
    BY <1>3, <2>1
  <2> HIDE DEF parts, l
  <2> QED BY <2>1, <2>2
<1>5. tokens \in Seq(T)
  <2> HIDE DEF parts, T
  <2> QED BY <1>4, FlattenType
<1> HIDE DEF tokens
<1>6. ASSUME NEW t \in T
      PROVE  /\ Wrap(t, name, at) \in T /\ Wrap(t, name, at).at = at
             /\ Wrap(t, name, at).within # <<>>
  <2>1. t.within \in Seq(Names) /\ <<name>> \in Seq(Names)
    BY DEF TokensOf
  <2>2. <<name>> \o t.within \in Seq(Names) /\ <<name>> \o t.within # <<>>
    BY <2>1
  <2> DEFINE w == <<name>> \o t.within
  <2>3. Wrap(t, name, at) = [t EXCEPT !.at = at, !.within = w]
    BY DEF Wrap
  <2> HIDE DEF w
  <2>4. w \in Seq(Names) /\ w # <<>>
    BY <2>2 DEF w
  <2> QED BY <2>3, <2>4 DEF TokensOf
<1>7. wrapped \in Seq(T)
  <2>1. /\ DOMAIN tokens = 1..Len(tokens) /\ Len(tokens) \in Nat
        /\ \A k \in DOMAIN tokens : tokens[k] \in T
    <3> HIDE DEF T
    <3> QED BY <1>5
  <2> HIDE DEF T
  <2>2. wrapped \in [1..Len(tokens) -> T]
    BY <1>6, <2>1
  <2> HIDE DEF wrapped
  <2> QED BY <2>1, <2>2
<1>8. \A k \in DOMAIN wrapped : wrapped[k].at = at /\ wrapped[k].within # <<>>
  <2>1. \A k \in DOMAIN tokens : tokens[k] \in T
    <3> HIDE DEF T
    <3> QED BY <1>5
  <2> HIDE DEF T
  <2> QED BY <1>6, <2>1
<1> HIDE DEF wrapped
<1> QED BY <1>1, <1>7, <1>8
----------------------------------------------------------------------------
(* Replacements, in a state of the program.                                *)

LEMMA MacroTypes ==
  ASSUME StateOK, NEW n, IsMacro(n)
  PROVE  /\ n \in Names /\ n \in Defined /\ MacroOK(macros[n])
         /\ \A k \in DOMAIN macros[n].body : macros[n].body[k] \in Texts
<1>1. n \in Names /\ macros[n] # None /\ macros \in Tables
  BY DEF IsMacro, StateOK
<1>2. MacroOK(macros[n])
  BY <1>1, TablesAssumption DEF MacroOK
<1>3. \A k \in DOMAIN macros[n].body : macros[n].body[k] \in Range(macros[n].body)
  BY DEF Range
<1>4. Range(macros[n].body) \subseteq Texts
  BY <1>1 DEF Texts
<1> QED BY <1>1, <1>2, <1>3, <1>4 DEF Defined

LEMMA LineType ==
  ASSUME StateOK
  PROVE  /\ Line \in Seq(Tokens) /\ Len(Line) = Len(source) /\ Len(source) \in Nat
         /\ DOMAIN source = 1..Len(source) /\ DOMAIN Line = DOMAIN source
         /\ \A k \in DOMAIN source : /\ Line[k] = Token(source[k], k) /\ Line[k].text = source[k]
                                     /\ Token(source[k], k) \in Tokens
<1>1. source \in Seq(Range(source))
  BY SourcesAssumption DEF StateOK, IsSequence
<1>2. Len(source) \in Nat /\ DOMAIN source = 1..Len(source)
  BY <1>1
<1>3. \A k \in DOMAIN source : source[k] \in Texts
  BY DEF Texts, Range
<1>4. ASSUME NEW k \in DOMAIN source
      PROVE  Token(source[k], k) \in Tokens /\ Token(source[k], k).text = source[k]
  <2>1. k \in Nat /\ <<>> \in Seq(Names)
    BY <1>2
  <2> QED BY <1>3, <2>1 DEF Token, Tokens, TokensOf
<1>5. DOMAIN Line = DOMAIN source /\ \A k \in DOMAIN source : Line[k] = Token(source[k], k)
  BY DEF Line
<1>6. Line \in [1..Len(source) -> Tokens]
  BY <1>2, <1>4 DEF Line
<1>7. Line \in Seq(Tokens) /\ Len(Line) = Len(source)
  BY <1>2, <1>6
<1> QED BY <1>2, <1>4, <1>5, <1>7

LEMMA LevelTypes ==
  ASSUME StateOK, levels # <<>>
  PROVE  /\ Len(levels) \in Nat \ {0} /\ Len(levels) \in DOMAIN levels
         /\ DOMAIN levels = 1..Len(levels) /\ Last(levels) = levels[Len(levels)]
         /\ Last(levels) \in LevelType /\ Last(levels).tokens \in Seq(Tokens)
         /\ Last(levels).at \in 1..(Len(Last(levels).tokens) + 1)
         /\ Last(levels).hidden \in SUBSET Names
         /\ DOMAIN Last(levels).tokens = 1..Len(Last(levels).tokens)
         /\ Len(Last(levels).tokens) \in Nat
         /\ (Expanding => /\ Last(levels).at \in DOMAIN Last(levels).tokens
                          /\ Current(Last(levels)) \in Tokens)
<1>1. /\ Len(levels) \in Nat \ {0} /\ Len(levels) \in DOMAIN levels
      /\ DOMAIN levels = 1..Len(levels)
  <2>1. levels \in Seq(LevelType)
    BY DEF StateOK, LevelsOK
  <2> HIDE DEF LevelType
  <2> QED BY <2>1
<1>2. Last(levels) = levels[Len(levels)] /\ Last(levels) \in LevelType
  <2>1. levels \in Seq(LevelType)
    BY DEF StateOK, LevelsOK
  <2> HIDE DEF LevelType
  <2> QED BY <1>1, <2>1 DEF Last
<1>3. /\ Last(levels).tokens \in Seq(Tokens) /\ Last(levels).hidden \in SUBSET Names
      /\ Last(levels).at \in 1..(Len(Last(levels).tokens) + 1)
  BY <1>1, <1>2 DEF StateOK, LevelsOK, LevelType
<1>4. /\ DOMAIN Last(levels).tokens = 1..Len(Last(levels).tokens)
      /\ Len(Last(levels).tokens) \in Nat
  BY <1>3
<1>5. Expanding => /\ Last(levels).at \in DOMAIN Last(levels).tokens
                   /\ Current(Last(levels)) \in Tokens
  BY <1>3, <1>4 DEF Expanding, Current
<1> QED BY <1>1, <1>2, <1>3, <1>4, <1>5

\* What a macro leads to has the macros in its body and what they lead to.
LEMMA ReachedCloses ==
  /\ \A n : Uses(n) \subseteq Reached(n)
  /\ \A n : \A m \in Reached(n) : Uses(m) \subseteq Reached(n)
<1>1. \A n : Uses(n) \subseteq Names
  BY DEF Uses
<1>2. \A n : Uses(n) \subseteq Reached(n)
  BY <1>1 DEF Reached
<1>3. ASSUME NEW n, NEW m \in Reached(n) PROVE Uses(m) \subseteq Reached(n)
  <2> SUFFICES ASSUME NEW u \in Uses(m), NEW S \in SUBSET Names,
                      Uses(n) \subseteq S, \A k \in S : Uses(k) \subseteq S
               PROVE  u \in S
    BY <1>1 DEF Reached
  <2>1. m \in S
    BY DEF Reached
  <2> QED BY <2>1
<1> QED BY <1>2, <1>3

\* The macros in a body are of those that the macro uses.
LEMMA BodyUses ==
  ASSUME NEW n, IsMacro(n), NEW k \in DOMAIN macros[n].body, IsMacro(macros[n].body[k])
  PROVE  macros[n].body[k] \in Uses(n)
BY DEF Uses, IsMacro, Range

\* Texts that are macros only if n leads to them.
Leading(n) == {x \in Texts : IsMacro(x) => x \in Reached(n)}
LEMMA LeadingTokens ==
  ASSUME NEW n, NEW tokens
  PROVE  tokens \in Seq(TokensOf(Leading(n))) <=>
           /\ tokens \in Seq(Tokens)
           /\ \A k \in DOMAIN tokens : IsMacro(tokens[k].text) => tokens[k].text \in Reached(n)
<1>1. \A t : t \in TokensOf(Leading(n)) <=>
               t \in Tokens /\ (IsMacro(t.text) => t.text \in Reached(n))
  BY DEF TokensOf, Tokens, Leading
<1> HIDE DEF TokensOf, Tokens
<1>2. ASSUME tokens \in Seq(TokensOf(Leading(n)))
      PROVE  /\ tokens \in Seq(Tokens)
             /\ \A k \in DOMAIN tokens : IsMacro(tokens[k].text) => tokens[k].text \in Reached(n)
  <2>1. \A k \in DOMAIN tokens : tokens[k] \in TokensOf(Leading(n))
    BY <1>2
  <2> QED BY <1>1, <1>2, <2>1
<1>3. ASSUME tokens \in Seq(Tokens),
             \A k \in DOMAIN tokens : IsMacro(tokens[k].text) => tokens[k].text \in Reached(n)
      PROVE  tokens \in Seq(TokensOf(Leading(n)))
  <2>1. \A k \in DOMAIN tokens : tokens[k] \in TokensOf(Leading(n))
    BY <1>1, <1>3
  <2> QED BY <1>3, <2>1
<1> QED BY <1>2, <1>3

\* The replacement of an invocation in the source.
LEMMA InvokeGives ==
  ASSUME StateOK, Reading, IsMacro(Text), NEW call \in Invoked(Line, position)
  PROVE  LET new == Substituted(Text, Fitted(macros[Text], call.args), position)
         IN /\ call.last \in position..Len(source)
            /\ new \in Seq(Tokens)
            /\ \A k \in DOMAIN new : new[k].at = position /\ new[k].within # <<>>
            /\ Leads(new, {Text})
<1> DEFINE args == Fitted(macros[Text], call.args)
           new == Substituted(Text, args, position)
<1>1. /\ position \in DOMAIN source /\ position \in DOMAIN Line /\ position \in Nat
      /\ Line[position].text = Text /\ Line \in Seq(Tokens) /\ Len(Line) = Len(source)
  <2>1. position \in 1..(Len(source) + 1) /\ position <= Len(source)
    BY DEF StateOK, Reading
  <2>2. position \in DOMAIN source
    BY <2>1, LineType
  <2> QED BY <2>1, <2>2, LineType DEF Text
<1>2. /\ Text \in Names /\ MacroOK(macros[Text])
      /\ \A k \in DOMAIN macros[Text].body : macros[Text].body[k] \in Texts
  BY MacroTypes
<1>3. call.last \in position..Len(source) /\ call.args \in Seq(Seq(Tokens))
  BY <1>1, <1>2, InvokedType
<1>4. Comma \in Tokens
  <2>1. <<>> \in Seq(Names) /\ "," \in Texts
    BY DEF Texts
  <2> QED BY <2>1 DEF Comma, Token, Tokens, TokensOf
<1>5. args \in Seq(Seq(Tokens))
  BY <1>2, <1>3, <1>4, FittedType DEF Comma
<1> HIDE DEF args
<1>6. /\ new \in Seq(Tokens)
      /\ \A k \in DOMAIN new : new[k].at = position /\ new[k].within # <<>>
  <2>1. args \in Seq(Seq(TokensOf(Texts)))
    BY <1>5 DEF Tokens
  <2>2. \A k \in DOMAIN macros[Text].body :
          macros[Text].body[k] \in Texts \cup DOMAIN macros[Text].slots
    BY <1>2
  <2>3. position \in Nat /\ Text \in Names /\ MacroOK(macros[Text])
    BY <1>1, <1>2
  <2>4. /\ new \in Seq(TokensOf(Texts))
        /\ \A k \in DOMAIN new : new[k].at = position /\ new[k].within # <<>>
    BY <2>1, <2>2, <2>3, SubstitutedType
  <2> QED BY <2>4 DEF Tokens
<1>7. ASSUME macros[Text].kind = "object" PROVE new \in Seq(TokensOf(Leading(Text)))
  <2>1. args = <<>>
    <3>1. call = Invocation(<<>>, position)
      BY <1>1, <1>7, ObjectInvoked
    <3> QED BY <1>7, <3>1 DEF args, Fitted, Invocation
  <2>2. args \in Seq(Seq(TokensOf(Leading(Text))))
    BY <2>1
  <2>3. \A k \in DOMAIN macros[Text].body : macros[Text].body[k] \in Leading(Text)
    BY <1>2, BodyUses, ReachedCloses DEF Leading
  <2> QED BY <1>1, <1>2, <2>2, <2>3, SubstitutedType
<1>8. Leads(new, {Text})
  <2> HIDE DEF new
  <2> QED BY <1>7, LeadingTokens DEF Leads
<1> QED BY <1>3, <1>6, <1>8 DEF args

\* The replacement of an invocation in a replacement.
LEMMA ExpandGives ==
  ASSUME StateOK, Leads(Last(levels).tokens, Last(levels).hidden),
         Expanding, Visible(Last(levels)),
         NEW call \in Invoked(Last(levels).tokens, Last(levels).at)
  PROVE  LET level == Last(levels)
             token == Current(level)
             new == Substituted(token.text, call.args, token.at)
         IN /\ call.last \in level.at..Len(level.tokens)
            /\ new \in Seq(Tokens)
            /\ \A k \in DOMAIN new : new[k].at = token.at /\ new[k].within # <<>>
            /\ Leads(new, Hide(level.hidden, token.text))
<1> DEFINE level == Last(levels)
           token == Current(level)
           m == token.text
           new == Substituted(m, call.args, token.at)
<1>1. levels # <<>>
  BY DEF Expanding
<1>2. /\ level.tokens \in Seq(Tokens) /\ level.at \in DOMAIN level.tokens /\ token \in Tokens
      /\ token = level.tokens[level.at] /\ Len(levels) \in DOMAIN levels
      /\ level = levels[Len(levels)]
  BY <1>1, LevelTypes DEF Current
<1>3. IsMacro(m)
  BY DEF Visible
<1>4. /\ m \in Names /\ MacroOK(macros[m])
      /\ \A k \in DOMAIN macros[m].body : macros[m].body[k] \in Texts
  BY <1>3, MacroTypes
<1>5. token.at \in Nat
  BY <1>2 DEF Tokens, TokensOf
<1> HIDE DEF level, token
<1>6. call.last \in level.at..Len(level.tokens) /\ call.args \in Seq(Seq(Tokens))
  BY <1>2, <1>4, InvokedType DEF level
<1>7. /\ new \in Seq(Tokens)
      /\ \A k \in DOMAIN new : new[k].at = token.at /\ new[k].within # <<>>
  BY <1>4, <1>5, <1>6, SubstitutedType DEF Tokens
<1>8. ASSUME NEW n \in Hide(level.hidden, m), macros[n].kind = "object"
      PROVE  new \in Seq(TokensOf(Leading(n)))
  <2>1. call.args \in Seq(Seq(TokensOf(Leading(n)))) /\ (n = m \/ m \in Reached(n))
    <3>1. CASE n = m
      <4>1. call = Invocation(<<>>, level.at)
        BY <1>2, <1>8, <3>1, ObjectInvoked DEF level
      <4> QED BY <3>1, <4>1 DEF Invocation
    <3>2. CASE n \in level.hidden
      <4>1. Leads(level.tokens, level.hidden)
        BY DEF level
      <4>2. level.tokens \in Seq(TokensOf(Leading(n)))
        BY <1>2, <1>8, <3>2, <4>1, LeadingTokens DEF Leads
      <4>3. call.args \in Seq(Seq(TokensOf(Leading(n))))
        BY <1>2, <1>4, <4>2, InvokedType DEF level
      <4> QED BY <1>2, <1>3, <1>8, <3>2, <4>1, <4>3 DEF Leads
    <3> QED BY <1>8, <3>1, <3>2 DEF Hide
  <2>2. \A k \in DOMAIN macros[m].body : macros[m].body[k] \in Leading(n)
    BY <1>3, <1>4, <2>1, BodyUses, ReachedCloses DEF Leading
  <2> QED BY <1>4, <1>5, <2>1, <2>2, SubstitutedType
<1>9. Leads(new, Hide(level.hidden, m))
  <2> HIDE DEF new
  <2> QED BY <1>8, LeadingTokens DEF Leads
<1> QED BY <1>6, <1>7, <1>9 DEF level, token
----------------------------------------------------------------------------
(* Levels: what the steps do with the stack of calls.                      *)

\* Neither the table nor the line changes.
LEMMA Constants ==
  ASSUME Same
  PROVE  /\ macros' = macros /\ source' = source
         /\ Tokens' = Tokens /\ LevelType' = LevelType /\ Defined' = Defined
         /\ \A calls : LevelsOK(calls)' <=> LevelsOK(calls)
         /\ \A calls, begun : Nested(calls, begun)' <=> Nested(calls, begun)
         /\ \A n : /\ IsMacro(n)' <=> IsMacro(n)
                   /\ UsesItself(n)' <=> UsesItself(n)
<1>1. macros' = macros /\ source' = source
  BY DEF Same
<1>2. \A n : IsMacro(n)' <=> IsMacro(n)
  BY <1>1 DEF IsMacro
<1>3. Tokens' = Tokens /\ Defined' = Defined
  BY <1>1 DEF Tokens, Texts, TokensOf, Defined, IsMacro
<1>4. LevelType' = LevelType
  BY <1>3 DEF LevelType
<1>5. \A n : Uses(n)' = Uses(n)
  BY <1>1 DEF Uses, IsMacro
<1>6. \A n : Reached(n)' = Reached(n) /\ (UsesItself(n)' <=> UsesItself(n))
  BY <1>5 DEF Reached, UsesItself
<1>7. \A tokens, hidden : Leads(tokens, hidden)' <=> Leads(tokens, hidden)
  BY <1>1, <1>2, <1>6 DEF Leads
<1>8. \A calls : LevelsOK(calls)' <=> LevelsOK(calls)
  BY <1>4 DEF LevelsOK
<1>9. \A calls, begun : Nested(calls, begun)' <=> Nested(calls, begun)
  BY <1>3, <1>7 DEF Nested
<1> QED BY <1>1, <1>2, <1>3, <1>4, <1>6, <1>8, <1>9

\* A call goes on behind what it has read.
LEMMA AdvancedLevels ==
  ASSUME StateOK, NEW begun, Nested(levels, begun), levels # <<>>,
         NEW last \in Last(levels).at..Len(Last(levels).tokens)
  PROVE  /\ LevelsOK(Advanced(last)) /\ Nested(Advanced(last), begun)
         /\ Len(Advanced(last)) = Len(levels) /\ Advanced(last) # <<>>
<1> DEFINE n == Len(levels)
           new == [levels[n] EXCEPT !.at = last + 1]
           calls == [levels EXCEPT ![n] = new]
<1>1. /\ n \in Nat \ {0} /\ n \in DOMAIN levels /\ DOMAIN levels = 1..n
      /\ Last(levels) = levels[n] /\ levels[n] \in LevelType
      /\ levels[n].at \in 1..(Len(levels[n].tokens) + 1) /\ Len(levels[n].tokens) \in Nat
  BY LevelTypes
<1>2. Advanced(last) = calls
  BY DEF Advanced, Past
<1>3. levels \in Seq(LevelType)
  BY DEF StateOK, LevelsOK
<1>4. /\ new \in LevelType /\ new.tokens = levels[n].tokens /\ new.hidden = levels[n].hidden
      /\ new.at = last + 1 /\ last + 1 \in 1..(Len(levels[n].tokens) + 1)
  BY <1>1 DEF LevelType
<1> HIDE DEF new, n, LevelType
<1>5. calls \in Seq(LevelType) /\ Len(calls) = n /\ DOMAIN calls = DOMAIN levels
  BY <1>1, <1>3, <1>4 DEF n
<1>6. calls[n] = new /\ \A l \in DOMAIN levels : l # n => calls[l] = levels[l]
  BY <1>1
<1> HIDE DEF calls
<1>7. \A l \in DOMAIN calls : /\ calls[l].tokens = levels[l].tokens
                              /\ calls[l].hidden = levels[l].hidden
  BY <1>4, <1>5, <1>6
<1>8. LevelsOK(calls)
  BY <1>4, <1>5, <1>6 DEF StateOK, LevelsOK
<1>9. Nested(calls, begun)
  BY <1>5, <1>7 DEF Nested
<1> QED BY <1>1, <1>2, <1>5, <1>8, <1>9 DEF n

\* A call begins, with one macro more.
LEMMA NewLevel ==
  ASSUME NEW rest, NEW begun, NEW tokens \in Seq(Tokens), NEW hidden \in SUBSET Defined,
         LevelsOK(rest), Nested(rest, begun),
         Cardinality(hidden) = Len(rest) + 1, Leads(tokens, hidden),
         \A k \in DOMAIN tokens : tokens[k].at = begun /\ tokens[k].within # <<>>
  PROVE  LET calls == Append(rest, [tokens |-> tokens, at |-> 1, hidden |-> hidden])
         IN LevelsOK(calls) /\ Nested(calls, begun) /\ calls # <<>>
<1> DEFINE new == [tokens |-> tokens, at |-> 1, hidden |-> hidden]
           calls == Append(rest, new)
<1>1. rest \in Seq(LevelType) /\ Len(rest) \in Nat /\ DOMAIN rest = 1..Len(rest)
  <2>1. rest \in Seq(LevelType)
    BY DEF LevelsOK
  <2> HIDE DEF LevelType
  <2> QED BY <2>1
<1>2. /\ new \in LevelType /\ new.tokens = tokens /\ new.hidden = hidden
      /\ new.at \in 1..(Len(new.tokens) + 1)
  BY DEF LevelType, Defined
<1> HIDE DEF new, LevelType
<1>3. calls \in Seq(LevelType) /\ Len(calls) = Len(rest) + 1 /\ DOMAIN calls = 1..(Len(rest) + 1)
  BY <1>1, <1>2
<1>4. calls[Len(rest) + 1] = new /\ \A l \in DOMAIN rest : calls[l] = rest[l]
  BY <1>1
<1>5. \A l \in DOMAIN calls : l \in DOMAIN rest \/ l = Len(rest) + 1
  BY <1>1, <1>3
<1> HIDE DEF calls
<1>6. LevelsOK(calls)
  BY <1>2, <1>3, <1>4, <1>5 DEF LevelsOK
<1>7. Nested(calls, begun)
  <2>1. ASSUME NEW l \in DOMAIN rest
        PROVE  /\ calls[l].hidden \subseteq Defined /\ Cardinality(calls[l].hidden) = l
               /\ Leads(calls[l].tokens, calls[l].hidden)
               /\ \A k \in DOMAIN calls[l].tokens :
                    calls[l].tokens[k].at = begun /\ calls[l].tokens[k].within # <<>>
    BY <1>4 DEF Nested
  <2> DEFINE l == Len(rest) + 1
  <2>2. /\ calls[l].hidden \subseteq Defined /\ Cardinality(calls[l].hidden) = l
        /\ Leads(calls[l].tokens, calls[l].hidden)
        /\ \A k \in DOMAIN calls[l].tokens :
             calls[l].tokens[k].at = begun /\ calls[l].tokens[k].within # <<>>
    BY <1>2, <1>4
  <2> HIDE DEF l
  <2> QED BY <1>5, <2>1, <2>2 DEF Nested, l
<1>8. calls # <<>>
  BY <1>1, <1>3
<1> QED BY <1>6, <1>7, <1>8 DEF calls, new

\* A call returns.
LEMMA FrontLevels ==
  ASSUME StateOK, NEW begun, Nested(levels, begun), levels # <<>>
  PROVE  LevelsOK(Front(levels)) /\ Nested(Front(levels), begun)
<1>1. levels \in Seq(LevelType) /\ Len(levels) \in Nat \ {0} /\ DOMAIN levels = 1..Len(levels)
  BY LevelTypes DEF StateOK, LevelsOK
<1> HIDE DEF LevelType
<1>2. /\ Front(levels) \in Seq(LevelType) /\ DOMAIN Front(levels) \subseteq DOMAIN levels
      /\ \A l \in DOMAIN Front(levels) : Front(levels)[l] = levels[l]
  BY <1>1 DEF Front
<1>3. LevelsOK(Front(levels))
  BY <1>2 DEF StateOK, LevelsOK
<1>4. Nested(Front(levels), begun)
  BY <1>2 DEF Nested
<1> QED BY <1>3, <1>4

\* More than the limit of macros are defined if they hide one another beyond it.
LEMMA DeepIsJustified ==
  ASSUME NEW hidden \in SUBSET Defined, NEW n \in Nat, Cardinality(hidden) = n,
         n > MaxExpansionDepth
  PROVE  Cardinality(Defined) > MaxExpansionDepth
<1>1. IsFiniteSet(Defined)
  <2>1. Defined \in SUBSET Names
    BY DEF Defined
  <2> QED BY <2>1, NamesAssumption, FS_Subset
<1>2. Cardinality(hidden) <= Cardinality(Defined) /\ Cardinality(Defined) \in Nat
  BY <1>1, FS_Subset, FS_CardinalityType
<1> QED BY <1>2, LimitsAssumption

\* The effects of expandRun's first step.
LEMMA ExpandRunGives ==
  ASSUME NEW rest, NEW tokens, NEW hidden, ExpandRun(rest, tokens, hidden)
  PROVE  /\ out' = out /\ stopped' = stopped
         /\ \/ /\ levels' = rest /\ truncated' = TRUE
               /\ diags' = diags \cup {"expansion_depth"} /\ TooDeep(Len(rest) + 1)
            \/ /\ levels' = Append(rest, [tokens |-> tokens, at |-> 1, hidden |-> hidden])
               /\ truncated' = truncated /\ diags' = diags
BY DEF ExpandRun
----------------------------------------------------------------------------
(* The output.                                                             *)

LEMMA AppendOutGives ==
  ASSUME StateOK, NEW t \in Tokens, AppendOut(t)
  PROVE  /\ out' \in Seq(Tokens) /\ Len(out') <= MaxOutputTokens
         /\ truncated' \in BOOLEAN /\ stopped' \in BOOLEAN
         /\ \/ out' = out /\ truncated'
            \/ out' = Append(out, t) /\ truncated' = truncated
<1>1. /\ out \in Seq(Tokens) /\ Len(out) <= MaxOutputTokens
      /\ truncated \in BOOLEAN /\ stopped \in BOOLEAN
  BY DEF StateOK
<1> HIDE DEF Tokens
<1>2. CASE truncated \/ OutputFull
  BY <1>1, <1>2 DEF AppendOut
<1>3. CASE ~truncated /\ ~OutputFull
  <2>1. out' = Append(out, t) /\ truncated' = truncated /\ stopped' = stopped
    BY <1>1, <1>3 DEF AppendOut
  <2>2. Len(out) < MaxOutputTokens
    BY <1>1, <1>3, LimitsAssumption DEF OutputFull
  <2> QED BY <1>1, <2>1, <2>2, LimitsAssumption
<1> QED BY <1>2, <1>3

\* A token joins the output.
LEMMA SourcedAppend ==
  ASSUME NEW tokens, NEW found, NEW before \in Nat, NEW after \in Nat, NEW t,
         tokens \in Seq(Tokens), t \in Tokens, before <= after,
         Sourced(tokens, found, before),
         1 <= t.at, t.at < after,
         t.within = <<>> => \A j \in DOMAIN found : ~Covers(found[j], t.at),
         t.within # <<>> => \E j \in DOMAIN found : found[j][1] = t.at,
         \A i \in DOMAIN tokens : /\ tokens[i].at <= t.at
                                  /\ tokens[i].at = t.at => tokens[i].within # <<>>
  PROVE  Sourced(Append(tokens, t), found, after)
<1> DEFINE n == Len(tokens) + 1
           all == Append(tokens, t)
<1>1. /\ DOMAIN all = 1..n /\ n \in Nat /\ all[n] = t /\ \A i \in 1..(n - 1) : all[i] = tokens[i]
      /\ DOMAIN tokens = 1..(n - 1)
  <2> HIDE DEF Tokens
  <2> QED OBVIOUS
<1>2. \A i \in DOMAIN tokens : tokens[i].at \in Nat
  <2>1. \A i \in DOMAIN tokens : tokens[i] \in Tokens
    <3> HIDE DEF Tokens
    <3> QED OBVIOUS
  <2> QED BY <2>1 DEF Tokens, TokensOf
<1> HIDE DEF all, n, Covers
<1>3. ASSUME NEW i \in DOMAIN all
      PROVE  /\ 1 <= all[i].at /\ all[i].at < after
             /\ all[i].within = <<>> => \A j \in DOMAIN found : ~Covers(found[j], all[i].at)
             /\ all[i].within # <<>> => \E j \in DOMAIN found : found[j][1] = all[i].at
             /\ \A j \in DOMAIN all : i < j => /\ all[i].at <= all[j].at
                                               /\ all[i].at = all[j].at => all[i].within # <<>>
  <2>1. CASE i = n
    <3>1. \A j \in DOMAIN all : ~(i < j)
      BY <1>1, <2>1
    <3> QED BY <1>1, <2>1, <3>1
  <2>2. CASE i \in 1..(n - 1)
    <3>1. all[i] = tokens[i] /\ i \in DOMAIN tokens
      BY <1>1, <2>2
    <3>2. /\ 1 <= tokens[i].at /\ tokens[i].at < before
          /\ tokens[i].within = <<>> => \A j \in DOMAIN found : ~Covers(found[j], tokens[i].at)
          /\ tokens[i].within # <<>> => \E j \in DOMAIN found : found[j][1] = tokens[i].at
          /\ \A j \in DOMAIN tokens : i < j =>
               /\ tokens[i].at <= tokens[j].at
               /\ tokens[i].at = tokens[j].at => tokens[i].within # <<>>
      BY <3>1 DEF Sourced
    <3>3. tokens[i].at < after
      BY <1>2, <3>1, <3>2
    <3>4. ASSUME NEW j \in DOMAIN all, i < j
          PROVE  all[i].at <= all[j].at /\ (all[i].at = all[j].at => all[i].within # <<>>)
      <4>1. CASE j = n
        BY <1>1, <3>1, <4>1
      <4>2. CASE j \in 1..(n - 1)
        BY <1>1, <3>1, <3>2, <3>4, <4>2
      <4> QED BY <1>1, <4>1, <4>2
    <3> QED BY <3>1, <3>2, <3>3, <3>4
  <2> QED BY <1>1, <2>1, <2>2
<1> QED BY <1>3 DEF Sourced, all

\* An invocation in the source joins the others: it is behind all that has
\* been read.
LEMMA InvocationAppend ==
  ASSUME NEW tokens, NEW found, NEW before \in Nat \ {0}, NEW last \in Nat,
         tokens \in Seq(Tokens), found \in Seq(Nat \X Nat), before <= last,
         Follow(found, before), Sourced(tokens, found, before)
  PROVE  LET all == Append(found, <<before, last>>)
         IN /\ all \in Seq(Nat \X Nat) /\ all # <<>> /\ Last(all)[1] = before
            /\ Follow(all, last + 1) /\ Sourced(tokens, all, last + 1)
            /\ Complete(tokens, found, before) => Complete(tokens, all, last + 1)
<1> DEFINE new == <<before, last>>
           n == Len(found) + 1
           all == Append(found, new)
<1>1. new \in Nat \X Nat /\ new[1] = before /\ new[2] = last
  OBVIOUS
<1> HIDE DEF new
<1>2. /\ DOMAIN all = 1..n /\ n \in Nat \ {0} /\ all[n] = new
      /\ \A i \in 1..(n - 1) : all[i] = found[i]
      /\ DOMAIN found = 1..(n - 1) /\ all \in Seq(Nat \X Nat) /\ Len(all) = n
  BY <1>1
<1>3. \A i \in DOMAIN found : found[i][1] \in Nat /\ found[i][2] \in Nat
  <2>1. \A i \in DOMAIN found : found[i] \in Nat \X Nat
    OBVIOUS
  <2> QED BY <2>1
<1>4. \A i \in DOMAIN tokens : tokens[i].at \in Nat
  <2>1. \A i \in DOMAIN tokens : tokens[i] \in Tokens
    <3> HIDE DEF Tokens
    <3> QED OBVIOUS
  <2> QED BY <2>1 DEF Tokens, TokensOf
<1>5. all # <<>> /\ Last(all)[1] = before
  BY <1>1, <1>2 DEF Last
<1> HIDE DEF all, n
<1>6. \A i \in DOMAIN found : i \in DOMAIN all /\ all[i] = found[i]
  BY <1>2
<1>7. n \in DOMAIN all /\ all[n][1] = before /\ all[n][2] = last
  BY <1>1, <1>2
<1>8. \A i \in DOMAIN all : i = n \/ (i \in DOMAIN found /\ i < n)
  <2>1. \A i \in 1..n : i = n \/ (i \in 1..(n - 1) /\ i < n)
    BY <1>2
  <2>2. DOMAIN all = 1..n /\ DOMAIN found = 1..(n - 1)
    BY <1>2
  <2> QED BY <2>1, <2>2
<1>9. \A i \in DOMAIN all : i <= n
  BY <1>2
<1>10. \A i \in DOMAIN found : i \in Int
  BY <1>2
<1>11. Follow(all, last + 1)
  <2>1. ASSUME NEW i \in DOMAIN found
        PROVE  /\ 1 <= all[i][1] /\ all[i][1] <= all[i][2] /\ all[i][2] < last + 1
               /\ \A j \in DOMAIN all : i < j => all[i][2] < all[j][1]
    <3>1. /\ 1 <= found[i][1] /\ found[i][1] <= found[i][2] /\ found[i][2] < before
          /\ \A j \in DOMAIN found : i < j => found[i][2] < found[j][1]
      BY DEF Follow
    <3>2. found[i][2] < last + 1
      BY <1>3, <3>1
    <3> QED BY <1>6, <1>7, <1>8, <3>1, <3>2
  <2>2. /\ 1 <= all[n][1] /\ all[n][1] <= all[n][2] /\ all[n][2] < last + 1
        /\ \A j \in DOMAIN all : ~(n < j)
    BY <1>2, <1>7, <1>9
  <2> QED BY <1>8, <2>1, <2>2 DEF Follow
<1>12. Sourced(tokens, all, last + 1)
  <2> SUFFICES ASSUME NEW i \in DOMAIN tokens
               PROVE  /\ 1 <= tokens[i].at /\ tokens[i].at < last + 1
                      /\ tokens[i].within = <<>> =>
                           \A j \in DOMAIN all : ~Covers(all[j], tokens[i].at)
                      /\ tokens[i].within # <<>> => \E j \in DOMAIN all : all[j][1] = tokens[i].at
                      /\ \A j \in DOMAIN tokens : i < j =>
                           /\ tokens[i].at <= tokens[j].at
                           /\ tokens[i].at = tokens[j].at => tokens[i].within # <<>>
    BY DEF Sourced
  <2>1. /\ 1 <= tokens[i].at /\ tokens[i].at < before
        /\ tokens[i].within = <<>> => \A j \in DOMAIN found : ~Covers(found[j], tokens[i].at)
        /\ tokens[i].within # <<>> => \E j \in DOMAIN found : found[j][1] = tokens[i].at
        /\ \A j \in DOMAIN tokens : i < j =>
             /\ tokens[i].at <= tokens[j].at
             /\ tokens[i].at = tokens[j].at => tokens[i].within # <<>>
    BY DEF Sourced
  <2>2. tokens[i].at < last + 1 /\ ~Covers(all[n], tokens[i].at)
    BY <1>4, <1>7, <2>1 DEF Covers
  <2> HIDE DEF Covers
  <2>3. tokens[i].within = <<>> => \A j \in DOMAIN all : ~Covers(all[j], tokens[i].at)
    BY <1>6, <1>8, <2>1, <2>2
  <2>4. tokens[i].within # <<>> => \E j \in DOMAIN all : all[j][1] = tokens[i].at
    BY <1>6, <2>1
  <2> QED BY <2>1, <2>2, <2>3, <2>4
<1>13. ASSUME Complete(tokens, found, before) PROVE Complete(tokens, all, last + 1)
  <2> SUFFICES ASSUME NEW k \in 1..last
               PROVE  \/ \E i \in DOMAIN tokens : tokens[i].at = k /\ tokens[i].within = <<>>
                      \/ \E j \in DOMAIN all : Covers(all[j], k)
    <3>1. (last + 1) - 1 = last
      OBVIOUS
    <3> QED BY <3>1 DEF Complete
  <2>1. CASE k < before
    <3>1. k \in 1..(before - 1)
      BY <2>1
    <3> QED BY <1>6, <1>13, <3>1 DEF Complete
  <2>2. CASE before <= k
    <3>1. Covers(all[n], k)
      BY <1>7, <2>2 DEF Covers
    <3> QED BY <1>7, <3>1
  <2> QED BY <2>1, <2>2
<1> QED BY <1>2, <1>5, <1>11, <1>12, <1>13 DEF all, new

\* Reading on does not disturb what has been read.
LEMMA FollowLater ==
  ASSUME NEW found \in Seq(Nat \X Nat), NEW before \in Nat, NEW after \in Nat,
         before <= after, Follow(found, before)
  PROVE  Follow(found, after)
<1>1. \A i \in DOMAIN found : found[i] \in Nat \X Nat
  OBVIOUS
<1>2. \A i \in DOMAIN found : found[i][2] \in Nat
  BY <1>1
<1>3. \A i \in DOMAIN found : found[i][2] < before => found[i][2] < after
  BY <1>2
<1> QED BY <1>3 DEF Follow

LEMMA SourcedLater ==
  ASSUME NEW tokens \in Seq(Tokens), NEW found, NEW before \in Nat, NEW after \in Nat,
         before <= after, Sourced(tokens, found, before)
  PROVE  Sourced(tokens, found, after)
<1>1. \A i \in DOMAIN tokens : tokens[i] \in Tokens
  <2> HIDE DEF Tokens
  <2> QED OBVIOUS
<1>2. \A i \in DOMAIN tokens : tokens[i].at \in Nat
  BY <1>1 DEF Tokens, TokensOf
<1>3. \A i \in DOMAIN tokens : tokens[i].at < before => tokens[i].at < after
  BY <1>2
<1> HIDE DEF Tokens
<1> QED BY <1>3 DEF Sourced

LEMMA CompleteAppend ==
  ASSUME NEW tokens \in Seq(Tokens), NEW found, NEW before \in Nat \ {0}, NEW t \in Tokens,
         Complete(tokens, found, before)
  PROVE  /\ Complete(Append(tokens, t), found, before)
         /\ t.at = before /\ t.within = <<>> => Complete(Append(tokens, t), found, before + 1)
<1> DEFINE n == Len(tokens) + 1
           all == Append(tokens, t)
<1>1. /\ n \in DOMAIN all /\ all[n] = t
      /\ \A i \in DOMAIN tokens : i \in DOMAIN all /\ all[i] = tokens[i]
  <2> HIDE DEF Tokens
  <2> QED OBVIOUS
<1> HIDE DEF all, n
<1>2. ASSUME NEW k \in 1..(before - 1)
      PROVE  \/ \E i \in DOMAIN all : all[i].at = k /\ all[i].within = <<>>
             \/ \E j \in DOMAIN found : Covers(found[j], k)
  <2>1. CASE \E i \in DOMAIN tokens : tokens[i].at = k /\ tokens[i].within = <<>>
    BY <1>1, <2>1
  <2> QED BY <2>1 DEF Complete
<1>3. ASSUME t.at = before, t.within = <<>>, NEW k \in 1..((before + 1) - 1)
      PROVE  \/ \E i \in DOMAIN all : all[i].at = k /\ all[i].within = <<>>
             \/ \E j \in DOMAIN found : Covers(found[j], k)
  <2>1. k \in 1..(before - 1) \/ k = before
    OBVIOUS
  <2> QED BY <1>1, <1>2, <1>3, <2>1
<1> QED BY <1>2, <1>3 DEF Complete, all

\* The names in the output that have to be expanded are the same as before.
LEMMA NamesUnchanged ==
  ASSUME NamesAreExpanded, Same, out' = out
  PROVE  NamesAreExpanded'
<1>1. macros' = macros /\ \A n : /\ IsMacro(n)' <=> IsMacro(n)
                                 /\ UsesItself(n)' <=> UsesItself(n)
  BY Constants
<1> QED BY <1>1 DEF NamesAreExpanded

\* A token of an object-like macro that joins the output uses itself.
LEMMA NamesAppend ==
  ASSUME NamesAreExpanded, Same, NEW t, out \in Seq(Tokens),
         out' = out \/ out' = Append(out, t),
         IsMacro(t.text) /\ macros[t.text].kind = "object" => UsesItself(t.text)
  PROVE  NamesAreExpanded'
<1>1. \A i \in DOMAIN out : IsMacro(out[i].text) /\ macros[out[i].text].kind = "object" =>
                              UsesItself(out[i].text)
  BY DEF NamesAreExpanded, Range
<1>2. \A i \in DOMAIN out' : out'[i] = t \/ (i \in DOMAIN out /\ out'[i] = out[i])
  <2> HIDE DEF Tokens
  <2> QED OBVIOUS
<1>3. \A i \in DOMAIN out' : IsMacro(out'[i].text) /\ macros[out'[i].text].kind = "object" =>
                               UsesItself(out'[i].text)
  BY <1>1, <1>2
<1>4. macros' = macros /\ \A n : /\ IsMacro(n)' <=> IsMacro(n)
                                 /\ UsesItself(n)' <=> UsesItself(n)
  BY Constants
<1>5. \A u \in Range(out') : \E i \in DOMAIN out' : u = out'[i]
  BY DEF Range
<1>6. \A u \in Range(out') :
        IsMacro(u.text) /\ macros[u.text].kind = "object" => UsesItself(u.text)
  BY <1>3, <1>5
<1> QED BY <1>4, <1>6 DEF NamesAreExpanded
----------------------------------------------------------------------------
(* The inductive invariant, by the steps.                                  *)

LEMMA Initially == Init => Inv
<1> SUFFICES ASSUME Init PROVE Inv
  OBVIOUS
<1>1. Len(source) \in Nat
  <2>1. source \in Seq(Range(source))
    BY SourcesAssumption DEF Init, IsSequence
  <2> QED BY <2>1
<1>2. StateOK
  <2>1. LevelsOK(levels)
    BY DEF Init, LevelsOK
  <2>2. Len(out) = 0 /\ out \in Seq(Tokens)
    BY DEF Init
  <2>3. invocations \in Seq(Nat \X Nat)
    BY DEF Init
  <2>4. position \in 1..(Len(source) + 1)
    BY <1>1 DEF Init
  <2>5. Len(out) <= MaxOutputTokens
    BY <2>2, LimitsAssumption
  <2> QED BY <2>1, <2>2, <2>3, <2>4, <2>5 DEF Init, StateOK
<1>3. Nested(levels, Begun)
  BY DEF Init, Nested
<1>4. NamesAreExpanded
  BY DEF Init, NamesAreExpanded, Range
<1>5. /\ Follow(invocations, position) /\ Sourced(out, invocations, position)
      /\ Complete(out, invocations, position)
  BY DEF Init, Follow, Sourced, Complete
<1> QED BY <1>2, <1>3, <1>4, <1>5 DEF Inv, Init

\* Where the source is read.
LEMMA ReadingGives ==
  ASSUME StateOK, Reading
  PROVE  /\ position \in Nat \ {0} /\ position \in DOMAIN source /\ Len(source) \in Nat
         /\ position \in 1..Len(source)
         /\ Token(Text, position) \in Tokens
         /\ Token(Text, position).text = Text /\ Token(Text, position).at = position
         /\ Token(Text, position).within = <<>>
         /\ Line[position].text = Text
<1>1. Len(source) \in Nat /\ DOMAIN source = 1..Len(source)
  BY LineType
<1>2. position \in 1..Len(source)
  BY <1>1 DEF StateOK, Reading
<1> QED BY <1>1, <1>2, LineType DEF Text, Token

\* What a step that appends a token of the source keeps.
LEMMA SourceToken ==
  ASSUME Inv, Reading, Same, AppendOut(Token(Text, position)),
         UNCHANGED <<levels, invocations>>, position' \in (position + 1)..(Len(source) + 1),
         IsMacro(Text) => macros[Text].kind # "object",
         diags' \subseteq {"expansion_depth", "unterminated_invocation"},
         "expansion_depth" \in diags' => "expansion_depth" \in diags,
         ~truncated' /\ "unterminated_invocation" \notin diags' =>
           position' = position + 1 /\ "unterminated_invocation" \notin diags
  PROVE  Inv'
<1> DEFINE t == Token(Text, position)
<1>1. StateOK /\ Nested(levels, Begun) /\ Follow(invocations, position)
      /\ Sourced(out, invocations, position) /\ NamesAreExpanded
  BY DEF Inv
<1>2. /\ position \in Nat \ {0} /\ position \in DOMAIN source /\ Len(source) \in Nat
      /\ t \in Tokens /\ t.text = Text /\ t.at = position /\ t.within = <<>>
  BY <1>1, ReadingGives
<1> HIDE DEF t
<1>3. /\ macros' = macros /\ source' = source /\ Tokens' = Tokens /\ Defined' = Defined
      /\ levels' = <<>> /\ levels = <<>> /\ invocations' = invocations
  BY Constants DEF Reading
<1>4. position' \in Nat \ {0} /\ position <= position' /\ position < position'
      /\ position' \in 1..(Len(source) + 1)
  BY <1>2
<1>5. /\ out' \in Seq(Tokens) /\ Len(out') <= MaxOutputTokens
      /\ truncated' \in BOOLEAN /\ stopped' \in BOOLEAN
      /\ \/ out' = out /\ truncated'
         \/ out' = Append(out, t) /\ truncated' = truncated
  BY <1>1, <1>2, AppendOutGives DEF t
<1>6. out \in Seq(Tokens) /\ invocations \in Seq(Nat \X Nat)
  BY <1>1 DEF StateOK
<1>7. StateOK'
  <2>1. LevelsOK(levels)'
    BY <1>3 DEF LevelsOK
  <2>2. macros' \in Tables /\ source' \in Sources
    BY <1>1, <1>3 DEF StateOK
  <2> QED BY <1>3, <1>4, <1>5, <1>6, <2>1, <2>2 DEF StateOK
<1>8. Nested(levels, Begun)'
  BY <1>3 DEF Nested
<1>9. NamesAreExpanded'
  BY <1>1, <1>2, <1>5, <1>6, NamesAppend
<1>10. Follow(invocations, position)'
  <2>1. Follow(invocations, position')
    BY <1>1, <1>2, <1>4, <1>6, FollowLater
  <2> QED BY <1>3, <2>1 DEF Follow
<1>11. Sourced(out', invocations, position')
  <2>1. CASE out' = out
    BY <1>1, <1>2, <1>4, <1>6, <2>1, SourcedLater
  <2>2. CASE out' = Append(out, t)
    <3>1. \A j \in DOMAIN invocations : ~Covers(invocations[j], t.at)
      <4>1. \A j \in DOMAIN invocations : invocations[j] \in Nat \X Nat
        BY <1>6
      <4>2. \A j \in DOMAIN invocations : /\ invocations[j][2] \in Nat
                                          /\ invocations[j][2] < position
        BY <1>1, <4>1 DEF Follow
      <4>3. \A j \in DOMAIN invocations : ~(position <= invocations[j][2])
        BY <1>2, <4>2
      <4> QED BY <1>2, <4>3 DEF Covers
    <3>2. \A i \in DOMAIN out : out[i].at <= t.at /\ ~(out[i].at = t.at)
      <4>1. \A i \in DOMAIN out : out[i] \in Tokens
        <5> HIDE DEF Tokens
        <5> QED BY <1>6
      <4>2. \A i \in DOMAIN out : out[i].at \in Nat /\ out[i].at < position
        BY <1>1, <4>1 DEF Tokens, TokensOf, Sourced
      <4> QED BY <1>2, <4>2
    <3>3. 1 <= t.at /\ t.at < position'
      BY <1>2, <1>4
    <3>4. position \in Nat /\ position' \in Nat
      BY <1>2, <1>4
    <3>5. Sourced(Append(out, t), invocations, position')
      BY <1>1, <1>2, <1>4, <1>6, <3>1, <3>2, <3>3, <3>4, SourcedAppend
    <3> QED BY <2>2, <3>5
  <2> QED BY <1>5, <2>1, <2>2
<1>12. Sourced(out, invocations, position)'
  BY <1>3, <1>11 DEF Sourced
<1>13. ASSUME ~truncated', "unterminated_invocation" \notin diags'
       PROVE  Complete(out', invocations, position')
  <2>1. out' = Append(out, t) /\ ~truncated /\ position' = position + 1
    BY <1>5, <1>13
  <2>2. Complete(out, invocations, position)
    BY <1>13, <2>1 DEF Inv
  <2> QED BY <1>2, <1>6, <2>1, <2>2, CompleteAppend
<1>14. ~truncated' /\ "unterminated_invocation" \notin diags' =>
        Complete(out, invocations, position)'
  BY <1>3, <1>13 DEF Complete
<1>15. "expansion_depth" \in diags' => Cardinality(Defined') > MaxExpansionDepth
  BY <1>3 DEF Inv
<1> QED BY <1>3, <1>7, <1>8, <1>9, <1>10, <1>12, <1>14, <1>15 DEF Inv

LEMMA EmitKeeps == Inv /\ Emit => Inv'
<1> SUFFICES ASSUME Inv, Emit PROVE Inv'
  OBVIOUS
<1>1. StateOK /\ Reading
  BY DEF Inv, Emit
<1>2. position \in 1..Len(source) /\ Len(source) \in Nat /\ Line[position].text = Text
  BY <1>1, ReadingGives
<1>3. IsMacro(Text) => macros[Text].kind # "object"
  <2> SUFFICES ASSUME IsMacro(Text), macros[Text].kind = "object" PROVE FALSE
    OBVIOUS
  <2>1. Invoked(Line, position) = {}
    BY DEF Emit
  <2>2. Invoked(Line, position) # {}
    BY <1>2, ObjectInvoked
  <2> QED BY <2>1, <2>2
<1>4. /\ Same /\ AppendOut(Token(Text, position)) /\ UNCHANGED <<levels, invocations>>
      /\ position' = position + 1 /\ diags' = diags
  BY DEF Emit
<1>5. position' \in (position + 1)..(Len(source) + 1)
  BY <1>2, <1>4
<1>6. diags' \subseteq {"expansion_depth", "unterminated_invocation"}
  BY <1>1, <1>4 DEF StateOK
<1> QED BY <1>1, <1>3, <1>4, <1>5, <1>6, SourceToken

LEMMA UnterminatedKeeps == Inv /\ Unterminated => Inv'
<1> SUFFICES ASSUME Inv, Unterminated PROVE Inv'
  OBVIOUS
<1>1. StateOK /\ Reading
  BY DEF Inv, Unterminated
<1>2. position \in 1..Len(source) /\ Len(source) \in Nat
  BY <1>1, ReadingGives
<1>3. macros[Text].kind # "object"
  BY DEF Unterminated
<1>4. /\ Same /\ AppendOut(Token(Text, position)) /\ UNCHANGED <<levels, invocations>>
      /\ position' = Len(source) + 1 /\ diags' = diags \cup {"unterminated_invocation"}
  BY DEF Unterminated
<1>5. position' \in (position + 1)..(Len(source) + 1)
  BY <1>2, <1>4
<1>6. diags' \subseteq {"expansion_depth", "unterminated_invocation"}
  BY <1>1, <1>4 DEF StateOK
<1> QED BY <1>1, <1>3, <1>4, <1>5, <1>6, SourceToken

LEMMA InvokeKeeps == Inv /\ Invoke => Inv'
<1> SUFFICES ASSUME Inv, Invoke PROVE Inv'
  OBVIOUS
<1>1. StateOK /\ Reading /\ IsMacro(Text) /\ Same
  BY DEF Inv, Invoke
<1>2. PICK call \in Invoked(Line, position) :
        LET args == Fitted(macros[Text], call.args)
        IN /\ invocations' = Append(invocations, <<position, call.last>>)
           /\ ExpandRun(<<>>, Substituted(Text, args, position), Hide({}, Text))
           /\ position' = call.last + 1
  BY DEF Invoke
<1> DEFINE new == Substituted(Text, Fitted(macros[Text], call.args), position)
           hidden == Hide({}, Text)
           all == Append(invocations, <<position, call.last>>)
<1>3. /\ position \in Nat \ {0} /\ Len(source) \in Nat /\ levels = <<>>
      /\ out \in Seq(Tokens) /\ invocations \in Seq(Nat \X Nat)
  BY <1>1, ReadingGives DEF StateOK, Reading
<1>4. /\ call.last \in position..Len(source) /\ new \in Seq(Tokens)
      /\ \A k \in DOMAIN new : new[k].at = position /\ new[k].within # <<>>
      /\ Leads(new, hidden)
  BY <1>1, InvokeGives DEF Hide
<1>5. /\ hidden \in SUBSET Defined /\ Cardinality(hidden) = 1
  BY <1>1, FS_Singleton, MacroTypes DEF Hide
<1>6. invocations' = all /\ ExpandRun(<<>>, new, hidden) /\ position' = call.last + 1
  BY <1>2
<1>7. /\ all \in Seq(Nat \X Nat) /\ all # <<>> /\ Last(all)[1] = position
      /\ Follow(all, call.last + 1) /\ Sourced(out, all, call.last + 1)
      /\ Complete(out, invocations, position) => Complete(out, all, call.last + 1)
  <2>1. Follow(invocations, position) /\ Sourced(out, invocations, position)
    BY DEF Inv
  <2>2. call.last \in Nat /\ position <= call.last
    BY <1>3, <1>4
  <2> QED BY <1>3, <2>1, <2>2, InvocationAppend
<1>8. /\ macros' = macros /\ source' = source /\ Tokens' = Tokens /\ Defined' = Defined
  BY <1>1, Constants
<1> HIDE DEF new, hidden, all
<1>9. /\ out' = out /\ stopped' = stopped
      /\ \/ /\ levels' = <<>> /\ truncated' = TRUE
            /\ diags' = diags \cup {"expansion_depth"} /\ TooDeep(Len(<<>>) + 1)
         \/ /\ levels' = Append(<<>>, [tokens |-> new, at |-> 1, hidden |-> hidden])
            /\ truncated' = truncated /\ diags' = diags
  BY <1>6, ExpandRunGives
<1>10. Begun' = position
  BY <1>6, <1>7 DEF Begun
<1>11. LevelsOK(levels') /\ Nested(levels', position)
  <2>1. LevelsOK(<<>>) /\ Nested(<<>>, position)
    BY DEF LevelsOK, Nested
  <2>2. LET calls == Append(<<>>, [tokens |-> new, at |-> 1, hidden |-> hidden])
        IN LevelsOK(calls) /\ Nested(calls, position)
    <3>1. Cardinality(hidden) = Len(<<>>) + 1
      BY <1>5
    <3> QED BY <1>4, <1>5, <2>1, <3>1, NewLevel
  <2> QED BY <1>9, <2>1, <2>2
<1>12. LevelsOK(levels)' /\ Nested(levels, Begun)'
  BY <1>1, <1>10, <1>11, Constants
<1>13. StateOK'
  <2>1. position' \in 1..(Len(source') + 1)
    BY <1>3, <1>4, <1>6, <1>8
  <2>2. /\ truncated' \in BOOLEAN /\ stopped' \in BOOLEAN
        /\ diags' \subseteq {"expansion_depth", "unterminated_invocation"}
    BY <1>1, <1>9 DEF StateOK
  <2>3. macros' \in Tables /\ source' \in Sources /\ out' \in Seq(Tokens')
        /\ Len(out') <= MaxOutputTokens /\ invocations' \in Seq(Nat \X Nat)
    BY <1>1, <1>6, <1>7, <1>8, <1>9 DEF StateOK
  <2> QED BY <1>12, <2>1, <2>2, <2>3 DEF StateOK
<1>14. "expansion_depth" \in diags' => Cardinality(Defined') > MaxExpansionDepth
  <2>1. CASE diags' = diags
    BY <1>8, <2>1 DEF Inv
  <2>2. CASE TooDeep(Len(<<>>) + 1)
    <3>1. 1 > MaxExpansionDepth
      BY <2>2 DEF TooDeep
    <3>2. Cardinality(Defined) > MaxExpansionDepth
      BY <1>5, <3>1, DeepIsJustified
    <3> QED BY <1>8, <3>2
  <2> QED BY <1>9, <2>1, <2>2
<1>15. NamesAreExpanded'
  BY <1>1, <1>3, <1>9, NamesUnchanged DEF Inv
<1>16. levels' # <<>> => invocations' # <<>> /\ \A i \in DOMAIN out' : out'[i].at <= Begun'
  <2>1. \A i \in DOMAIN out : out[i].at <= position
    <3>1. \A i \in DOMAIN out : out[i] \in Tokens
      BY <1>3
    <3>2. \A i \in DOMAIN out : out[i].at \in Nat /\ out[i].at < position
      BY <3>1 DEF Inv, Sourced, Tokens, TokensOf
    <3> QED BY <1>3, <3>2
  <2> QED BY <1>6, <1>7, <1>9, <1>10, <2>1
<1>17. Follow(invocations, position)' /\ Sourced(out, invocations, position)'
  <2>1. Follow(invocations', position') /\ Sourced(out', invocations', position')
    BY <1>6, <1>7, <1>9
  <2> QED BY <2>1 DEF Follow, Sourced
<1>18. ~truncated' /\ "unterminated_invocation" \notin diags' =>
        Complete(out, invocations, position)'
  <2> SUFFICES ASSUME ~truncated', "unterminated_invocation" \notin diags'
               PROVE  Complete(out', invocations', position')
    BY DEF Complete
  <2>1. ~truncated /\ "unterminated_invocation" \notin diags
    BY <1>9
  <2> QED BY <1>6, <1>7, <1>9, <2>1 DEF Inv
<1> QED BY <1>12, <1>13, <1>14, <1>15, <1>16, <1>17, <1>18 DEF Inv

\* Where a replacement is read.
LEMMA ExpandingGives ==
  ASSUME Inv, Expanding
  PROVE  LET level == Last(levels)
             token == Current(level)
         IN /\ levels # <<>> /\ invocations # <<>> /\ Len(levels) \in Nat \ {0}
            /\ level.tokens \in Seq(Tokens) /\ level.at \in level.at..Len(level.tokens)
            /\ token \in Tokens /\ token.at = Begun /\ token.within # <<>>
            /\ level.hidden \in SUBSET Defined /\ Cardinality(level.hidden) = Len(levels)
            /\ Leads(level.tokens, level.hidden)
            /\ \E k \in DOMAIN level.tokens : token = level.tokens[k]
<1> DEFINE level == Last(levels)
           token == Current(level)
<1>1. StateOK /\ levels # <<>> /\ invocations # <<>>
  BY DEF Inv, Expanding
<1>2. /\ Len(levels) \in Nat \ {0} /\ Len(levels) \in DOMAIN levels
      /\ level = levels[Len(levels)] /\ level.tokens \in Seq(Tokens)
      /\ DOMAIN level.tokens = 1..Len(level.tokens)
      /\ level.at \in DOMAIN level.tokens /\ token \in Tokens
      /\ Len(level.tokens) \in Nat
  BY <1>1, LevelTypes
<1>3. token = level.tokens[level.at]
  BY DEF Current
<1> HIDE DEF level, token
<1>4. level.at \in level.at..Len(level.tokens)
  BY <1>2
<1>5. /\ level.hidden \subseteq Defined /\ Cardinality(level.hidden) = Len(levels)
      /\ Leads(level.tokens, level.hidden)
      /\ \A k \in DOMAIN level.tokens :
           level.tokens[k].at = Begun /\ level.tokens[k].within # <<>>
  BY <1>2 DEF Inv, Nested
<1> QED BY <1>1, <1>2, <1>3, <1>4, <1>5 DEF level, token

\* A step within the levels, which leaves the source alone.
LEMMA WithinKeeps ==
  ASSUME Inv, Same, UNCHANGED <<position, invocations>>,
         LevelsOK(levels'), Nested(levels', Begun), levels # <<>>,
         out' \in Seq(Tokens), Len(out') <= MaxOutputTokens,
         truncated' \in BOOLEAN, stopped' \in BOOLEAN,
         diags' \subseteq {"expansion_depth", "unterminated_invocation"},
         diags \subseteq diags', truncated => truncated',
         "expansion_depth" \in diags' => Cardinality(Defined) > MaxExpansionDepth,
         NamesAreExpanded', \A i \in DOMAIN out' : out'[i].at <= Begun,
         Sourced(out', invocations, position),
         ~truncated' /\ Complete(out, invocations, position) =>
           Complete(out', invocations, position)
  PROVE  Inv'
<1>1. StateOK /\ invocations # <<>> /\ Follow(invocations, position)
  BY DEF Inv
<1>2. /\ macros' = macros /\ source' = source /\ Tokens' = Tokens /\ Defined' = Defined
      /\ position' = position /\ invocations' = invocations /\ Begun' = Begun
  BY Constants DEF Begun
<1>3. LevelsOK(levels)' /\ Nested(levels, Begun)'
  BY <1>2, Constants
<1>4. StateOK'
  BY <1>1, <1>2, <1>3 DEF StateOK
<1>5. Follow(invocations, position)' /\ Sourced(out, invocations, position)'
  BY <1>1, <1>2 DEF Follow, Sourced
<1>6. ~truncated' /\ "unterminated_invocation" \notin diags' =>
        Complete(out, invocations, position)'
  <2> SUFFICES ASSUME ~truncated', "unterminated_invocation" \notin diags'
               PROVE  Complete(out', invocations, position)
    BY <1>2 DEF Complete
  <2>1. ~truncated /\ "unterminated_invocation" \notin diags
    OBVIOUS
  <2> QED BY <2>1 DEF Inv
<1> QED BY <1>1, <1>2, <1>3, <1>4, <1>5, <1>6 DEF Inv

\* What is kept when the output does not change.
LEMMA OutputStays ==
  ASSUME Inv, Same, out' = out, levels # <<>>
  PROVE  /\ out' \in Seq(Tokens) /\ Len(out') <= MaxOutputTokens /\ NamesAreExpanded'
         /\ \A i \in DOMAIN out' : out'[i].at <= Begun
         /\ Sourced(out', invocations, position)
         /\ ~truncated' /\ Complete(out, invocations, position) =>
              Complete(out', invocations, position)
         /\ truncated \in BOOLEAN /\ stopped \in BOOLEAN
         /\ diags \subseteq {"expansion_depth", "unterminated_invocation"}
         /\ "expansion_depth" \in diags => Cardinality(Defined) > MaxExpansionDepth
<1>1. NamesAreExpanded'
  BY NamesUnchanged DEF Inv
<1> QED BY <1>1 DEF Inv, StateOK

\* A step that only stops, or does nothing.
LEMMA IdleKeeps ==
  ASSUME Inv, Same, stopped' \in BOOLEAN,
         UNCHANGED <<position, levels, out, invocations, truncated, diags>>
  PROVE  Inv'
<1>1. /\ macros' = macros /\ source' = source /\ Tokens' = Tokens /\ Defined' = Defined
      /\ Begun' = Begun
  BY Constants DEF Begun
<1>2. LevelsOK(levels)' /\ Nested(levels, Begun)'
  <2>1. LevelsOK(levels) /\ Nested(levels, Begun)
    BY DEF Inv, StateOK
  <2>2. LevelsOK(levels') /\ Nested(levels', Begun)
    BY <2>1
  <2> QED BY <1>1, <2>2, Constants
<1>3. StateOK'
  BY <1>1, <1>2 DEF Inv, StateOK
<1>4. NamesAreExpanded'
  BY NamesUnchanged DEF Inv
<1>5. Follow(invocations, position)' /\ Sourced(out, invocations, position)'
  BY DEF Inv, Follow, Sourced
<1>6. ~truncated' /\ "unterminated_invocation" \notin diags' =>
        Complete(out, invocations, position)'
  BY DEF Inv, Complete
<1> QED BY <1>1, <1>2, <1>3, <1>4, <1>5, <1>6 DEF Inv

LEMMA ExpandKeeps == Inv /\ Expand => Inv'
<1> SUFFICES ASSUME Inv, Expand PROVE Inv'
  OBVIOUS
<1> DEFINE level == Last(levels)
           token == Current(level)
           hidden == Hide(level.hidden, token.text)
<1>1. /\ StateOK /\ Expanding /\ Same /\ Visible(level) /\ Nested(levels, Begun)
      /\ position' = position /\ invocations' = invocations
  BY DEF Inv, Expand
<1>2. PICK call \in Invoked(level.tokens, level.at) :
        ExpandRun(Advanced(call.last), Substituted(token.text, call.args, token.at), hidden)
  BY DEF Expand
<1> DEFINE new == Substituted(token.text, call.args, token.at)
           rest == Advanced(call.last)
<1>3. /\ levels # <<>> /\ Len(levels) \in Nat \ {0} /\ token \in Tokens
      /\ token.at = Begun /\ token.within # <<>>
      /\ level.hidden \in SUBSET Defined /\ Cardinality(level.hidden) = Len(levels)
      /\ Leads(level.tokens, level.hidden)
  BY <1>1, ExpandingGives
<1>4. /\ call.last \in level.at..Len(level.tokens) /\ new \in Seq(Tokens)
      /\ \A k \in DOMAIN new : new[k].at = token.at /\ new[k].within # <<>>
      /\ Leads(new, hidden)
  BY <1>1, <1>3, ExpandGives
<1>5. LevelsOK(rest) /\ Nested(rest, Begun) /\ Len(rest) = Len(levels)
  BY <1>1, <1>3, <1>4, AdvancedLevels
<1>6. hidden \in SUBSET Defined /\ Cardinality(hidden) = Len(rest) + 1
  <2>1. token.text \in Defined /\ token.text \notin level.hidden
    BY <1>1, MacroTypes DEF Visible
  <2>2. IsFiniteSet(level.hidden)
    <3>1. level.hidden \in SUBSET Names
      BY <1>3 DEF Defined
    <3> QED BY <3>1, NamesAssumption, FS_Subset
  <2>3. Cardinality(level.hidden \cup {token.text}) = Len(levels) + 1
    BY <1>3, <2>1, <2>2, FS_AddElement
  <2> QED BY <1>3, <1>5, <2>1, <2>3 DEF Hide
<1>7. ExpandRun(rest, new, hidden)
  BY <1>2
<1> HIDE DEF new, rest, hidden, level, token
<1>8. /\ out' = out /\ stopped' = stopped
      /\ \/ /\ levels' = rest /\ truncated' = TRUE
            /\ diags' = diags \cup {"expansion_depth"} /\ TooDeep(Len(rest) + 1)
         \/ /\ levels' = Append(rest, [tokens |-> new, at |-> 1, hidden |-> hidden])
            /\ truncated' = truncated /\ diags' = diags
  BY <1>7, ExpandRunGives
<1>9. LevelsOK(levels') /\ Nested(levels', Begun)
  <2>1. LET calls == Append(rest, [tokens |-> new, at |-> 1, hidden |-> hidden])
        IN LevelsOK(calls) /\ Nested(calls, Begun)
    <3>1. \A k \in DOMAIN new : new[k].at = Begun /\ new[k].within # <<>>
      BY <1>3, <1>4
    <3> QED BY <1>4, <1>5, <1>6, <3>1, NewLevel
  <2> QED BY <1>5, <1>8, <2>1
<1>10. "expansion_depth" \in diags' => Cardinality(Defined) > MaxExpansionDepth
  <2>1. CASE diags' = diags
    BY <2>1 DEF Inv
  <2>2. CASE TooDeep(Len(rest) + 1)
    <3>1. Len(rest) + 1 > MaxExpansionDepth /\ Len(rest) + 1 \in Nat
      BY <1>3, <1>5, <2>2 DEF TooDeep
    <3> QED BY <1>6, <3>1, DeepIsJustified
  <2> QED BY <1>8, <2>1, <2>2
<1>11. /\ truncated' \in BOOLEAN /\ stopped' \in BOOLEAN /\ diags \subseteq diags'
       /\ diags' \subseteq {"expansion_depth", "unterminated_invocation"}
       /\ truncated => truncated'
  BY <1>1, <1>8 DEF StateOK
<1> QED BY <1>1, <1>3, <1>8, <1>9, <1>10, <1>11, OutputStays, WithinKeeps

LEMMA OutputKeeps == Inv /\ Output => Inv'
<1> SUFFICES ASSUME Inv, Output PROVE Inv'
  OBVIOUS
<1> DEFINE level == Last(levels)
           t == Current(level)
<1>1. /\ StateOK /\ Expanding /\ Same /\ Nested(levels, Begun) /\ NamesAreExpanded
      /\ Visible(level) => Invoked(level.tokens, level.at) = {}
      /\ AppendOut(t) /\ levels' = Advanced(level.at)
      /\ position' = position /\ invocations' = invocations /\ diags' = diags
      /\ Follow(invocations, position) /\ Sourced(out, invocations, position)
      /\ \A i \in DOMAIN out : out[i].at <= Begun
  BY DEF Inv, Output, Expanding
<1>2. /\ levels # <<>> /\ invocations # <<>> /\ level.at \in level.at..Len(level.tokens)
      /\ t \in Tokens /\ t.at = Begun /\ t.within # <<>>
      /\ Leads(level.tokens, level.hidden) /\ \E k \in DOMAIN level.tokens : t = level.tokens[k]
  BY <1>1, ExpandingGives
<1>3. LevelsOK(levels') /\ Nested(levels', Begun)
  BY <1>1, <1>2, AdvancedLevels
<1>4. /\ out' \in Seq(Tokens) /\ Len(out') <= MaxOutputTokens
      /\ truncated' \in BOOLEAN /\ stopped' \in BOOLEAN
      /\ \/ out' = out /\ truncated'
         \/ out' = Append(out, t) /\ truncated' = truncated
  BY <1>1, <1>2, AppendOutGives
<1>5. /\ truncated => truncated'
      /\ diags' \subseteq {"expansion_depth", "unterminated_invocation"} /\ diags \subseteq diags'
      /\ "expansion_depth" \in diags' => Cardinality(Defined) > MaxExpansionDepth
  BY <1>1, <1>4 DEF Inv, StateOK
<1>6. ASSUME IsMacro(t.text), macros[t.text].kind = "object" PROVE UsesItself(t.text)
  <2>1. level.tokens[level.at] = t
    BY DEF Current
  <2>2. Invoked(level.tokens, level.at) # {}
    <3>1. macros[level.tokens[level.at].text].kind = "object"
      BY <1>6, <2>1
    <3> HIDE DEF level
    <3> QED BY <3>1, ObjectInvoked
  <2>3. t.text \in level.hidden
    BY <1>1, <1>6, <2>2 DEF Visible
  <2>4. t.text \in Reached(t.text)
    BY <1>2, <1>6, <2>3 DEF Leads
  <2> QED BY <2>4 DEF Reached, UsesItself
<1> HIDE DEF level, t
<1>7. out \in Seq(Tokens) /\ invocations \in Seq(Nat \X Nat) /\ position \in Nat \ {0}
  <2>1. Len(source) \in Nat
    BY <1>1, LineType
  <2> QED BY <1>1, <2>1 DEF StateOK
<1>8. NamesAreExpanded'
  BY <1>1, <1>4, <1>6, <1>7, NamesAppend
<1>9. PICK j \in DOMAIN invocations : Begun = invocations[j][1]
  BY <1>2, <1>7 DEF Begun, Last
<1>10. /\ Begun \in Nat /\ 1 <= Begun /\ Begun < position
       /\ Covers(invocations[j], Begun)
  <2>1. invocations[j] \in Nat \X Nat
    BY <1>7
  <2>2. invocations[j][1] \in Nat /\ invocations[j][2] \in Nat
    BY <2>1
  <2>3. /\ 1 <= invocations[j][1] /\ invocations[j][1] <= invocations[j][2]
        /\ invocations[j][2] < position
    BY <1>1 DEF Follow
  <2> QED BY <1>7, <1>9, <2>2, <2>3 DEF Covers
<1>11. Sourced(out', invocations, position) /\ \A i \in DOMAIN out' : out'[i].at <= Begun
  <2>1. CASE out' = out
    BY <1>1, <2>1
  <2>2. CASE out' = Append(out, t)
    <3>1. \A i \in DOMAIN out : /\ out[i].at <= t.at
                                /\ out[i].at = t.at => out[i].within # <<>>
      BY <1>1, <1>2, <1>10 DEF Sourced
    <3>2. position \in Nat /\ position <= position /\ 1 <= t.at /\ t.at < position
      BY <1>2, <1>7, <1>10
    <3>3. \E i \in DOMAIN invocations : invocations[i][1] = t.at
      BY <1>2, <1>9
    <3>4. Sourced(Append(out, t), invocations, position)
      BY <1>1, <1>2, <1>7, <3>1, <3>2, <3>3, SourcedAppend
    <3>5. \A i \in DOMAIN out' : out'[i] = t \/ (i \in DOMAIN out /\ out'[i] = out[i])
      <4> HIDE DEF Tokens
      <4> QED BY <1>7, <2>2
    <3>6. \A i \in DOMAIN out' : out'[i].at <= Begun
      BY <1>1, <1>2, <1>10, <3>5
    <3> QED BY <2>2, <3>4, <3>6
  <2> QED BY <1>4, <2>1, <2>2
<1>12. ~truncated' /\ Complete(out, invocations, position) =>
         Complete(out', invocations, position)
  BY <1>2, <1>4, <1>7, CompleteAppend
<1> QED BY <1>1, <1>2, <1>3, <1>4, <1>5, <1>8, <1>11, <1>12, WithinKeeps

LEMMA ReturnKeeps == Inv /\ Return => Inv'
<1> SUFFICES ASSUME Inv, Return PROVE Inv'
  OBVIOUS
<1>1. /\ levels # <<>> /\ levels' = Front(levels) /\ Same /\ position' = position
      /\ out' = out /\ invocations' = invocations /\ truncated' = truncated
      /\ stopped' = stopped /\ diags' = diags
  BY DEF Return
<1>2. LevelsOK(levels') /\ Nested(levels', Begun)
  BY <1>1, FrontLevels DEF Inv
<1> QED BY <1>1, <1>2, OutputStays, WithinKeeps

LEMMA CancelKeeps == Inv /\ Cancel => Inv'
<1> SUFFICES ASSUME Inv, Cancel PROVE Inv'
  OBVIOUS
<1>1. /\ Same /\ stopped' = TRUE
      /\ UNCHANGED <<position, levels, out, invocations, truncated, diags>>
  BY DEF Cancel
<1> QED BY <1>1, IdleKeeps
----------------------------------------------------------------------------
(* The theorems.                                                           *)

LEMMA StepKeeps == Inv /\ [Next]_vars => Inv'
<1> SUFFICES ASSUME Inv, [Next]_vars PROVE Inv'
  OBVIOUS
<1>1. CASE UNCHANGED vars
  <2>1. /\ Same /\ stopped' \in BOOLEAN
        /\ UNCHANGED <<position, levels, out, invocations, truncated, diags>>
    BY <1>1 DEF vars, Same, Inv, StateOK
  <2> QED BY <2>1, IdleKeeps
<1>2. CASE Next
  BY <1>2, EmitKeeps, InvokeKeeps, UnterminatedKeeps, ExpandKeeps, OutputKeeps, ReturnKeeps,
     CancelKeeps DEF Next, Step
<1> QED BY <1>1, <1>2

\* The inductive invariant: every token of a level is of a macro that all
\* object-like macros hidden there lead to, each level hides one macro more
\* than the one above, and the invocations and the output account for what
\* has been read of the line (expander.expandRun, expand.go:238, and
\* emitActive, expand.go:64).
THEOREM Invariance == Spec => []Inv
BY Initially, StepKeeps, PTL DEF Spec

LEMMA InvTypes == Inv => TypeOK
<1> SUFFICES ASSUME Inv PROVE TypeOK
  OBVIOUS
<1>1. StateOK /\ Sourced(out, invocations, position)
  BY DEF Inv
<1>2. Len(source) \in Nat /\ DOMAIN source = 1..Len(source)
  BY <1>1, LineType
<1>3. \A t \in Range(out) : t.at \in DOMAIN source /\ Range(t.within) \subseteq Names
  <2> SUFFICES ASSUME NEW i \in DOMAIN out
               PROVE  out[i].at \in DOMAIN source /\ Range(out[i].within) \subseteq Names
    BY DEF Range
  <2>1. out[i] \in Tokens
    BY <1>1 DEF StateOK
  <2>2. out[i].at \in Nat /\ out[i].within \in Seq(Names)
    BY <2>1 DEF Tokens, TokensOf
  <2>3. 1 <= out[i].at /\ out[i].at < position
    BY <1>1 DEF Sourced
  <2>4. out[i].at \in DOMAIN source
    BY <1>1, <1>2, <2>2, <2>3 DEF StateOK
  <2>5. Range(out[i].within) \subseteq Names
    BY <2>2 DEF Range
  <2> QED BY <2>4, <2>5
<1>4. \A l \in DOMAIN levels : /\ levels[l].at \in 1..(Len(levels[l].tokens) + 1)
                               /\ levels[l].hidden \subseteq Names
  <2>1. \A l \in DOMAIN levels : levels[l] \in LevelType
    <3>1. levels \in Seq(LevelType)
      BY <1>1 DEF StateOK, LevelsOK
    <3> HIDE DEF LevelType
    <3> QED BY <3>1
  <2> QED BY <1>1, <2>1 DEF StateOK, LevelsOK, LevelType
<1> QED BY <1>1, <1>3, <1>4 DEF StateOK, TypeOK

\* The positions of the calls of expandRun stay within their tokens, and
\* every token of the output has a place in the line (expandRun,
\* expand.go:238).
THEOREM TypesCorrect == Spec => []TypeOK
BY Invariance, InvTypes, PTL

\* Hiding a macro keeps it out of its own expansion and out of nothing else:
\* an object-like macro left in the output, by whatever body, argument or
\* capture it came there, is one that leads to itself (hideSet.with,
\* expand.go:298).
THEOREM MacrosAreExpanded == Spec => []NamesAreExpanded
<1>1. Inv => NamesAreExpanded
  BY DEF Inv
<1> QED BY <1>1, Invariance, PTL

\* The limit of the depth is met only by a chain of more different macros
\* than it allows: expansion is never cut short for another reason, and goes
\* no deeper than there are macros (expand.go:249).
THEOREM DepthIsBounded == Spec => []DepthIsJustified
<1>1. ASSUME Inv PROVE DepthIsJustified
  <2>1. /\ \A l \in DOMAIN levels : Cardinality(levels[l].hidden) = l
        /\ "expansion_depth" \in diags => Cardinality(Defined) > MaxExpansionDepth
    BY <1>1 DEF Inv, Nested
  <2> QED BY <2>1 DEF DepthIsJustified, Defined
<1> QED BY <1>1, Invariance, PTL

\* Every token that has been read of the line is in the output as it is, or
\* belongs to exactly one recorded invocation, and what an invocation gave
\* stands where it was: the source map and the recorded expansions agree
\* (expand.go:87).
THEOREM SourceIsAccounted == Spec => []SourceAccounted
<1>1. ASSUME Inv PROVE SourceAccounted
  <2> SUFFICES ASSUME ~truncated, "unterminated_invocation" \notin diags
               PROVE
    LET plain == {t.at : t \in {u \in Range(out) : u.within = <<>>}}
        covered(k) == {i \in DOMAIN invocations : k \in invocations[i][1]..invocations[i][2]}
    IN /\ \A k \in 1..(position - 1) :
            Cardinality(covered(k)) = IF k \in plain THEN 0 ELSE 1
       /\ \A i, j \in DOMAIN out : /\ i < j => out[i].at <= out[j].at
                                   /\ i < j /\ out[i].at = out[j].at => out[i].within # <<>>
       /\ \A t \in Range(out) : t.within # <<>> => \E i \in DOMAIN invocations :
                                                     invocations[i][1] = t.at
    BY DEF SourceAccounted
  <2> DEFINE plain == {t.at : t \in {u \in Range(out) : u.within = <<>>}}
             covered(k) == {i \in DOMAIN invocations :
                              k \in invocations[i][1]..invocations[i][2]}
  <2>1. /\ Follow(invocations, position) /\ Sourced(out, invocations, position)
        /\ Complete(out, invocations, position) /\ invocations \in Seq(Nat \X Nat)
    BY <1>1 DEF Inv, StateOK
  <2>2. \A i \in DOMAIN invocations : /\ invocations[i][1] \in Nat /\ invocations[i][2] \in Nat
                                      /\ i \in Int
    <3>1. \A i \in DOMAIN invocations : invocations[i] \in Nat \X Nat /\ i \in Int
      BY <2>1
    <3> QED BY <3>1
  <2>3. \A k \in Nat : covered(k) = {i \in DOMAIN invocations : Covers(invocations[i], k)}
    BY <2>2 DEF Covers
  <2>4. \A k : k \in plain <=> \E i \in DOMAIN out : out[i].at = k /\ out[i].within = <<>>
    BY DEF Range
  <2> HIDE DEF plain, covered
  <2>5. ASSUME NEW k \in 1..(position - 1)
        PROVE  Cardinality(covered(k)) = IF k \in plain THEN 0 ELSE 1
    <3>1. CASE k \in plain
      <4>1. PICK i \in DOMAIN out : out[i].at = k /\ out[i].within = <<>>
        BY <2>4, <3>1
      <4>2. \A j \in DOMAIN invocations : ~Covers(invocations[j], k)
        BY <2>1, <4>1 DEF Sourced
      <4>3. covered(k) = {}
        BY <2>3, <4>2
      <4> QED BY <3>1, <4>3, FS_EmptySet
    <3>2. CASE k \notin plain
      <4>1. PICK i \in DOMAIN invocations : Covers(invocations[i], k)
        BY <2>1, <2>4, <3>2 DEF Complete
      <4>2. ASSUME NEW j \in DOMAIN invocations, Covers(invocations[j], k) PROVE j = i
        <5>1. ~(i < j)
          BY <2>1, <2>2, <4>1, <4>2 DEF Follow, Covers
        <5>2. ~(j < i)
          BY <2>1, <2>2, <4>1, <4>2 DEF Follow, Covers
        <5> QED BY <2>2, <5>1, <5>2
      <4>3. covered(k) = {i}
        BY <2>3, <4>1, <4>2
      <4> QED BY <3>2, <4>3, FS_Singleton
    <3> QED BY <3>1, <3>2
  <2>6. \A i, j \in DOMAIN out : /\ i < j => out[i].at <= out[j].at
                                 /\ i < j /\ out[i].at = out[j].at => out[i].within # <<>>
    BY <2>1 DEF Sourced
  <2>7. \A t \in Range(out) : t.within # <<>> => \E i \in DOMAIN invocations :
                                                   invocations[i][1] = t.at
    BY <2>1 DEF Sourced, Range
  <2> QED BY <2>5, <2>6, <2>7 DEF plain, covered
<1> QED BY <1>1, Invariance, PTL
=============================================================================
