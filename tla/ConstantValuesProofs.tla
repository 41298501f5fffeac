------------------------ MODULE ConstantValuesProofs ------------------------
(***************************************************************************)
(* Proofs about ConstantValues, for any number of constants, any integers  *)
(* and operators and any program: wherever the evaluation begins and       *)
(* whatever part of a cycle it meets first, the values are exact.          *)
(*                                                                         *)
(* A constant may stay unknown only because the evaluation that found it   *)
(* so came upon a constant under evaluation.  The inductive invariant Inv  *)
(* says what an unknown answer then means: the name has no value that can  *)
(* be derived without the constants that are on the stack up to the frame  *)
(* that asked.  When the frame returns unknown, its own constant has none  *)
(* without those below it (NoneWithout), because a derivation that needs   *)
(* itself is none; below the outermost call there are none, so that its    *)
(* constant has no value at all.                                           *)
(***************************************************************************)
EXTENDS ConstantValues, TLAPS

Facts == Ids \X Values

\* What follows from the declarations when those of the constants V are
\* taken away.  With V = {} it is what the constants mean.
ClosedWithout(V, S) ==
  \A id \in Ids \ V : \A v \in Values : Follows(S, id, v) => <<id, v>> \in S
Derivable(V, id, v) ==
  \A S \in SUBSET Facts : ClosedWithout(V, S) => <<id, v>> \in S
Derived(V) == {f \in Facts : Derivable(V, f[1], f[2])}
HasNone(V, id) == \A v \in Values : ~Derivable(V, id, v)

\* The answer a to a call that asked for id is right: a value is the one it
\* means, and it is unknown only for want of the constants V.
Answer(V, id, a) ==
  /\ a \in Values => Means(id, a)
  /\ a = Unknown /\ ~cancelled => HasNone(V, id)
Fitting(V, c, got) ==
  \A k \in DOMAIN got : \E id \in Asks(c, SubSeq(got, 1, k - 1)) : Answer(V, id, got[k])

\* The constants of the first n calls of s.
Upto(s, n) == {s[i].id : i \in 1..n}

\* The calls s: no constant is on the stack twice, each call was made by the
\* one below it, from call to call the constants descend or the order of
\* declarations is violated, and all the answers are right.
Distinct(s) == \A i, j \in DOMAIN s : s[i].id = s[j].id => i = j
Chained(s) ==
  \A i, j \in DOMAIN s : j = i + 1 => s[j].id \in Asks(program[s[i].id], s[i].got)
Descending(s) ==
  \A i, j \in DOMAIN s :
    i < j => \/ s[j].id < s[i].id
             \/ \E k \in i..j - 1 : <<s[k].id, s[k + 1].id>> \in OutOfOrder
Justified(s) ==
  \A i \in DOMAIN s : Fitting(Upto(s, i), program[s[i].id], s[i].got)
Frames == [id : Ids, got : Seq(Answers)]
Calls(s) == s \in Seq(Frames) /\ Distinct(s) /\ Chained(s) /\ Descending(s) /\ Justified(s)

\* The constants on the stack are those being evaluated, and have no value.
Visited == visiting = Upto(stack, Len(stack))
Sought == \A i \in DOMAIN stack : values[stack[i].id] = Unknown
Sound == \A id \in Ids : \A v \in Values : values[id] = v => Means(id, v)
\* A constant that the loop has done with and that is unknown has no value.
Complete ==
  ~cancelled =>
    \A id \in Ids \ todo :
      values[id] = Unknown /\ (stack # <<>> => id # stack[1].id) => HasNone({}, id)
Returned ==
  /\ outcome # "none" => stack = <<>>
  /\ outcome = "values" => todo = {} /\ ~cancelled
Inv ==
  /\ TypeOK /\ program \in Programs /\ Calls(stack)
  /\ Visited /\ Sought /\ Sound /\ Complete /\ Returned
----------------------------------------------------------------------------
(* What can be derived.                                                    *)

Kinds == {"implicit", "literal", "unary", "binary", "choice"}

\* The names in a candidate, and what it is of.
LEMMA CandidateType ==
  ASSUME NEW c \in Candidates
  PROVE  /\ c.kind \in Kinds
         /\ c.kind = "implicit" => c.previous \in Named
         /\ c.kind = "literal" => c.value \in Answers
         /\ c.kind = "unary" => c.operand \in Named /\ c.op \in DOMAIN Unary
         /\ c.kind = "binary" => c.left \in Named /\ c.right \in Named /\ c.op \in DOMAIN Binary
         /\ c.kind = "choice" =>
              c.condition \in Named /\ c.consequence \in Named /\ c.alternative \in Named
BY DEF Candidates, Implicits, Literals, Unaries, Binaries, Choices, Kinds

\* What follows from some facts follows from more.
LEMMA FollowsMonotone ==
  ASSUME NEW S, NEW T, S \subseteq T, NEW id, program[id].kind \in Kinds, NEW v,
         Follows(S, id, v)
  PROVE  Follows(T, id, v)
<1>1. CASE program[id].kind = "implicit"
  BY <1>1 DEF Follows
<1>2. CASE program[id].kind = "literal"
  BY <1>2 DEF Follows
<1>3. CASE program[id].kind = "unary"
  BY <1>3 DEF Follows
<1>4. CASE program[id].kind = "binary"
  BY <1>4 DEF Follows
<1>5. CASE program[id].kind = "choice"
  BY <1>5 DEF Follows
<1> QED BY <1>1, <1>2, <1>3, <1>4, <1>5 DEF Kinds

\* The derivable facts are closed themselves.
LEMMA DerivableClosed ==
  ASSUME program \in [Ids -> Candidates], NEW V, NEW id \in Ids \ V, NEW v \in Values,
         Follows(Derived(V), id, v)
  PROVE  Derivable(V, id, v)
<1>1. SUFFICES ASSUME NEW S \in SUBSET Facts, ClosedWithout(V, S)
               PROVE  <<id, v>> \in S
  BY DEF Derivable
<1>2. \A f \in Derived(V) : f \in S
  <2>1. TAKE f \in Derived(V)
  <2>2. Derivable(V, f[1], f[2]) /\ f = <<f[1], f[2]>>
    BY DEF Facts, Derived
  <2> QED BY <1>1, <2>2 DEF Derivable
<1>3. Follows(S, id, v)
  BY <1>2, FollowsMonotone, CandidateType
<1> QED BY <1>1, <1>3 DEF ClosedWithout

\* Everything is closed, so that only facts are derived.
LEMMA DerivableIsFact ==
  ASSUME NEW V, NEW id, NEW v, Derivable(V, id, v)
  PROVE  id \in Ids \ V /\ v \in Values
<1> DEFINE S == {f \in Facts : f[1] \notin V}
<1>1. ClosedWithout(V, S)
  BY DEF ClosedWithout, Facts
<1>2. S \in SUBSET Facts
  OBVIOUS
<1>3. <<id, v>> \in S
  BY <1>1, <1>2 DEF Derivable
<1> QED BY <1>3 DEF Facts

\* What a constant means is what is derived with nothing taken away.
LEMMA MeansIsDerivable ==
  ASSUME NEW id, NEW v
  PROVE  Means(id, v) <=> Derivable({}, id, v)
<1>1. \A S : Closed(S) <=> ClosedWithout({}, S)
  BY DEF Closed, ClosedWithout
<1> QED BY <1>1 DEF Means, Derivable, Facts

\* More is derived when less is taken away.
LEMMA DerivableMeans ==
  ASSUME NEW V, NEW id, NEW v, Derivable(V, id, v)
  PROVE  Means(id, v)
<1>1. \A S : ClosedWithout({}, S) => ClosedWithout(V, S)
  BY DEF ClosedWithout
<1> QED BY <1>1, MeansIsDerivable DEF Derivable

\* A derivation that needs what it derives is none: a constant that does not
\* follow from what is derived without it has no value.
LEMMA NoneWithoutItself ==
  ASSUME program \in [Ids -> Candidates], NEW V, NEW id \in Ids \ V,
         \A w \in Values : ~Follows(Derived(V \cup {id}), id, w)
  PROVE  HasNone(V, id)
<1> DEFINE W == V \cup {id}
<1>1. ClosedWithout(V, Derived(W))
  <2>1. SUFFICES ASSUME NEW x \in Ids \ V, NEW v \in Values, Follows(Derived(W), x, v)
                 PROVE  <<x, v>> \in Derived(W)
    BY DEF ClosedWithout
  <2>2. x \in Ids \ W
    BY <2>1
  <2> QED BY <2>1, <2>2, DerivableClosed DEF Derived, Facts
<1>2. ASSUME NEW v \in Values, Derivable(V, id, v) PROVE FALSE
  <2>1. <<id, v>> \in Derived(W)
    BY <1>1, <1>2 DEF Derivable, Derived
  <2>2. Derivable(W, id, v)
    BY <2>1 DEF Derived
  <2> QED BY <2>2, DerivableIsFact
<1> QED BY <1>2 DEF HasNone

\* What a constant means follows from what others mean.
LEMMA MeansFollows ==
  ASSUME program \in [Ids -> Candidates], NEW id, NEW v, Means(id, v)
  PROVE  Follows(Derived({}), id, v)
<1> DEFINE S == {f \in Derived({}) : Follows(Derived({}), f[1], f[2])}
<1>1. ClosedWithout({}, S)
  <2>1. SUFFICES ASSUME NEW x \in Ids, NEW w \in Values, Follows(S, x, w)
                 PROVE  <<x, w>> \in S
    BY DEF ClosedWithout
  <2>2. Follows(Derived({}), x, w)
    BY <2>1, FollowsMonotone, CandidateType
  <2>3. Derivable({}, x, w)
    BY <2>2, DerivableClosed
  <2> QED BY <2>2, <2>3 DEF Derived, Facts
<1>2. Derivable({}, id, v)
  BY MeansIsDerivable
<1>3. <<id, v>> \in S
  BY <1>1, <1>2 DEF Derivable, Derived
<1> QED BY <1>3

\* The kinds of candidates one by one.
LEMMA AsksByKind ==
  ASSUME NEW c, NEW got
  PROVE  /\ c.kind = "implicit" =>
              Asks(c, got) = IF got = <<>> THEN {c.previous} \ {None} ELSE {}
         /\ c.kind = "literal" => Asks(c, got) = {}
         /\ c.kind = "unary" => Asks(c, got) = IF got = <<>> THEN {c.operand} ELSE {}
         /\ c.kind = "binary" =>
              Asks(c, got) = IF got = <<>> THEN {c.left}
                             ELSE IF Len(got) = 1 THEN {c.right} ELSE {}
         /\ c.kind = "choice" =>
              Asks(c, got) = IF got = <<>> THEN {c.condition}
                             ELSE IF Len(got) = 1 /\ Decided(got) THEN {c[Condition(got)]}
                             ELSE {}
<1>1. CASE c.kind = "implicit"
  BY <1>1, Zenon DEF Asks
<1>2. CASE c.kind = "literal"
  BY <1>2, Zenon DEF Asks
<1>3. CASE c.kind = "unary"
  BY <1>3, Zenon DEF Asks
<1>4. CASE c.kind = "binary"
  BY <1>4, Zenon DEF Asks
<1>5. CASE c.kind = "choice"
  BY <1>5, Zenon DEF Asks
<1> QED BY <1>1, <1>2, <1>3, <1>4, <1>5

LEMMA ResultByKind ==
  ASSUME NEW c, NEW got
  PROVE  /\ c.kind = "implicit" =>
              Result(c, got) = IF got = <<>> THEN Zero
                               ELSE IF got[1] = Unknown THEN Unknown ELSE Successor[got[1]]
         /\ c.kind = "literal" => Result(c, got) = c.value
         /\ c.kind = "unary" =>
              Result(c, got) = IF got[1] = Unknown THEN Unknown ELSE Unary[c.op][got[1]]
         /\ c.kind = "binary" =>
              Result(c, got) = IF Unknown \in {got[1], got[2]} THEN Unknown
                               ELSE Binary[c.op][<<got[1], got[2]>>]
         /\ c.kind = "choice" => Result(c, got) = IF Len(got) = 2 THEN got[2] ELSE Unknown
<1>1. CASE c.kind = "implicit"
  BY <1>1, Zenon DEF Result
<1>2. CASE c.kind = "literal"
  BY <1>2, Zenon DEF Result
<1>3. CASE c.kind = "unary"
  BY <1>3, Zenon DEF Result
<1>4. CASE c.kind = "binary"
  BY <1>4, Zenon DEF Result
<1>5. CASE c.kind = "choice"
  BY <1>5, Zenon DEF Result
<1> QED BY <1>1, <1>2, <1>3, <1>4, <1>5

\* From facts that agree follows one value.
LEMMA FollowsOne ==
  ASSUME NEW S, NEW T, \A y, a, e : <<y, a>> \in S /\ <<y, e>> \in T => e = a,
         NEW id, program[id].kind \in Kinds, NEW v, NEW u, Follows(S, id, v), Follows(T, id, u)
  PROVE  u = v
<1> DEFINE c == program[id]
<1>1. CASE program[id].kind = "implicit"
  <2>1. CASE c.previous = None
    <3>1. v = Zero
      BY <1>1, <2>1, Zenon DEF Follows
    <3>2. u = Zero
      BY <1>1, <2>1, Zenon DEF Follows
    <3> QED BY <3>1, <3>2
  <2>2. CASE c.previous # None
    <3>1. PICK w \in Values : <<c.previous, w>> \in S /\ v = Successor[w]
      BY <1>1, <2>2, Zenon DEF Follows
    <3>2. PICK x \in Values : <<c.previous, x>> \in T /\ u = Successor[x]
      BY <1>1, <2>2, Zenon DEF Follows
    <3> QED BY <3>1, <3>2
  <2> QED BY <2>1, <2>2
<1>2. CASE program[id].kind = "literal"
  BY <1>2 DEF Follows
<1>3. CASE program[id].kind = "unary"
  BY <1>3 DEF Follows
<1>4. CASE program[id].kind = "binary"
  <2>1. PICK w1 \in Values, w2 \in Values :
          <<c.left, w1>> \in S /\ <<c.right, w2>> \in S /\ v = Binary[c.op][<<w1, w2>>]
    BY <1>4, Zenon DEF Follows
  <2>2. PICK u1 \in Values, u2 \in Values :
          <<c.left, u1>> \in T /\ <<c.right, u2>> \in T /\ u = Binary[c.op][<<u1, u2>>]
    BY <1>4, Zenon DEF Follows
  <2>3. u1 = w1 /\ u2 = w2
    BY <2>1, <2>2
  <2> QED BY <2>1, <2>2, <2>3
<1>5. CASE program[id].kind = "choice"
  BY <1>5 DEF Follows
<1> QED BY <1>1, <1>2, <1>3, <1>4, <1>5 DEF Kinds

\* No constant has two meanings.
LEMMA MeansOne ==
  ASSUME program \in [Ids -> Candidates], NEW id, NEW v, NEW u, Means(id, v), Means(id, u)
  PROVE  v = u
<1> DEFINE S == {f \in Derived({}) : \A b : <<f[1], b>> \in Derived({}) => b = f[2]}
<1>0. \A x, w : <<x, w>> \in Derived({}) <=> Means(x, w)
  BY MeansIsDerivable, DerivableIsFact DEF Derived, Facts
<1>1. ClosedWithout({}, S)
  <2>1. SUFFICES ASSUME NEW x \in Ids, NEW w \in Values, Follows(S, x, w)
                 PROVE  <<x, w>> \in S
    BY DEF ClosedWithout
  <2>2. Follows(Derived({}), x, w)
    BY <2>1, FollowsMonotone, CandidateType
  <2>3. <<x, w>> \in Derived({})
    BY <2>2, DerivableClosed DEF Derived, Facts
  <2>4. ASSUME NEW b, <<x, b>> \in Derived({}) PROVE b = w
    <3> DEFINE c == program[x]
               D == Derived({})
    <3>1. Follows(Derived({}), x, b)
      BY <2>4, <1>0, MeansFollows
    <3>2. \A y, a, e : <<y, a>> \in S /\ <<y, e>> \in Derived({}) => e = a
      OBVIOUS
    <3>3. c.kind \in Kinds
      BY CandidateType
    <3> QED BY <2>1, <3>1, <3>2, <3>3, FollowsOne
  <2> QED BY <2>3, <2>4
<1>2. <<id, v>> \in S
  BY <1>1, MeansIsDerivable DEF Derivable, Derived
<1> QED BY <1>0, <1>2
----------------------------------------------------------------------------
(* One evaluation: what its answers say of its result.                     *)

LEMMA Prefixes ==
  ASSUME NEW got \in Seq(Answers)
  PROVE  /\ SubSeq(got, 1, 0) = <<>>
         /\ Len(got) >= 1 => SubSeq(got, 1, 1) = <<got[1]>>
         /\ Len(got) >= 2 => SubSeq(got, 1, 2) # <<>> /\ Len(SubSeq(got, 1, 2)) # 1
<1>1. SubSeq(got, 1, 0) = <<>>
  OBVIOUS
<1>2. ASSUME Len(got) >= 1 PROVE SubSeq(got, 1, 1) = <<got[1]>>
  <2> DEFINE s == SubSeq(got, 1, 1)
  <2>1. s \in Seq(Answers)
    BY <1>2
  <2>2. Len(s) = 1
    BY <1>2
  <2>3. s[1] = got[1]
    BY <1>2
  <2> HIDE DEF s
  <2>4. s = <<s[1]>>
    BY <2>1, <2>2
  <2> QED BY <2>3, <2>4 DEF s
<1>3. ASSUME Len(got) >= 2 PROVE SubSeq(got, 1, 2) # <<>> /\ Len(SubSeq(got, 1, 2)) # 1
  <2>1. SubSeq(got, 1, 2) # <<>>
    BY <1>3
  <2>2. Len(SubSeq(got, 1, 2)) = 2
    BY <1>3
  <2> QED BY <2>1, <2>2
<1> QED BY <1>1, <1>2, <1>3

LEMMA OneOrTwo ==
  ASSUME NEW got \in Seq(Answers), got # <<>>, Len(got) <= 2
  PROVE  Len(got) = 1 \/ Len(got) = 2
<1>1. PICK n \in Nat : n = Len(got)
  OBVIOUS
<1>2. n # 0
  BY <1>1
<1>3. n = 1 \/ n = 2
  BY <1>1, <1>2
<1> QED BY <1>1, <1>3

\* Nobody asks for more than two names.
LEMMA AsksNoMore ==
  ASSUME NEW c, c.kind \in Kinds, NEW got, got # <<>>, Len(got) # 1
  PROVE  Asks(c, got) = {}
BY AsksByKind DEF Kinds

\* A name that is asked for is one.
LEMMA AsksType ==
  ASSUME NEW c \in Candidates, NEW got, NEW id \in Asks(c, got)
  PROVE  /\ id \in Named /\ Asks(c, got) = {id}
         /\ c.kind = "implicit" => id = c.previous /\ id # None
         /\ c.kind # "implicit" => id \in Mentions(c)
<1>1. c.kind \in Kinds
  BY CandidateType
<1>2. CASE c.kind = "implicit"
  BY <1>2, AsksByKind, CandidateType
<1>3. CASE c.kind = "literal"
  BY <1>3, AsksByKind, CandidateType
<1>4. CASE c.kind = "unary"
  <2>1. Mentions(c) = {c.operand}
    BY <1>4, Zenon DEF Mentions
  <2> QED BY <1>4, <2>1, AsksByKind, CandidateType
<1>5. CASE c.kind = "binary"
  <2>1. Mentions(c) = {c.left, c.right}
    BY <1>5, Zenon DEF Mentions
  <2> QED BY <1>5, <2>1, AsksByKind, CandidateType
<1>6. CASE c.kind = "choice"
  <2>1. Mentions(c) = {c.condition, c.consequence, c.alternative}
    BY <1>6, Zenon DEF Mentions
  <2> QED BY <1>6, <2>1, AsksByKind, CandidateType DEF Condition
<1> QED BY <1>1, <1>2, <1>3, <1>4, <1>5, <1>6 DEF Kinds

\* The answers a call has, and whose they are.
LEMMA FittingByKind ==
  ASSUME NEW V, NEW c \in Candidates, NEW got \in Seq(Answers), Fitting(V, c, got)
  PROVE  /\ Len(got) <= 2
         /\ c.kind = "implicit" /\ got # <<>> => c.previous # None /\ Answer(V, c.previous, got[1])
         /\ c.kind = "unary" /\ got # <<>> => Answer(V, c.operand, got[1])
         /\ c.kind = "binary" /\ got # <<>> => Answer(V, c.left, got[1])
         /\ c.kind = "binary" /\ Len(got) = 2 => Answer(V, c.right, got[2])
         /\ c.kind = "choice" /\ got # <<>> => Answer(V, c.condition, got[1])
         /\ c.kind = "choice" /\ Len(got) = 2 =>
              Decided(got) /\ Answer(V, c[Condition(got)], got[2])
<1>0. c.kind \in Kinds
  BY CandidateType
<1>1. Len(got) <= 2
  <2>1. SUFFICES ASSUME 3 \in DOMAIN got PROVE FALSE
    OBVIOUS
  <2>2. SubSeq(got, 1, 2) # <<>> /\ Len(SubSeq(got, 1, 2)) # 1
    BY <2>1, Prefixes
  <2>3. Asks(c, SubSeq(got, 1, 2)) # {}
    BY <2>1 DEF Fitting
  <2> QED BY <1>0, <2>2, <2>3, AsksNoMore, Zenon
<1>2. ASSUME got # <<>>
      PROVE  \E id \in Asks(c, <<>>) : Answer(V, id, got[1])
  <2>1. 1 \in DOMAIN got
    BY <1>2
  <2>2. SubSeq(got, 1, 1 - 1) = <<>>
    BY Prefixes
  <2> QED BY <2>1, <2>2 DEF Fitting
<1>3. ASSUME Len(got) = 2
      PROVE  \E id \in Asks(c, <<got[1]>>) : Answer(V, id, got[2])
  <2>1. 2 \in DOMAIN got
    BY <1>3
  <2>2. SubSeq(got, 1, 2 - 1) = <<got[1]>>
    BY <1>3, Prefixes
  <2> QED BY <2>1, <2>2 DEF Fitting
<1>4. <<got[1]>> # <<>> /\ Len(<<got[1]>>) = 1 /\ <<got[1]>>[1] = got[1]
  OBVIOUS
<1>5. Len(got) = 2 => got # <<>>
  OBVIOUS
<1>6. CASE c.kind = "implicit"
  BY <1>6, <1>1, <1>2, AsksByKind
<1>7. CASE c.kind = "literal"
  BY <1>7, <1>1
<1>8. CASE c.kind = "unary"
  BY <1>8, <1>1, <1>2, AsksByKind
<1>9. CASE c.kind = "binary"
  BY <1>9, <1>1, <1>2, <1>3, <1>4, AsksByKind
<1>10. CASE c.kind = "choice"
  <2>1. got # <<>> => Answer(V, c.condition, got[1])
    BY <1>10, <1>2, AsksByKind
  <2>2. ASSUME Len(got) = 2 PROVE Decided(got) /\ Answer(V, c[Condition(got)], got[2])
    <3>1. Asks(c, <<got[1]>>) = IF Decided(<<got[1]>>) THEN {c[Condition(<<got[1]>>)]} ELSE {}
      BY <1>10, <1>4, AsksByKind
    <3>2. /\ Decided(<<got[1]>>) <=> Decided(got)
          /\ Condition(<<got[1]>>) = Condition(got)
      BY DEF Decided, Condition
    <3>3. Asks(c, <<got[1]>>) # {}
      BY <2>2, <1>3
    <3>4. Decided(<<got[1]>>)
      BY <3>1, <3>3
    <3>5. Asks(c, <<got[1]>>) = {c[Condition(got)]}
      BY <3>1, <3>2, <3>4
    <3> QED BY <2>2, <3>2, <3>4, <3>5, <1>3
  <2> QED BY <1>10, <1>1, <2>1, <2>2
<1> QED BY <1>0, <1>6, <1>7, <1>8, <1>9, <1>10 DEF Kinds

\* A right answer is among the meanings, and it is the only one for which
\* there can be a derivation.
LEMMA AnswerReads ==
  ASSUME program \in [Ids -> Candidates], NEW V, NEW id, NEW a \in Answers, Answer(V, id, a)
  PROVE  /\ a \in Values => <<id, a>> \in Derived({})
         /\ ~cancelled => \A b : <<id, b>> \in Derived(V) => b = a /\ a \in Values
<1>1. ASSUME a \in Values PROVE <<id, a>> \in Derived({})
  BY <1>1, MeansIsDerivable, DerivableIsFact DEF Answer, Derived, Facts
<1>2. ASSUME ~cancelled, NEW b, <<id, b>> \in Derived(V) PROVE b = a /\ a \in Values
  <2>1. Derivable(V, id, b) /\ b \in Values
    BY <1>2 DEF Derived, Facts
  <2>2. a # Unknown
    BY <1>2, <2>1 DEF Answer, HasNone
  <2>3. a \in Values
    BY <2>2 DEF Answers
  <2>4. Means(id, a) /\ Means(id, b)
    BY <2>1, <2>3, DerivableMeans DEF Answer
  <2> QED BY <2>3, <2>4, MeansOne
<1> QED BY <1>1, <1>2

\* If the answers that a call has are right for its own constant taken away
\* as well, its result is right without that.
LEMMA ResultRight ==
  ASSUME program \in [Ids -> Candidates], NEW V, NEW id \in Ids \ V, NEW got \in Seq(Answers),
         Fitting(V \cup {id}, program[id], got), Asks(program[id], got) = {}
  PROVE  /\ Result(program[id], got) \in Answers
         /\ Answer(V, id, Result(program[id], got))
<1> DEFINE c == program[id]
           r == Result(program[id], got)
           W == V \cup {id}
           Right == /\ r \in Answers
                    /\ r \in Values => Follows(Derived({}), id, r)
                    /\ ~cancelled => \A v \in Values : Follows(Derived(W), id, v) => v = r
<1>0. c \in Candidates /\ c.kind \in Kinds
  BY CandidateType
<1>1. \A k \in DOMAIN got : got[k] \in Answers
  OBVIOUS
<1>2. Right => r \in Answers /\ Answer(V, id, r)
  <2>1. SUFFICES ASSUME Right PROVE Answer(V, id, r)
    OBVIOUS
  <2>2. ASSUME r \in Values PROVE Means(id, r)
    BY <2>1, <2>2, DerivableClosed, MeansIsDerivable
  <2>3. ASSUME r = Unknown, ~cancelled PROVE HasNone(V, id)
    <3>1. \A w \in Values : ~Follows(Derived(W), id, w)
      BY <2>1, <2>3, ValuesAssumption
    <3> QED BY <3>1, NoneWithoutItself
  <2> QED BY <2>2, <2>3 DEF Answer
<1>3. CASE c.kind = "implicit"
  <2>1. CASE got = <<>>
    <3>1. c.previous = None
      BY <1>3, <2>1, AsksByKind
    <3>2. r = Zero
      BY <1>3, <2>1, Zenon DEF Result
    <3>3. \A S, v : Follows(S, id, v) <=> v = Zero
      BY <1>3, <3>1, Zenon DEF Follows
    <3> QED BY <1>2, <3>2, <3>3, ValuesAssumption DEF Answers
  <2>2. CASE got # <<>>
    <3>1. 1 \in DOMAIN got
      BY <2>2
    <3>2. c.previous # None /\ Answer(W, c.previous, got[1])
      BY <1>0, <1>3, <2>2, FittingByKind
    <3>3. /\ got[1] \in Answers
          /\ got[1] \in Values => <<c.previous, got[1]>> \in Derived({})
          /\ ~cancelled =>
               \A b : <<c.previous, b>> \in Derived(W) => b = got[1] /\ got[1] \in Values
      BY <1>1, <3>1, <3>2, AnswerReads
    <3>4. r = IF got[1] = Unknown THEN Unknown ELSE Successor[got[1]]
      BY <1>3, <2>2, Zenon DEF Result
    <3>5. r \in Answers
      BY <3>3, <3>4, ValuesAssumption DEF Answers
    <3>6. ASSUME r \in Values PROVE Follows(Derived({}), id, r)
      <4>1. got[1] \in Values /\ r = Successor[got[1]]
        BY <3>3, <3>4, <3>6, ValuesAssumption DEF Answers
      <4> QED BY <1>3, <3>2, <3>3, <4>1, Zenon DEF Follows
    <3>7. ASSUME ~cancelled, NEW v \in Values, Follows(Derived(W), id, v) PROVE v = r
      <4>1. PICK w \in Values : <<c.previous, w>> \in Derived(W) /\ v = Successor[w]
        BY <1>3, <3>2, <3>7, Zenon DEF Follows
      <4>2. w = got[1] /\ got[1] \in Values
        BY <3>3, <3>7, <4>1
      <4> QED BY <3>4, <4>1, <4>2, ValuesAssumption
    <3> QED BY <1>2, <3>5, <3>6, <3>7
  <2> QED BY <2>1, <2>2
<1>4. CASE c.kind = "literal"
  <2>1. r = c.value /\ r \in Answers
    <3>1. r = c.value
      BY <1>4, Zenon DEF Result
    <3> QED BY <1>0, <1>4, <3>1, CandidateType
  <2>2. \A S, v : Follows(S, id, v) <=> v = r
    BY <1>4, <2>1, Zenon DEF Follows
  <2> QED BY <1>2, <2>1, <2>2
<1>5. CASE c.kind = "unary"
  <2>1. got # <<>>
    BY <1>5, AsksByKind, Zenon
  <2>2. 1 \in DOMAIN got /\ Answer(W, c.operand, got[1])
    BY <1>0, <1>5, <2>1, FittingByKind
  <2>3. /\ got[1] \in Answers
        /\ got[1] \in Values => <<c.operand, got[1]>> \in Derived({})
        /\ ~cancelled =>
             \A b : <<c.operand, b>> \in Derived(W) => b = got[1] /\ got[1] \in Values
    BY <1>1, <2>2, AnswerReads
  <2>4. r = IF got[1] = Unknown THEN Unknown ELSE Unary[c.op][got[1]]
    BY <1>5, ResultByKind
  <2>5. c.op \in DOMAIN Unary
    BY <1>0, <1>5, CandidateType
  <2>6. r \in Answers
    BY <2>3, <2>4, <2>5, ValuesAssumption DEF Answers
  <2>7. ASSUME r \in Values PROVE Follows(Derived({}), id, r)
    <3>1. got[1] \in Values /\ r = Unary[c.op][got[1]]
      BY <2>3, <2>4, <2>7, ValuesAssumption DEF Answers
    <3> QED BY <1>5, <2>3, <3>1, Zenon DEF Follows
  <2>8. ASSUME ~cancelled, NEW v \in Values, Follows(Derived(W), id, v) PROVE v = r
    <3>1. PICK w \in Values : <<c.operand, w>> \in Derived(W) /\ v = Unary[c.op][w]
      BY <1>5, <2>8, Zenon DEF Follows
    <3>2. w = got[1] /\ got[1] \in Values
      BY <2>3, <2>8, <3>1
    <3> QED BY <2>4, <3>1, <3>2, ValuesAssumption
  <2> QED BY <1>2, <2>6, <2>7, <2>8
<1>6. CASE c.kind = "binary"
  <2>1. got # <<>> /\ Len(got) # 1
    BY <1>6, AsksByKind
  <2>2. Len(got) = 2 /\ 1 \in DOMAIN got /\ 2 \in DOMAIN got
    <3>1. Len(got) <= 2
      BY <1>0, FittingByKind
    <3>2. Len(got) = 2
      BY <2>1, <3>1, OneOrTwo, Zenon
    <3> QED BY <3>2
  <2>3. Answer(W, c.left, got[1]) /\ Answer(W, c.right, got[2])
    BY <1>0, <1>6, <2>1, <2>2, FittingByKind
  <2>4. /\ got[1] \in Answers
        /\ got[1] \in Values => <<c.left, got[1]>> \in Derived({})
        /\ ~cancelled =>
             \A b : <<c.left, b>> \in Derived(W) => b = got[1] /\ got[1] \in Values
    BY <1>1, <2>2, <2>3, AnswerReads
  <2>5. /\ got[2] \in Answers
        /\ got[2] \in Values => <<c.right, got[2]>> \in Derived({})
        /\ ~cancelled =>
             \A b : <<c.right, b>> \in Derived(W) => b = got[2] /\ got[2] \in Values
    BY <1>1, <2>2, <2>3, AnswerReads
  <2>6. r = IF Unknown \in {got[1], got[2]} THEN Unknown ELSE Binary[c.op][<<got[1], got[2]>>]
    BY <1>6, ResultByKind
  <2>7. c.op \in DOMAIN Binary
    BY <1>0, <1>6, CandidateType
  <2>8. \A w, u \in Values : Binary[c.op][<<w, u>>] \in Answers
    BY <2>7, ValuesAssumption
  <2>9. r \in Answers
    BY <2>4, <2>5, <2>6, <2>8 DEF Answers
  <2>10. ASSUME r \in Values PROVE Follows(Derived({}), id, r)
    <3>1. got[1] \in Values /\ got[2] \in Values /\ r = Binary[c.op][<<got[1], got[2]>>]
      BY <2>4, <2>5, <2>6, <2>10, ValuesAssumption DEF Answers
    <3> QED BY <1>6, <2>4, <2>5, <3>1, Zenon DEF Follows
  <2>11. ASSUME ~cancelled, NEW v \in Values, Follows(Derived(W), id, v) PROVE v = r
    <3>1. PICK w \in Values, u \in Values :
            <<c.left, w>> \in Derived(W) /\ <<c.right, u>> \in Derived(W)
              /\ v = Binary[c.op][<<w, u>>]
      BY <1>6, <2>11, Zenon DEF Follows
    <3>2. w = got[1] /\ u = got[2] /\ got[1] \in Values /\ got[2] \in Values
      BY <2>4, <2>5, <2>11, <3>1
    <3> QED BY <2>6, <3>1, <3>2, ValuesAssumption
  <2> QED BY <1>2, <2>9, <2>10, <2>11
<1>7. CASE c.kind = "choice"
  <2>1. got # <<>> /\ 1 \in DOMAIN got
    <3>1. got # <<>>
      BY <1>7, AsksByKind, Zenon
    <3> QED BY <3>1
  <2>2. Answer(W, c.condition, got[1])
    BY <1>0, <1>7, <2>1, FittingByKind
  <2>3. /\ got[1] \in Answers
        /\ got[1] \in Values => <<c.condition, got[1]>> \in Derived({})
        /\ ~cancelled =>
             \A b : <<c.condition, b>> \in Derived(W) => b = got[1] /\ got[1] \in Values
    BY <1>1, <2>1, <2>2, AnswerReads
  <2>4. CASE Len(got) = 2
    <3>1. Decided(got) /\ Answer(W, c[Condition(got)], got[2]) /\ 2 \in DOMAIN got
      BY <1>0, <1>7, <2>4, FittingByKind
    <3>2. /\ got[2] \in Answers
          /\ got[2] \in Values => <<c[Condition(got)], got[2]>> \in Derived({})
          /\ ~cancelled =>
               \A b : <<c[Condition(got)], b>> \in Derived(W) => b = got[2]
      BY <1>1, <3>1, AnswerReads
    <3>3. r = got[2]
      BY <1>7, <2>4, ResultByKind
    <3>4. got[1] \in Values
      BY <2>3, <3>1 DEF Decided, Answers
    <3>5. c[Condition(got)] = IF got[1] # Zero THEN c.consequence ELSE c.alternative
      BY DEF Condition
    <3>6. ASSUME r \in Values PROVE Follows(Derived({}), id, r)
      <4>1. CASE got[1] # Zero
        BY <1>7, <2>3, <3>2, <3>3, <3>4, <3>5, <3>6, <4>1, Zenon DEF Follows
      <4>2. CASE got[1] = Zero
        BY <1>7, <2>3, <3>2, <3>3, <3>4, <3>5, <3>6, <4>2, Zenon DEF Follows
      <4> QED BY <4>1, <4>2
    <3>7. ASSUME ~cancelled, NEW v \in Values, Follows(Derived(W), id, v) PROVE v = r
      <4>1. \/ /\ <<c.consequence, v>> \in Derived(W)
               /\ \E w \in Values \ {Zero} : <<c.condition, w>> \in Derived(W)
            \/ <<c.alternative, v>> \in Derived(W) /\ <<c.condition, Zero>> \in Derived(W)
        BY <1>7, <3>7, Zenon DEF Follows
      <4> QED BY <2>3, <3>2, <3>3, <3>5, <3>7, <4>1
    <3> QED BY <1>2, <3>2, <3>3, <3>6, <3>7
  <2>5. CASE Len(got) # 2
    <3>1. Len(got) = 1
      <4>1. Len(got) <= 2
        BY <1>0, FittingByKind
      <4> QED BY <2>1, <2>5, <4>1, OneOrTwo, Zenon
    <3>2. got[1] = Unknown
      BY <1>7, <2>1, <3>1, AsksByKind DEF Decided
    <3>3. r = Unknown
      BY <1>7, <2>5, ResultByKind
    <3>4. ASSUME ~cancelled, NEW v \in Values, Follows(Derived(W), id, v) PROVE FALSE
      <4>1. \E w : <<c.condition, w>> \in Derived(W)
        BY <1>7, <3>4, Zenon DEF Follows
      <4> QED BY <2>3, <3>2, <3>4, <4>1, ValuesAssumption
    <3> QED BY <1>2, <3>3, <3>4, ValuesAssumption DEF Answers
  <2> QED BY <2>4, <2>5
<1> QED BY <1>0, <1>3, <1>4, <1>5, <1>6, <1>7 DEF Kinds

\* A constant uses constants before it, or this use violates the order.
LEMMA AskingDescends ==
  ASSUME program \in Programs, NEW id \in Ids, NEW got, NEW used \in Ids,
         <<id, used>> \notin OutOfOrder, used \in Asks(program[id], got)
  PROVE  used < id
<1>1. program[id] \in Candidates
  BY ProgramsAssumption
<1>2. CASE program[id].kind = "implicit"
  BY <1>1, <1>2, AsksType, ProgramsAssumption
<1>3. CASE program[id].kind # "implicit"
  <2>1. used \in Mentions(program[id])
    BY <1>1, <1>3, AsksType
  <2>2. ~(used >= id)
    BY <2>1 DEF OutOfOrder, TooEarly
  <2> QED BY <2>2, CountAssumption DEF Ids
<1> QED BY <1>2, <1>3
----------------------------------------------------------------------------
(* The stack: calls pushed, popped and answered.                           *)

LEMMA FrameType ==
  ASSUME NEW s \in Seq(Frames), NEW i \in DOMAIN s
  PROVE  s[i] \in Frames /\ s[i].id \in Ids /\ s[i].got \in Seq(Answers)
<1>1. s[i] \in Frames
  OBVIOUS
<1> QED BY <1>1 DEF Frames

LEMMA Pushing ==
  ASSUME NEW s \in Seq(Frames), NEW id \in Ids
  PROVE  LET t == Append(s, Frame(id))
         IN /\ t \in Seq(Frames) /\ Len(t) = Len(s) + 1 /\ t # <<>>
            /\ \A i \in DOMAIN s : t[i] = s[i] /\ i \in DOMAIN t
            /\ t[Len(s) + 1] = Frame(id)
            /\ \A i \in DOMAIN t : i \in DOMAIN s \/ i = Len(s) + 1
<1>1. Frame(id) \in Frames
  BY DEF Frame, Frames
<1> HIDE DEF Frames
<1> QED BY <1>1

LEMMA Popping ==
  ASSUME NEW s \in Seq(Frames), s # <<>>
  PROVE  LET t == SubSeq(s, 1, Len(s) - 1)
         IN /\ t \in Seq(Frames) /\ Len(t) = Len(s) - 1 /\ Len(t) \in Nat
            /\ \A i \in DOMAIN t : t[i] = s[i] /\ i \in DOMAIN s /\ i < Len(s)
            /\ DOMAIN t = 1..(Len(s) - 1)
<1> DEFINE t == SubSeq(s, 1, Len(s) - 1)
<1> HIDE DEF Frames
<1>1. t \in Seq(Frames) /\ Len(t) = Len(s) - 1
  OBVIOUS
<1>2. Len(s) - 1 \in Nat /\ DOMAIN t = 1..(Len(s) - 1)
  BY <1>1
<1>3. \A i \in 1..(Len(s) - 1) : t[i] = s[i] /\ i \in DOMAIN s /\ i < Len(s)
  OBVIOUS
<1> QED BY <1>1, <1>2, <1>3

LEMMA Answering ==
  ASSUME NEW s \in Seq(Frames), s # <<>>, NEW a \in Answers
  PROVE  LET t == Answered(s, a)
         IN /\ t \in Seq(Frames) /\ Len(t) = Len(s)
            /\ DOMAIN t = DOMAIN s /\ Len(s) \in DOMAIN s
            /\ \A i \in DOMAIN s : i # Len(s) => t[i] = s[i]
            /\ \A i \in DOMAIN s : t[i].id = s[i].id
            /\ t[Len(s)].got = Append(s[Len(s)].got, a)
<1> DEFINE n == Len(s)
           f == [s[n] EXCEPT !.got = Append(@, a)]
           t == [s EXCEPT ![n] = f]
<1>1. n \in DOMAIN s /\ s[n] \in Frames
  <2> HIDE DEF Frames
  <2> QED OBVIOUS
<1>2. f \in Frames /\ f.id = s[n].id /\ f.got = Append(s[n].got, a)
  <2>1. s[n] = [id |-> s[n].id, got |-> s[n].got] /\ s[n].id \in Ids /\ s[n].got \in Seq(Answers)
    BY <1>1 DEF Frames
  <2>2. Append(s[n].got, a) \in Seq(Answers)
    BY <2>1
  <2> QED BY <2>1, <2>2 DEF Frames
<1>3. Answered(s, a) = t
  BY DEF Answered
<1> HIDE DEF f, Frames
<1>4. t \in Seq(Frames) /\ Len(t) = Len(s) /\ DOMAIN t = DOMAIN s
  BY <1>1, <1>2
<1>5. \A i \in DOMAIN s : t[i] = IF i = n THEN f ELSE s[i]
  BY <1>1
<1> QED BY <1>1, <1>2, <1>3, <1>4, <1>5

\* The constants of calls that agree.
LEMMA UptoSame ==
  ASSUME NEW s, NEW t, NEW n, \A i \in 1..n : t[i].id = s[i].id
  PROVE  Upto(t, n) = Upto(s, n)
BY DEF Upto

\* The calls below the innermost are well.
LEMMA PoppingCalls ==
  ASSUME NEW s, Calls(s), s # <<>>
  PROVE  Calls(SubSeq(s, 1, Len(s) - 1))
<1> DEFINE t == SubSeq(s, 1, Len(s) - 1)
<1>1. s \in Seq(Frames)
  BY DEF Calls
<1>2. /\ t \in Seq(Frames) /\ Len(t) = Len(s) - 1 /\ Len(t) \in Nat
      /\ \A i \in DOMAIN t : t[i] = s[i] /\ i \in DOMAIN s /\ i < Len(s)
      /\ DOMAIN t = 1..(Len(s) - 1)
  BY <1>1, Popping
<1> HIDE DEF t
<1>3. Distinct(t)
  BY <1>2 DEF Calls, Distinct
<1>4. Chained(t)
  BY <1>2 DEF Calls, Chained
<1>5. Descending(t)
  <2>1. SUFFICES ASSUME NEW i \in DOMAIN t, NEW j \in DOMAIN t, i < j,
                        \A k \in i..j - 1 : <<t[k].id, t[k + 1].id>> \notin OutOfOrder
                 PROVE  t[j].id < t[i].id
    BY Zenon DEF Descending
  <2>2. \A k \in i..j - 1 : k \in DOMAIN t /\ k + 1 \in DOMAIN t
    BY <1>1, <1>2, <2>1
  <2>3. \A k \in i..j - 1 : <<s[k].id, s[k + 1].id>> \notin OutOfOrder
    BY <1>2, <2>1, <2>2
  <2>4. i \in DOMAIN s /\ j \in DOMAIN s /\ t[i].id = s[i].id /\ t[j].id = s[j].id
    BY <1>2
  <2> QED BY <2>1, <2>3, <2>4 DEF Calls, Descending
<1>6. Justified(t)
  <2>1. SUFFICES ASSUME NEW i \in DOMAIN t
                 PROVE  Fitting(Upto(t, i), program[t[i].id], t[i].got)
    BY DEF Justified
  <2>2. i \in DOMAIN s /\ t[i] = s[i]
    BY <1>2
  <2>3. Upto(t, i) = Upto(s, i)
    <3>1. \A j \in 1..i : j \in DOMAIN t
      BY <1>2
    <3> QED BY <1>2, <3>1, UptoSame
  <2> QED BY <2>2, <2>3 DEF Calls, Justified
<1>7. Calls(t)
  BY <1>2, <1>3, <1>4, <1>5, <1>6 DEF Calls
<1> QED BY <1>7 DEF t

\* So they are when one more begins that the innermost asked for.
LEMMA PushingCalls ==
  ASSUME program \in Programs, NEW s, Calls(s),
         NEW id \in Ids, id \notin Upto(s, Len(s)),
         s # <<>> => id \in Asks(program[s[Len(s)].id], s[Len(s)].got)
  PROVE  Calls(Append(s, Frame(id)))
<1> DEFINE t == Append(s, Frame(id))
<1>1. s \in Seq(Frames) /\ Len(s) \in Nat /\ DOMAIN s = 1..Len(s)
  BY DEF Calls
<1>0. \A i \in DOMAIN s : s[i].id \in Ids
  BY <1>1, FrameType
<1>2. /\ t \in Seq(Frames) /\ Len(t) = Len(s) + 1 /\ t # <<>>
      /\ \A i \in DOMAIN s : t[i] = s[i] /\ i \in DOMAIN t
      /\ t[Len(s) + 1] = Frame(id)
      /\ \A i \in DOMAIN t : i \in DOMAIN s \/ i = Len(s) + 1
  BY <1>1, Pushing
<1> HIDE DEF t
<1>3. t[Len(s) + 1].id = id /\ t[Len(s) + 1].got = <<>>
  BY <1>2 DEF Frame
<1>4. \A i \in DOMAIN s : t[i].id # id
  BY <1>1, <1>2 DEF Upto
<1>5. Distinct(t)
  BY <1>2, <1>3, <1>4 DEF Calls, Distinct
<1>6. Chained(t)
  <2>1. SUFFICES ASSUME NEW i \in DOMAIN t, NEW j \in DOMAIN t, j = i + 1
                 PROVE  t[j].id \in Asks(program[t[i].id], t[i].got)
    BY DEF Chained
  <2>2. i \in DOMAIN s
    BY <1>1, <1>2, <2>1
  <2>3. CASE j \in DOMAIN s
    BY <1>2, <2>1, <2>2, <2>3 DEF Calls, Chained
  <2>4. CASE j = Len(s) + 1
    <3>1. i = Len(s) /\ s # <<>>
      BY <1>1, <2>1, <2>2, <2>4
    <3> QED BY <1>2, <1>3, <2>2, <2>4, <3>1
  <2> QED BY <1>2, <2>3, <2>4
<1>7. Descending(t)
  <2>1. SUFFICES ASSUME NEW i \in DOMAIN t, NEW j \in DOMAIN t, i < j,
                        \A k \in i..j - 1 : <<t[k].id, t[k + 1].id>> \notin OutOfOrder
                 PROVE  t[j].id < t[i].id
    BY Zenon DEF Descending
  <2>2. i \in DOMAIN s
    BY <1>1, <1>2, <2>1
  <2>3. \A k \in i..j - 1 : k \in DOMAIN s /\ t[k].id = s[k].id
    BY <1>1, <1>2, <2>1, <2>2
  <2>4. CASE j \in DOMAIN s
    <3>1. \A k \in i..j - 1 : k + 1 \in DOMAIN s /\ t[k + 1].id = s[k + 1].id
      BY <1>1, <1>2, <2>2, <2>4
    <3>2. \A k \in i..j - 1 : <<s[k].id, s[k + 1].id>> \notin OutOfOrder
      BY <2>1, <2>3, <3>1
    <3> QED BY <1>2, <2>1, <2>2, <2>4, <3>2 DEF Calls, Descending
  <2>5. CASE j = Len(s) + 1
    <3> DEFINE n == Len(s)
    <3>1. n \in DOMAIN s /\ s # <<>> /\ s[n].id \in Ids /\ n \in i..j - 1
      BY <1>0, <1>1, <2>2, <2>5
    <3>2. <<s[n].id, id>> \notin OutOfOrder
      BY <1>3, <2>1, <2>3, <2>5, <3>1
    <3>3. id < s[n].id
      BY <3>1, <3>2, AskingDescends
    <3>4. n = i \/ s[n].id < s[i].id
      <4>1. \A k \in i..n - 1 : /\ k \in i..j - 1 /\ k + 1 \in DOMAIN s
                                /\ t[k + 1].id = s[k + 1].id
        BY <1>1, <1>2, <2>2, <2>5
      <4>2. \A k \in i..n - 1 : <<s[k].id, s[k + 1].id>> \notin OutOfOrder
        BY <2>1, <2>3, <4>1
      <4>3. n = i \/ i < n
        BY <1>1, <2>2
      <4> QED BY <2>2, <3>1, <4>2, <4>3 DEF Calls, Descending
    <3>5. s[i].id \in Ids
      BY <1>0, <2>2
    <3> QED BY <1>2, <1>3, <2>2, <2>5, <3>1, <3>3, <3>4, <3>5, CountAssumption DEF Ids
  <2> QED BY <1>2, <2>4, <2>5
<1>8. Justified(t)
  <2>1. SUFFICES ASSUME NEW i \in DOMAIN t
                 PROVE  Fitting(Upto(t, i), program[t[i].id], t[i].got)
    BY DEF Justified
  <2>2. CASE i \in DOMAIN s
    <3>1. \A j \in 1..i : j \in DOMAIN s
      BY <1>1, <2>2
    <3>2. Upto(t, i) = Upto(s, i)
      BY <1>2, <3>1, UptoSame
    <3> QED BY <1>2, <2>2, <3>2 DEF Calls, Justified
  <2>3. CASE i = Len(s) + 1
    <3>1. DOMAIN t[i].got = {}
      BY <1>3, <2>3
    <3> QED BY <3>1 DEF Fitting
  <2> QED BY <1>2, <2>2, <2>3
<1>9. Calls(t)
  BY <1>2, <1>5, <1>6, <1>7, <1>8 DEF Calls
<1> QED BY <1>9 DEF t

\* So they are when the innermost gets the answer it asked for.
LEMMA AnsweringCalls ==
  ASSUME program \in Programs, NEW s, Calls(s), s # <<>>, NEW a \in Answers, NEW id,
         id \in Asks(program[s[Len(s)].id], s[Len(s)].got), Answer(Upto(s, Len(s)), id, a)
  PROVE  Calls(Answered(s, a))
<1> DEFINE t == Answered(s, a)
           n == Len(s)
<1>1. s \in Seq(Frames) /\ n \in Nat /\ DOMAIN s = 1..n
  BY DEF Calls
<1>2. /\ t \in Seq(Frames) /\ Len(t) = Len(s)
      /\ DOMAIN t = DOMAIN s /\ n \in DOMAIN s
      /\ \A i \in DOMAIN s : i # n => t[i] = s[i]
      /\ \A i \in DOMAIN s : t[i].id = s[i].id
      /\ t[n].got = Append(s[n].got, a)
  BY <1>1, Answering
<1> HIDE DEF t
<1>3. Distinct(t)
  BY <1>2 DEF Calls, Distinct
<1>4. Chained(t)
  <2>1. SUFFICES ASSUME NEW i \in DOMAIN t, NEW j \in DOMAIN t, j = i + 1
                 PROVE  t[j].id \in Asks(program[t[i].id], t[i].got)
    BY DEF Chained
  <2>2. i # n
    BY <1>1, <1>2, <2>1
  <2> QED BY <1>2, <2>1, <2>2 DEF Calls, Chained
<1>5. Descending(t)
  <2>1. SUFFICES ASSUME NEW i \in DOMAIN t, NEW j \in DOMAIN t, i < j,
                        \A k \in i..j - 1 : <<t[k].id, t[k + 1].id>> \notin OutOfOrder
                 PROVE  t[j].id < t[i].id
    BY Zenon DEF Descending
  <2>2. \A k \in i..j - 1 : k \in DOMAIN t /\ k + 1 \in DOMAIN t
    BY <1>1, <1>2, <2>1
  <2>3. \A k \in i..j - 1 : <<s[k].id, s[k + 1].id>> \notin OutOfOrder
    BY <1>2, <2>1, <2>2
  <2>4. i \in DOMAIN s /\ j \in DOMAIN s /\ t[i].id = s[i].id /\ t[j].id = s[j].id
    BY <1>2
  <2> QED BY <2>1, <2>3, <2>4 DEF Calls, Descending
<1>6. Justified(t)
  <2>1. SUFFICES ASSUME NEW i \in DOMAIN t
                 PROVE  Fitting(Upto(t, i), program[t[i].id], t[i].got)
    BY DEF Justified
  <2>2. Upto(t, i) = Upto(s, i)
    <3>1. \A j \in 1..i : j \in DOMAIN s
      BY <1>1, <1>2
    <3> QED BY <1>2, <3>1, UptoSame
  <2>3. Fitting(Upto(s, i), program[s[i].id], s[i].got)
    BY <1>2 DEF Calls, Justified
  <2>4. CASE i # n
    BY <1>2, <2>2, <2>3, <2>4
  <2>5. CASE i = n
    <3> DEFINE c == program[s[n].id]
               got == s[n].got
               V == Upto(s, n)
    <3>1. got \in Seq(Answers) /\ Len(got) \in Nat
      BY <1>1, <1>2, FrameType
    <3>2. SUFFICES ASSUME NEW k \in DOMAIN Append(got, a)
                   PROVE  \E x \in Asks(c, SubSeq(Append(got, a), 1, k - 1)) :
                            Answer(V, x, Append(got, a)[k])
      BY <1>2, <2>2, <2>5 DEF Fitting
    <3>3. CASE k \in DOMAIN got
      <4>1. SubSeq(Append(got, a), 1, k - 1) = SubSeq(got, 1, k - 1)
        BY <3>1, <3>3
      <4>2. Append(got, a)[k] = got[k]
        BY <3>1, <3>3
      <4> QED BY <2>3, <2>5, <3>3, <4>1, <4>2 DEF Fitting
    <3>4. CASE k = Len(got) + 1
      <4>1. SubSeq(Append(got, a), 1, k - 1) = got
        BY <3>1, <3>4
      <4>2. Append(got, a)[k] = a
        BY <3>1, <3>4
      <4> QED BY <4>1, <4>2
    <3> QED BY <3>1, <3>3, <3>4
  <2> QED BY <2>4, <2>5
<1>7. Calls(t)
  BY <1>2, <1>3, <1>4, <1>5, <1>6 DEF Calls
<1> QED BY <1>7 DEF t
----------------------------------------------------------------------------
(* The steps.                                                              *)

\* The program does not change, nor does what it means.
LEMMA MeaningStays ==
  ASSUME program' = program
  PROVE  /\ \A V, id : HasNone(V, id)' <=> HasNone(V, id)
         /\ \A id, v : Means(id, v)' <=> Means(id, v)
<1>1. \A S, id, v : Follows(S, id, v)' <=> Follows(S, id, v)
  BY DEF Follows
<1>2. \A V, S : ClosedWithout(V, S)' <=> ClosedWithout(V, S)
  BY <1>1 DEF ClosedWithout
<1>3. \A V, id, v : Derivable(V, id, v)' <=> Derivable(V, id, v)
  BY <1>2 DEF Derivable
<1>4. \A S : Closed(S)' <=> Closed(S)
  BY <1>1 DEF Closed
<1> QED BY <1>3, <1>4 DEF HasNone, Means

\* Calls that are well stay so.
LEMMA CallsStay ==
  ASSUME program' = program, cancelled => cancelled'
  PROVE  \A s : Calls(s) => Calls(s)'
<1>1. \A V, id, a : Answer(V, id, a) => Answer(V, id, a)'
  BY MeaningStays DEF Answer
<1>2. \A V, c, got : Fitting(V, c, got) => Fitting(V, c, got)'
  BY <1>1 DEF Fitting
<1>3. \A s : Justified(s) => Justified(s)'
  BY <1>2 DEF Justified
<1>4. \A s : Chained(s) => Chained(s)'
  BY DEF Chained
<1>5. OutOfOrder' = OutOfOrder
  BY DEF OutOfOrder
<1>6. \A s : Descending(s) => Descending(s)'
  BY <1>5 DEF Descending
<1> QED BY <1>3, <1>4, <1>6 DEF Calls

LEMMA Initially ==
  ASSUME Init
  PROVE  Inv
<1>1. TypeOK /\ program \in Programs
  <2>1. program \in Programs /\ program \in [Ids -> Candidates]
    BY ProgramsAssumption DEF Init
  <2>2. values \in [Ids -> Answers]
    BY DEF Init, Answers
  <2>3. stack \in Seq([id : Ids, got : Seq(Answers)])
    BY DEF Init
  <2>4. /\ visiting \subseteq Ids /\ todo \subseteq Ids
        /\ cancelled \in BOOLEAN /\ outcome \in {"none", "values", "error"}
    BY DEF Init
  <2> QED BY <2>1, <2>2, <2>3, <2>4 DEF TypeOK
<1>2. stack = <<>> /\ Len(stack) = 0 /\ DOMAIN stack = {} /\ stack \in Seq(Frames)
  BY DEF Init
<1>3. Calls(stack)
  BY <1>2 DEF Calls, Distinct, Chained, Descending, Justified
<1>4. Visited
  BY <1>2 DEF Init, Visited, Upto
<1>5. Sought /\ Complete /\ Returned
  BY <1>2 DEF Init, Sought, Complete, Returned
<1>6. Sound
  BY ValuesAssumption DEF Init, Sound
<1> QED BY <1>1, <1>3, <1>4, <1>5, <1>6 DEF Inv

\* A call begins.
LEMMA PushStep ==
  ASSUME Inv, NEW id \in Ids, Push(id), UNCHANGED <<program, values, cancelled, outcome>>,
         stack # <<>> => id \in Asked
  PROVE  /\ Calls(stack)' /\ Visited' /\ Sought' /\ stack' # <<>>
         /\ stack'[1].id = IF stack = <<>> THEN id ELSE stack[1].id
         /\ stack' \in Seq(Frames)
<1>1. stack \in Seq(Frames) /\ program \in Programs
  BY DEF Inv, Calls
<1>2. /\ stack' \in Seq(Frames) /\ Len(stack') = Len(stack) + 1 /\ stack' # <<>>
      /\ \A i \in DOMAIN stack : stack'[i] = stack[i] /\ i \in DOMAIN stack'
      /\ stack'[Len(stack) + 1] = Frame(id)
      /\ \A i \in DOMAIN stack' : i \in DOMAIN stack \/ i = Len(stack) + 1
  BY <1>1, Pushing DEF Push
<1>3. id \notin Upto(stack, Len(stack)) /\ values[id] = Unknown
  BY DEF Inv, Visited, Push, Evaluates, EvaluatesAgain
<1>4. Calls(stack)'
  <2>1. Calls(Append(stack, Frame(id)))
    BY <1>1, <1>3, PushingCalls DEF Inv, Asked, Top
  <2>2. Calls(stack')
    BY <2>1 DEF Push
  <2> QED BY <2>2, CallsStay
<1>5. Visited'
  <2>1. Upto(stack', Len(stack')) = Upto(stack, Len(stack)) \cup {id}
    <3>1. Len(stack) \in Nat /\ DOMAIN stack = 1..Len(stack)
      BY <1>1
    <3>2. \A i \in 1..Len(stack) : stack'[i].id = stack[i].id
      BY <1>2, <3>1
    <3>3. stack'[Len(stack) + 1].id = id
      BY <1>2 DEF Frame
    <3>4. 1..Len(stack') = (1..Len(stack)) \cup {Len(stack) + 1}
      BY <1>2, <3>1
    <3> QED BY <3>2, <3>3, <3>4 DEF Upto
  <2>2. visiting' = visiting \cup {id}
    BY DEF Push
  <2> QED BY <2>1, <2>2 DEF Inv, Visited
<1>6. Sought'
  BY <1>2, <1>3 DEF Inv, Sought, Frame
<1>7. stack'[1].id = IF stack = <<>> THEN id ELSE stack[1].id
  <2>1. CASE stack = <<>>
    <3>1. Len(stack) + 1 = 1
      BY <2>1
    <3> QED BY <1>2, <2>1, <3>1 DEF Frame
  <2>2. CASE stack # <<>>
    <3>1. 1 \in DOMAIN stack
      BY <1>1, <2>2
    <3> QED BY <1>2, <2>2, <3>1
  <2> QED BY <2>1, <2>2
<1> QED BY <1>2, <1>4, <1>5, <1>6, <1>7

LEMMA BeginStep ==
  ASSUME Inv, NEW id \in Ids, Begin(id)
  PROVE  Inv'
<1>1. stack = <<>> /\ visiting = {} /\ outcome = "none"
  BY DEF Begin, Inv, Visited, Upto, Running
<1>2. UNCHANGED <<program, values, cancelled, outcome>> /\ todo' = todo \ {id}
  BY DEF Begin
<1>3. \A x, v : Means(x, v)' <=> Means(x, v)
  BY <1>2, MeaningStays
<1>4. \A V, x : HasNone(V, x)' <=> HasNone(V, x)
  BY <1>2, MeaningStays
<1>5. CASE Push(id)
  <2>1. /\ Calls(stack)' /\ Visited' /\ Sought' /\ stack' # <<>> /\ stack' \in Seq(Frames)
        /\ stack'[1].id = id
    BY <1>1, <1>2, <1>5, PushStep
  <2>2. TypeOK'
    BY <1>2, <1>5, <2>1 DEF Inv, TypeOK, Frames, Push
  <2>3. Sound'
    BY <1>2, <1>3 DEF Inv, Sound
  <2>4. Complete'
    BY <1>1, <1>2, <1>4, <2>1 DEF Inv, Complete
  <2>5. Returned'
    BY <1>1, <1>2 DEF Returned
  <2> QED BY <1>2, <2>1, <2>2, <2>3, <2>4, <2>5 DEF Inv
<1>6. CASE ~Evaluates(id) /\ UNCHANGED <<visiting, stack>>
  <2>1. Calls(stack)'
    BY <1>2, <1>6, CallsStay DEF Inv
  <2>2. TypeOK'
    BY <1>2, <1>6 DEF Inv, TypeOK
  <2>3. Sound' /\ Visited' /\ Sought'
    BY <1>2, <1>3, <1>6 DEF Inv, Sound, Visited, Sought
  <2>4. Complete'
    <3>1. ~cancelled => values[id] # Unknown
      BY <1>1, <1>6 DEF Evaluates, EvaluatesAgain
    <3> QED BY <1>1, <1>2, <1>4, <1>6, <3>1 DEF Inv, Complete
  <2>5. Returned'
    BY <1>1, <1>2 DEF Returned
  <2> QED BY <1>2, <2>1, <2>2, <2>3, <2>4, <2>5 DEF Inv
<1> QED BY <1>5, <1>6 DEF Begin

\* value answers rightly at once: it knows the value, or the name is none, or
\* the constant is being evaluated and no derivation may use it.
LEMMA AtOnceRight ==
  ASSUME Inv, NEW id \in Named, ~Evaluates(id)
  PROVE  AtOnce(id) \in Answers /\ Answer(Upto(stack, Len(stack)), id, AtOnce(id))
<1>1. AtOnce(id) \in Answers
  BY DEF Inv, TypeOK, AtOnce, Answers
<1>2. AtOnce(id) \in Values => Means(id, AtOnce(id))
  BY ValuesAssumption DEF Inv, Sound, AtOnce
<1>3. ASSUME AtOnce(id) = Unknown, ~cancelled
      PROVE  HasNone(Upto(stack, Len(stack)), id)
  <2>1. id \notin Ids \/ id \in visiting
    BY <1>3 DEF AtOnce, Evaluates, EvaluatesAgain
  <2>2. visiting = Upto(stack, Len(stack))
    BY DEF Inv, Visited
  <2> QED BY <2>1, <2>2, DerivableIsFact DEF HasNone
<1> QED BY <1>1, <1>2, <1>3 DEF Answer

LEMMA AskStep ==
  ASSUME Inv, Ask
  PROVE  Inv'
<1>1. stack # <<>> /\ UNCHANGED <<program, values, todo, cancelled, outcome>>
  BY DEF Ask
<1>2. \A x, v : Means(x, v)' <=> Means(x, v)
  BY <1>1, MeaningStays
<1>3. \A V, x : HasNone(V, x)' <=> HasNone(V, x)
  BY <1>1, MeaningStays
<1>4. PICK id \in Asked : \/ Push(id)
                          \/ /\ ~Evaluates(id)
                             /\ stack' = Answered(stack, AtOnce(id)) /\ UNCHANGED visiting
  BY DEF Ask
<1>5. stack \in Seq(Frames) /\ Len(stack) \in DOMAIN stack /\ 1 \in DOMAIN stack
  BY <1>1 DEF Inv, Calls
<1>6. id \in Named
  <2>1. Top.id \in Ids
    BY <1>5, FrameType DEF Top
  <2>2. program[Top.id] \in Candidates
    BY <2>1 DEF Inv, TypeOK
  <2> QED BY <2>2, AsksType DEF Asked
<1>7. Calls(stack)' /\ Visited' /\ Sought' /\ stack' # <<>> /\ stack' \in Seq(Frames)
      /\ stack'[1].id = stack[1].id /\ visiting' \subseteq Ids
  <2>1. CASE Push(id)
    <3>1. id \in Ids
      BY <2>1 DEF Push, Evaluates, EvaluatesAgain
    <3> QED BY <1>1, <2>1, <3>1, PushStep DEF Inv, TypeOK, Push
  <2>2. CASE /\ ~Evaluates(id)
             /\ stack' = Answered(stack, AtOnce(id)) /\ UNCHANGED visiting
    <3>1. AtOnce(id) \in Answers /\ Answer(Upto(stack, Len(stack)), id, AtOnce(id))
      BY <1>6, <2>2, AtOnceRight
    <3>2. /\ stack' \in Seq(Frames) /\ Len(stack') = Len(stack)
          /\ DOMAIN stack' = DOMAIN stack
          /\ \A i \in DOMAIN stack : stack'[i].id = stack[i].id
      BY <1>1, <1>5, <2>2, <3>1, Answering
    <3>3. Calls(stack)'
      <4>1. Calls(stack')
        BY <1>1, <2>2, <3>1, AnsweringCalls DEF Inv, Asked, Top
      <4> QED BY <1>1, <4>1, CallsStay
    <3>4. Upto(stack', Len(stack')) = Upto(stack, Len(stack))
      <4>1. DOMAIN stack = 1..Len(stack)
        BY <1>5
      <4> QED BY <3>2, <4>1, UptoSame
    <3>5. Visited'
      BY <2>2, <3>4 DEF Inv, Visited
    <3>6. Sought'
      BY <1>1, <3>2 DEF Inv, Sought
    <3>7. stack' # <<>>
      BY <1>5, <3>2
    <3> QED BY <1>5, <2>2, <3>2, <3>3, <3>5, <3>6, <3>7 DEF Inv, TypeOK
  <2> QED BY <1>4, <2>1, <2>2
<1>8. TypeOK'
  BY <1>1, <1>7 DEF Inv, TypeOK, Frames
<1>9. Sound'
  BY <1>1, <1>2 DEF Inv, Sound
<1>10. Complete'
  BY <1>1, <1>3, <1>7 DEF Inv, Complete
<1>11. Returned'
  BY <1>1 DEF Inv, Returned
<1> QED BY <1>1, <1>7, <1>8, <1>9, <1>10, <1>11 DEF Inv

LEMMA FinishStep ==
  ASSUME Inv, Finish
  PROVE  Inv'
<1> DEFINE n == Len(stack)
           id == stack[n].id
           got == stack[n].got
           rest == SubSeq(stack, 1, n - 1)
           V == Upto(rest, n - 1)
           result == Result(program[id], got)
<1>1. /\ stack # <<>> /\ Asks(program[id], got) = {}
      /\ visiting' = visiting \ {id} /\ values' = [values EXCEPT ![id] = result]
      /\ stack' = Answered(rest, result) /\ UNCHANGED <<program, todo, cancelled, outcome>>
  BY DEF Finish, Asked, Top
<1>2. /\ stack \in Seq(Frames) /\ n \in Nat /\ DOMAIN stack = 1..n
      /\ n \in DOMAIN stack /\ 1 \in DOMAIN stack
  BY <1>1 DEF Inv, Calls
<1>3. id \in Ids /\ got \in Seq(Answers)
  BY <1>2, FrameType
<1>4. /\ rest \in Seq(Frames) /\ Len(rest) = n - 1 /\ n - 1 \in Nat
      /\ DOMAIN rest = 1..(n - 1)
      /\ \A i \in DOMAIN rest : rest[i] = stack[i] /\ i \in DOMAIN stack /\ i < n
  BY <1>1, <1>2, Popping
<1>5. Calls(rest)
  BY <1>1, PoppingCalls DEF Inv
<1> HIDE DEF rest
<1>6. id \notin V
  BY <1>2, <1>4 DEF Upto, Inv, Calls, Distinct
<1>7. Upto(stack, n) = V \cup {id}
  <2>1. 1..n = (1..(n - 1)) \cup {n}
    BY <1>2, <1>4
  <2>2. \A i \in 1..(n - 1) : rest[i].id = stack[i].id
    BY <1>4
  <2> QED BY <2>1, <2>2 DEF Upto
<1>8. result \in Answers /\ Answer(V, id, result)
  <2>1. Fitting(V \cup {id}, program[id], got)
    BY <1>2, <1>7 DEF Inv, Calls, Justified
  <2> QED BY <1>1, <1>3, <1>6, <2>1, ResultRight DEF Inv, TypeOK
<1> HIDE DEF result
<1>9. /\ stack' \in Seq(Frames) /\ Len(stack') = n - 1 /\ DOMAIN stack' = DOMAIN rest
      /\ \A i \in DOMAIN rest : stack'[i].id = stack[i].id
      /\ Calls(stack')
  <2>1. CASE rest = <<>>
    <3>1. stack' = rest
      BY <1>1, <2>1 DEF Answered
    <3> QED BY <1>4, <1>5, <3>1
  <2>2. CASE rest # <<>>
    <3>1. n - 1 \in DOMAIN rest
      BY <1>4, <2>2
    <3>2. id \in Asks(program[rest[n - 1].id], rest[n - 1].got)
      BY <1>2, <1>4, <3>1 DEF Inv, Calls, Chained
    <3>3. Calls(stack')
      BY <1>1, <1>4, <1>5, <1>8, <2>2, <3>2, AnsweringCalls DEF Inv
    <3> QED BY <1>1, <1>4, <1>8, <2>2, <3>3, Answering
  <2> QED BY <2>1, <2>2
<1>10. Calls(stack)'
  BY <1>1, <1>9, CallsStay
<1>11. Visited'
  <2>1. Upto(stack', n - 1) = V
    BY <1>4, <1>9, UptoSame
  <2> QED BY <1>1, <1>6, <1>7, <1>9, <2>1 DEF Inv, Visited
<1>12. Sought'
  <2>1. SUFFICES ASSUME NEW i \in DOMAIN stack' PROVE values'[stack'[i].id] = Unknown
    BY DEF Sought
  <2>2. stack'[i].id = stack[i].id /\ i \in DOMAIN stack /\ i # n
    BY <1>2, <1>4, <1>9
  <2>3. stack[i].id # id /\ values[stack[i].id] = Unknown
    BY <1>2, <2>2 DEF Inv, Calls, Distinct, Sought
  <2>4. values'[stack[i].id] = values[stack[i].id]
    BY <1>1, <2>3
  <2> QED BY <2>2, <2>3, <2>4
<1>13. \A x \in Ids : values'[x] = IF x = id THEN result ELSE values[x]
  BY <1>1 DEF Inv, TypeOK
<1>14. TypeOK'
  <2>1. values' \in [Ids -> Answers]
    BY <1>1, <1>8 DEF Inv, TypeOK
  <2>2. stack' \in Seq([id : Ids, got : Seq(Answers)])
    BY <1>9 DEF Frames
  <2> QED BY <1>1, <2>1, <2>2 DEF Inv, TypeOK
<1>15. Sound'
  <2>1. \A x, v : Means(x, v)' <=> Means(x, v)
    BY <1>1, MeaningStays
  <2> QED BY <1>8, <1>13, <2>1 DEF Inv, Sound, Answer
<1>16. Complete'
  <2>1. SUFFICES ASSUME ~cancelled', NEW x \in Ids \ todo', values'[x] = Unknown,
                        stack' # <<>> => x # stack'[1].id
                 PROVE  HasNone({}, x)'
    BY DEF Complete
  <2>2. \A y : HasNone({}, y)' <=> HasNone({}, y)
    BY <1>1, MeaningStays
  <2>3. CASE n = 1
    <3>1. V = {}
      BY <2>3 DEF Upto
    <3>2. CASE x = id
      BY <1>1, <1>8, <1>13, <2>1, <2>2, <3>1, <3>2 DEF Answer
    <3>3. CASE x # id
      BY <1>1, <1>13, <2>1, <2>2, <2>3, <3>3 DEF Inv, Complete
    <3> QED BY <3>2, <3>3
  <2>4. CASE n # 1
    <3>1. 1 \in DOMAIN rest /\ stack'[1].id = stack[1].id /\ stack' # <<>>
      BY <1>2, <1>4, <1>9, <2>4
    <3>2. values[x] = Unknown
      BY <1>2, <1>13, <2>1 DEF Inv, Sought
    <3> QED BY <1>1, <2>1, <2>2, <3>1, <3>2 DEF Inv, Complete
  <2> QED BY <2>3, <2>4
<1>17. Returned'
  BY <1>1 DEF Inv, Returned
<1> QED BY <1>1, <1>10, <1>11, <1>12, <1>14, <1>15, <1>16, <1>17 DEF Inv

LEMMA OtherSteps ==
  ASSUME Inv, Cancel \/ Return \/ UNCHANGED vars
  PROVE  Inv'
<1>1. UNCHANGED <<program, values, visiting, stack, todo>> /\ (cancelled => cancelled')
  BY DEF Cancel, Return, vars
<1>2. Calls(stack)'
  BY <1>1, CallsStay DEF Inv
<1>3. /\ \A x, v : Means(x, v)' <=> Means(x, v)
      /\ \A V, x : HasNone(V, x)' <=> HasNone(V, x)
  BY <1>1, MeaningStays
<1>4. Visited' /\ Sought' /\ Sound'
  BY <1>1, <1>3 DEF Inv, Visited, Sought, Sound
<1>5. Complete'
  BY <1>1, <1>3 DEF Inv, Complete
<1>6. TypeOK'
  BY <1>1 DEF Inv, TypeOK, Cancel, Return, vars
<1>7. Returned'
  BY <1>1 DEF Inv, Returned, Cancel, Return, vars, Running
<1> QED BY <1>1, <1>2, <1>4, <1>5, <1>6, <1>7 DEF Inv
----------------------------------------------------------------------------
(* The theorems.                                                           *)

\* The inductive invariant of the evaluation (constantEvaluator and the
\* closure value, constant.go).
THEOREM Invariance == Spec => []Inv
<1>1. Init => Inv
  BY Initially
<1>2. Inv /\ [Next]_vars => Inv'
  BY BeginStep, AskStep, FinishStep, OtherSteps DEF Next
<1> QED BY <1>1, <1>2, PTL DEF Spec

\* Calls are calls.
THEOREM TypesCorrect == Spec => []TypeOK
<1>1. Inv => TypeOK
  BY DEF Inv
<1> QED BY <1>1, Invariance, PTL

\* No constant is evaluated inside its own evaluation, whatever the program.
THEOREM RecursionIsBounded == Spec => []RecursionEnds
<1>1. Inv => RecursionEnds
  BY DEF Inv, Calls, Distinct, RecursionEnds
<1> QED BY <1>1, Invariance, PTL

\* When an evaluation comes upon a constant under evaluation, the check of the
\* order reports one of the uses on the way from that constant back to itself:
\* else each of them would come before the one that uses it, and the constant
\* before itself.
THEOREM CyclesReported == Spec => []CyclesAreReported
<1>1. Inv => CyclesAreReported
  <2> DEFINE n == Len(stack)
             Uses(j, id) == <<stack[j].id, IF j = n THEN id ELSE stack[j + 1].id>>
  <2>1. SUFFICES ASSUME Inv, stack # <<>>, NEW used \in Asked \cap visiting
                 PROVE  \E i \in DOMAIN stack :
                          stack[i].id = used /\ \E j \in i..n : Uses(j, used) \in OutOfOrder
    BY DEF CyclesAreReported
  <2>2. stack \in Seq(Frames) /\ n \in DOMAIN stack /\ DOMAIN stack = 1..n /\ n \in Nat
    BY <2>1 DEF Inv, Calls
  <2>3. PICK i \in 1..n : used = stack[i].id
    BY <2>1 DEF Inv, Visited, Upto
  <2>4. stack[i].id \in Ids /\ stack[n].id \in Ids
    BY <2>2, FrameType
  <2>5. SUFFICES ASSUME \A j \in i..n : Uses(j, used) \notin OutOfOrder PROVE FALSE
    BY <2>2, <2>3
  <2>6. <<stack[n].id, used>> \notin OutOfOrder
    <3>1. n \in i..n
      BY <2>2, SMT
    <3> QED BY <2>5, <3>1, Zenon
  <2>7. used < stack[n].id
    BY <2>1, <2>3, <2>4, <2>6, AskingDescends DEF Inv, Asked, Top
  <2>8. i = n \/ stack[n].id < stack[i].id
    <3>0. n \in Nat
      BY <2>2, Zenon
    <3>1. \A k \in i..n - 1 : k \in i..n /\ k # n
      BY <3>0
    <3>2. \A k \in i..n - 1 : <<stack[k].id, stack[k + 1].id>> \notin OutOfOrder
      BY <2>5, <3>1
    <3>3. Descending(stack)
      BY <2>1 DEF Inv, Calls
    <3>4. i = n \/ i < n
      BY <3>0
    <3> QED BY <2>2, <3>2, <3>3, <3>4 DEF Descending
  <2>9. \A x, y \in Ids : x < y => x # y /\ ~(y < x)
    BY CountAssumption DEF Ids
  <2> QED BY <2>3, <2>4, <2>7, <2>8, <2>9
<1> QED BY <1>1, Invariance, PTL

\* The values returned are those that the declarations give, every one of
\* them and no other, in whatever order the constants are evaluated
\* (ResolveConstants, constant.go:168).
THEOREM ValuesExact == Spec => []ValuesAreExact
<1>1. Inv => ValuesAreExact
  <2>1. SUFFICES ASSUME Inv, outcome = "values", NEW id \in Ids, NEW v \in Values
                 PROVE  values[id] = v <=> Means(id, v)
    BY DEF ValuesAreExact
  <2>2. values[id] = v => Means(id, v)
    BY <2>1 DEF Inv, Sound
  <2>3. ASSUME Means(id, v) PROVE values[id] = v
    <3>1. ~HasNone({}, id)
      BY <2>3, MeansIsDerivable DEF HasNone
    <3>2. stack = <<>> /\ todo = {} /\ ~cancelled
      BY <2>1 DEF Inv, Returned
    <3>3. values[id] # Unknown
      BY <2>1, <3>1, <3>2 DEF Inv, Complete
    <3>4. values[id] \in Values
      BY <2>1, <3>3 DEF Inv, TypeOK, Answers
    <3>5. Means(id, values[id])
      BY <2>1, <3>4 DEF Inv, Sound
    <3> QED BY <2>1, <2>3, <3>5, MeansOne DEF Inv, TypeOK
  <2> QED BY <2>2, <2>3
<1> QED BY <1>1, Invariance, PTL
=============================================================================
