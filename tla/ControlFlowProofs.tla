------------------------- MODULE ControlFlowProofs -------------------------
(***************************************************************************)
(* Proofs about ControlFlow.                                               *)
(*                                                                         *)
(* Of every statement n it is shown, from its parts, that it is built      *)
(* Right(n): its edges are steps, its exits lead to what comes after it,   *)
(* and whatever is executed in it, and is not cut off, has an edge for     *)
(* each of its steps, or leaves.  "Cut off" is what the builder drops:     *)
(* parts of a sequence behind dead code, and of a condition with a known   *)
(* value (Kept, Live).  What is executed is never cut off, and what is     *)
(* reachable is closed under the edges; with that the properties follow.   *)
(***************************************************************************)
EXTENDS ControlFlow, WellFoundedInduction, FiniteSetTheorems, TLAPS

\* The statement at n with everything in it.
Sub(n) == {m \in Nodes : m = n \/ n \in Around[m]}
Parts(n) == [m \in Children(n) |-> Built[m]]
Joined(n) == Sequence(n, Parts(n))

\* The way into m is not cut off where its parent puts it: by dead code
\* before it, or by a condition.
Kept(m) ==
  LET p == Parent(m)
  IN /\ Is(p, "block") => \/ Joined(p)[m - 1].entry = 0 \/ Joined(p)[m - 1].exits # {}
                          \/ Is(m, "label")
     /\ Is(p, "if") => May(p, IF m = Min(Children(p)) THEN "true" ELSE "false")
     /\ Is(p, "while") => May(p, "true")
\* Nothing between n and x is cut off.
Live(x, n) == \A m \in {x} \cup Around[x] : n \in Around[m] => Kept(m)

FragmentType ==
  [entry : Nat, exits : SUBSET Nodes, breaks : SUBSET Nodes, continues : SUBSET Nodes,
   edges : SUBSET (Nodes \X Nodes)]
\* A fragment is about the statement it was built from.
Typed(n) ==
  /\ Built[n] \in FragmentType
  /\ Built[n].exits \subseteq Sub(n) /\ Built[n].breaks \subseteq Sub(n)
  /\ Built[n].continues \subseteq Sub(n) /\ Built[n].edges \subseteq Sub(n) \X Sub(n)
\* Its entry is what the statement begins with, and that is not cut off.
Entered(n) ==
  LET entry == Built[n].entry
  IN /\ First[n] = {} => Built[n] = Nothing
     /\ First[n] # {} => /\ First[n] = {entry} /\ entry \in Sub(n)
                         /\ ~Is(entry, "block") /\ Live(entry, n)
\* Its edges are steps, and its exits go on to what comes after it.
Follows(n) ==
  /\ \A e \in Built[n].edges : e[2] \in Steps(e[1])
  /\ \A x \in Built[n].exits : After[n] \subseteq Steps(x)
\* Jumps out of it are not inside of a loop, or switch, that is in it.
Leaves(n) ==
  /\ \A x \in Built[n].breaks :
       Is(x, "break") /\ Inside(x, {"while", "do", "switch"}) \cap Sub(n) = {}
  /\ \A x \in Built[n].continues :
       Is(x, "continue") /\ Inside(x, {"while", "do"}) \cap Sub(n) = {}
\* Its edges lead from what is not cut off to what is not cut off.
Keeps(n) ==
  \A e \in Built[n].edges : Live(e[1], n) => ~Is(e[2], "block") /\ Live(e[2], n)
\* Each step of what is not cut off is there.
Goes(x, n) ==
  \A y \in Steps(x) : \/ <<x, y>> \in Built[n].edges \/ y = x
                      \/ x \in Built[n].exits /\ y \in After[n]
Covers(n) ==
  \A x \in Sub(n) : ~Is(x, "block") /\ Live(x, n) =>
    \/ Is(x, "goto") \/ x \in Built[n].breaks \/ x \in Built[n].continues \/ Goes(x, n)
Right(n) ==
  /\ Typed(n) /\ Entered(n) /\ Follows(n) /\ Leaves(n) /\ Keeps(n)
  /\ NoHollowBranch => Covers(n)

StatementType == [kind : STRING, parent : 0..MaxStatements, test : {"true", "false", "unknown"},
                  default : BOOLEAN, name : STRING]
\* Statements are parts of earlier ones, of as many as these have room for.
Shape ==
  /\ tree \in Seq(StatementType) /\ Len(tree) <= MaxStatements
  /\ \A n \in Nodes : Parent(n) \in 0..n - 1 /\ (Parent(n) = 0 <=> n = 1)
  /\ \A n \in Nodes : Cardinality(Children(n)) <= Branches(tree[n].kind)
----------------------------------------------------------------------------
(* Induction and sets of numbers.                                          *)

Less == {ss \in Nat \X Nat : ss[1] < ss[2]}

\* A set of numbers has a least one.
LEMMA Least ==
  ASSUME NEW T \in SUBSET Nat, T # {}
  PROVE  \E n \in T : \A m \in T : n <= m
<1>1. IsWellFoundedOn(Less, Nat)
  BY NatLessThanWellFounded DEF OpToRel, Less
<1>2. PICK n \in T : \A m \in T : <<m, n>> \notin Less
  BY <1>1, WFMin, Zenon
<1>3. ASSUME NEW m \in T PROVE n <= m
  <2>1. ~(m < n)
    BY <1>2 DEF Less
  <2> QED BY <2>1
<1> QED BY <1>2, <1>3

\* Induction, for a set.
LEMMA Induction ==
  ASSUME NEW S, 0 \in S, \A n \in Nat : n \in S => n + 1 \in S
  PROVE  Nat \subseteq S
<1> DEFINE T == Nat \ S
<1> SUFFICES ASSUME T # {} PROVE FALSE
  OBVIOUS
<1>1. PICK n \in T : \A m \in T : n <= m
  BY Least
<1> QED BY <1>1

\* A set of numbers has a least element, which Min is.
LEMMA MinOf ==
  ASSUME NEW T \in SUBSET Nat, T # {}
  PROVE  Min(T) \in T /\ \A m \in T : Min(T) <= m
BY Least DEF Min

\* A set of numbers with a bound has a greatest one.
LEMMA MaxOf ==
  ASSUME NEW n \in Nat, NEW T \in SUBSET (0..n), T # {}
  PROVE  Max(T) \in T /\ \A m \in T : m <= Max(T)
<1> DEFINE U == {n - m : m \in T}
<1>1. U \in SUBSET Nat /\ U # {}
  <2>1. \A m \in T : m \in Nat /\ n - m \in Nat
    OBVIOUS
  <2> QED BY <2>1
<1>2. PICK u \in U : \A v \in U : u <= v
  BY <1>1, Least
<1>3. PICK m \in T : u = n - m
  OBVIOUS
<1>4. ASSUME NEW k \in T PROVE k <= m
  <2>1. n - k \in U /\ n - m <= n - k
    BY <1>2, <1>3
  <2>2. k \in Nat /\ m \in Nat
    OBVIOUS
  <2> QED BY <2>1, <2>2
<1>5. \E x \in T : \A y \in T : x >= y
  BY <1>4
<1> QED BY <1>5 DEF Max

\* What Max and Min are is known if a candidate is.
LEMMA MaxIs ==
  ASSUME NEW T \in SUBSET Nat, NEW m \in T, \A k \in T : k <= m
  PROVE  Max(T) = m
<1>1. \E x \in T : \A k \in T : x >= k
  OBVIOUS
<1>2. Max(T) \in T /\ \A k \in T : Max(T) >= k
  BY <1>1 DEF Max
<1>3. Max(T) \in Nat /\ Max(T) >= m /\ Max(T) <= m /\ m \in Nat
  BY <1>2
<1> QED BY <1>3

\* And so for Min.
LEMMA MinIs ==
  ASSUME NEW T \in SUBSET Nat, NEW m \in T, \A k \in T : m <= k
  PROVE  Min(T) = m
<1>1. Min(T) \in T /\ \A k \in T : Min(T) <= k
  BY MinOf
<1>2. Min(T) \in Nat /\ Min(T) >= m /\ Min(T) <= m /\ m \in Nat
  BY <1>1
<1> QED BY <1>2
----------------------------------------------------------------------------
(* The recursive definitions say what they seem to say.                    *)

\* Statements are numbers, and parts have greater ones.
LEMMA NodesAre ==
  ASSUME Shape
  PROVE  /\ Len(tree) \in Nat /\ Nodes = 1..Len(tree) /\ Nodes \in SUBSET Nat
         /\ \A n \in Nodes : /\ Children(n) \in SUBSET Nodes
                             /\ \A m \in Children(n) : m > n /\ Parent(m) = n
         /\ \A n \in Nodes \ {1} : Parent(n) \in Nodes /\ n \in Children(Parent(n))
         /\ 1 \in Nodes => Parent(1) = 0
<1>1. Len(tree) \in Nat /\ Nodes = 1..Len(tree)
  BY DEF Shape, Nodes
<1>2. \A n \in Nodes : Parent(n) \in 0..n - 1 /\ (Parent(n) = 0 <=> n = 1)
  BY DEF Shape
<1>3. ASSUME NEW n \in Nodes
      PROVE  Children(n) \in SUBSET Nodes /\ \A m \in Children(n) : m > n /\ Parent(m) = n
  BY <1>1, <1>2 DEF Children
<1>4. ASSUME NEW n \in Nodes \ {1}
      PROVE  Parent(n) \in Nodes /\ n \in Children(Parent(n))
  BY <1>1, <1>2 DEF Children
<1> QED BY <1>1, <1>2, <1>3, <1>4

BuiltStep(n, parts) ==
  CASE Is(n, "block") -> Sequence(n, parts)[Len(tree)]
    [] Is(n, "if") -> Branch(n, parts)
    [] Is(n, "switch") -> Switch(n, parts)
    [] tree[n].kind \in {"while", "do"} -> Loop(n, parts[Min(Children(n))])
    [] tree[n].kind \in {"return", "goto"} -> Fragment(n, {}, {}, {}, {})
    [] Is(n, "break") -> Fragment(n, {}, {n}, {}, {})
    [] Is(n, "continue") -> Fragment(n, {}, {}, {n}, {})
    [] OTHER -> Fragment(n, {n}, {}, {}, {})

\* A statement is built from its parts.
LEMMA BuiltIs ==
  ASSUME Shape
  PROVE  \A n \in Nodes : Built[n] = BuiltStep(n, Parts(n))
<1> DEFINE N == Len(tree)
           Of(g, n) == [m \in Children(n) |-> g[m]]
           IsFor(g, k) == g = [n \in N - k + 1..N |-> BuiltStep(n, Of(g, n))]
           S == {k \in Nat : k <= N => \E g : IsFor(g, k)}
<1>1. N \in Nat /\ Nodes = 1..N
  BY NodesAre
<1>2. \A n \in Nodes : \A m \in Children(n) : m \in Nodes /\ m > n
  BY NodesAre
<1> HIDE DEF N
<1>3. 0 \in S
  <2>1. IsFor([n \in N - 0 + 1..N |-> {}], 0)
    <3>1. N - 0 + 1..N = {}
      BY <1>1
    <3> QED BY <3>1
  <2> HIDE DEF IsFor
  <2> QED BY <2>1
<1>4. ASSUME NEW k \in Nat, k \in S PROVE k + 1 \in S
  <2> SUFFICES ASSUME k + 1 <= N PROVE \E g : IsFor(g, k + 1)
    OBVIOUS
  <2> HIDE DEF IsFor
  <2>1. PICK g : IsFor(g, k)
    BY <1>1, <1>4
  <2> DEFINE p == N - k
             new == BuiltStep(p, Of(g, p))
             h == [n \in N - (k + 1) + 1..N |-> IF n = p THEN new ELSE g[n]]
  <2>2. ASSUME NEW n \in N - (k + 1) + 1..N PROVE h[n] = BuiltStep(n, Of(h, n))
    <3>1. n \in Nodes /\ (n # p => n \in N - k + 1..N)
      BY <1>1
    <3>2. ASSUME NEW m \in Children(n) PROVE h[m] = g[m]
      <4>1. m \in N - k + 1..N /\ m # p /\ m \in N - (k + 1) + 1..N
        BY <1>1, <1>2, <3>1
      <4> HIDE DEF new, p
      <4> QED BY <4>1
    <3>3. Of(h, n) = Of(g, n)
      <4> HIDE DEF h
      <4> QED BY <3>2
    <3>4. h[n] = BuiltStep(n, Of(g, n))
      <4>1. CASE n = p
        BY <4>1
      <4>2. CASE n # p
        <5>1. h[n] = g[n] /\ n \in N - k + 1..N
          <6> HIDE DEF new, p
          <6> QED BY <4>2, <3>1
        <5> HIDE DEF h, Of
        <5> QED BY <2>1, <5>1 DEF IsFor
      <4> QED BY <4>1, <4>2
    <3> HIDE DEF h, Of
    <3> QED BY <3>3, <3>4
  <2>3. IsFor(h, k + 1)
    <3>1. h = [n \in N - (k + 1) + 1..N |-> h[n]]
      <4> HIDE DEF new, p
      <4> QED OBVIOUS
    <3> HIDE DEF h, Of
    <3> QED BY <2>2, <3>1 DEF IsFor
  <2> QED BY <2>3
<1>5. \E g : IsFor(g, N)
  <2>1. N \in S
    <3> HIDE DEF S
    <3> QED BY <1>1, <1>3, <1>4, Induction
  <2> HIDE DEF IsFor
  <2> QED BY <1>1, <2>1
<1>6. Nodes = N - N + 1..N
  BY <1>1
<1>7. Built = CHOOSE g : g = [n \in Nodes |-> BuiltStep(n, Of(g, n))]
  BY DEF Built, BuiltStep
<1>8. Built = CHOOSE g : IsFor(g, N)
  BY <1>6, <1>7
<1>9. IsFor(Built, N)
  <2> HIDE DEF IsFor
  <2> QED BY <1>5, <1>8
<1>10. Built = [n \in Nodes |-> BuiltStep(n, Of(Built, n))]
  BY <1>6, <1>9
<1> QED BY <1>10 DEF Parts

FirstStep(n, f) ==
  LET beginning == {m \in Children(n) : f[m] # {}}
  IN IF ~Is(n, "block") THEN {n} ELSE IF beginning = {} THEN {} ELSE f[Min(beginning)]

\* What a statement begins with depends on its parts.
LEMMA FirstNear ==
  ASSUME NEW n, NEW f, NEW g, \A m \in Children(n) : f[m] = g[m], Children(n) \in SUBSET Nat
  PROVE  FirstStep(n, f) = FirstStep(n, g)
<1> DEFINE B == {m \in Children(n) : f[m] # {}}
<1>1. B = {m \in Children(n) : g[m] # {}}
  OBVIOUS
<1>2. B # {} => Min(B) \in Children(n)
  BY MinOf
<1>3. B # {} => f[Min(B)] = g[Min(B)]
  BY <1>2
<1> QED BY <1>1, <1>3 DEF FirstStep

\* And so do those.
LEMMA FirstIs ==
  ASSUME Shape
  PROVE  \A n \in Nodes : First[n] = FirstStep(n, First)
<1> DEFINE N == Len(tree)
           IsFor(g, k) == g = [n \in N - k + 1..N |-> FirstStep(n, g)]
           S == {k \in Nat : k <= N => \E g : IsFor(g, k)}
<1>1. N \in Nat /\ Nodes = 1..N
  BY NodesAre
<1>2. \A n \in Nodes : \A m \in Children(n) : m \in Nodes /\ m > n
  BY NodesAre
<1> HIDE DEF N
<1>3. 0 \in S
  <2>1. IsFor([n \in N - 0 + 1..N |-> {}], 0)
    <3>1. N - 0 + 1..N = {}
      BY <1>1
    <3> QED BY <3>1
  <2> HIDE DEF IsFor
  <2> QED BY <2>1
<1>4. ASSUME NEW k \in Nat, k \in S PROVE k + 1 \in S
  <2> SUFFICES ASSUME k + 1 <= N PROVE \E g : IsFor(g, k + 1)
    OBVIOUS
  <2> HIDE DEF IsFor
  <2>1. PICK g : IsFor(g, k)
    BY <1>1, <1>4
  <2> DEFINE p == N - k
             new == FirstStep(p, g)
             h == [n \in N - (k + 1) + 1..N |-> IF n = p THEN new ELSE g[n]]
  <2>2. ASSUME NEW n \in N - (k + 1) + 1..N PROVE h[n] = FirstStep(n, h)
    <3>1. n \in Nodes /\ (n # p => n \in N - k + 1..N)
      BY <1>1
    <3>2. ASSUME NEW m \in Children(n) PROVE h[m] = g[m]
      <4>1. m \in N - k + 1..N /\ m # p /\ m \in N - (k + 1) + 1..N
        BY <1>1, <1>2, <3>1
      <4> HIDE DEF new, p
      <4> QED BY <4>1
    <3>3. FirstStep(n, h) = FirstStep(n, g)
      <4> HIDE DEF h
      <4> QED BY <1>2, <3>1, <3>2, FirstNear, NodesAre
    <3>4. h[n] = FirstStep(n, g)
      <4>1. CASE n = p
        BY <4>1
      <4>2. CASE n # p
        <5>1. h[n] = g[n] /\ n \in N - k + 1..N
          <6> HIDE DEF new, p
          <6> QED BY <4>2, <3>1
        <5> HIDE DEF h
        <5> QED BY <2>1, <5>1 DEF IsFor
      <4> QED BY <4>1, <4>2
    <3> HIDE DEF h
    <3> QED BY <3>3, <3>4
  <2>3. IsFor(h, k + 1)
    <3>1. h = [n \in N - (k + 1) + 1..N |-> h[n]]
      <4> HIDE DEF new, p
      <4> QED OBVIOUS
    <3> HIDE DEF h
    <3> QED BY <2>2, <3>1 DEF IsFor
  <2> QED BY <2>3
<1>5. \E g : IsFor(g, N)
  <2>1. N \in S
    <3> HIDE DEF S
    <3> QED BY <1>1, <1>3, <1>4, Induction
  <2> HIDE DEF IsFor
  <2> QED BY <1>1, <2>1
<1>6. Nodes = N - N + 1..N
  BY <1>1
<1>7. First = CHOOSE g : g = [n \in Nodes |-> FirstStep(n, g)]
  BY DEF First, FirstStep
<1>8. First = CHOOSE g : IsFor(g, N)
  BY <1>6, <1>7
<1>9. IsFor(First, N)
  <2> HIDE DEF IsFor
  <2> QED BY <1>5, <1>8
<1>10. First = [n \in Nodes |-> FirstStep(n, First)]
  BY <1>6, <1>9
<1> QED BY <1>10

AroundStep(n, f) == IF Parent(n) = 0 THEN {} ELSE {Parent(n)} \cup f[Parent(n)]

\* What is around a statement is its parent and what is around that.
LEMMA AroundIs ==
  ASSUME Shape
  PROVE  \A n \in Nodes : Around[n] = AroundStep(n, Around)
<1> DEFINE Top == Len(tree)
           IsFor(g, k) == g = [n \in 1..k |-> AroundStep(n, g)]
           S == {k \in Nat : k <= Top => \E g : IsFor(g, k)}
<1>1. Top \in Nat /\ Nodes = 1..Top
  BY NodesAre
<1>2. \A n \in Nodes : Parent(n) \in 0..n - 1
  BY DEF Shape
<1> HIDE DEF Top
<1>3. 0 \in S
  <2>1. IsFor([n \in 1..0 |-> {}], 0)
    OBVIOUS
  <2> HIDE DEF IsFor
  <2> QED BY <2>1
<1>4. ASSUME NEW k \in Nat, k \in S PROVE k + 1 \in S
  <2> SUFFICES ASSUME k + 1 <= Top PROVE \E g : IsFor(g, k + 1)
    OBVIOUS
  <2> HIDE DEF IsFor
  <2>1. PICK g : IsFor(g, k)
    BY <1>1, <1>4
  <2> DEFINE new == AroundStep(k + 1, g)
             h == [n \in 1..k + 1 |-> IF n = k + 1 THEN new ELSE g[n]]
  <2>2. ASSUME NEW n \in 1..k + 1 PROVE h[n] = AroundStep(n, h)
    <3>1. n \in Nodes /\ (n # k + 1 => n \in 1..k)
      BY <1>1
    <3>2. Parent(n) # 0 => h[Parent(n)] = g[Parent(n)]
      <4>1. Parent(n) # 0 => Parent(n) \in 1..k /\ Parent(n) # k + 1 /\ Parent(n) \in 1..k + 1
        BY <1>2, <3>1
      <4> HIDE DEF new
      <4> QED BY <4>1
    <3>3. AroundStep(n, h) = AroundStep(n, g)
      <4> HIDE DEF h
      <4> QED BY <3>2 DEF AroundStep
    <3>4. h[n] = AroundStep(n, g)
      <4>1. CASE n = k + 1
        BY <4>1
      <4>2. CASE n # k + 1
        <5>1. h[n] = g[n] /\ n \in 1..k
          <6> HIDE DEF new
          <6> QED BY <4>2, <3>1
        <5> HIDE DEF h
        <5> QED BY <2>1, <5>1 DEF IsFor
      <4> QED BY <4>1, <4>2
    <3> HIDE DEF h
    <3> QED BY <3>3, <3>4
  <2>3. IsFor(h, k + 1)
    <3>1. h = [n \in 1..k + 1 |-> h[n]]
      <4> HIDE DEF new
      <4> QED OBVIOUS
    <3> HIDE DEF h
    <3> QED BY <2>2, <3>1 DEF IsFor
  <2> QED BY <2>3
<1>5. \E g : IsFor(g, Top)
  <2>1. Top \in S
    <3> HIDE DEF S
    <3> QED BY <1>1, <1>3, <1>4, Induction
  <2> HIDE DEF IsFor
  <2> QED BY <1>1, <2>1
<1>6. Around = CHOOSE g : g = [n \in Nodes |-> AroundStep(n, g)]
  BY DEF Around, AroundStep
<1>7. Around = CHOOSE g : IsFor(g, Top)
  BY <1>1, <1>6
<1>8. IsFor(Around, Top)
  <2> HIDE DEF IsFor
  <2> QED BY <1>5, <1>7
<1>9. Around = [n \in Nodes |-> AroundStep(n, Around)]
  BY <1>1, <1>8
<1> QED BY <1>9

\* Where execution goes after n, if it is `behind' that it goes after its parent.
AfterIn(n, behind) ==
  LET p == Parent(n)
      following == {m \in Children(p) : m > n /\ First[m] # {}}
  IN CASE Is(p, "block") -> IF following = {} THEN behind ELSE First[Min(following)]
       [] Is(p, "while") -> {p}
       [] Is(p, "do") -> (IF May(p, "true") THEN {p} ELSE {})
                           \cup (IF May(p, "false") THEN behind ELSE {})
       [] OTHER -> behind
AfterStep(n, f) == IF Parent(n) = 0 THEN {End} ELSE AfterIn(n, f[Parent(n)])

\* Execution goes on behind the parent, if not within it.
LEMMA AfterIs ==
  ASSUME Shape
  PROVE  \A n \in Nodes : After[n] = AfterStep(n, After)
<1> DEFINE Top == Len(tree)
           IsFor(g, k) == g = [n \in 1..k |-> AfterStep(n, g)]
           S == {k \in Nat : k <= Top => \E g : IsFor(g, k)}
<1>1. Top \in Nat /\ Nodes = 1..Top
  BY NodesAre
<1>2. \A n \in Nodes : Parent(n) \in 0..n - 1
  BY DEF Shape
<1> HIDE DEF Top
<1>3. 0 \in S
  <2>1. IsFor([n \in 1..0 |-> {}], 0)
    OBVIOUS
  <2> HIDE DEF IsFor
  <2> QED BY <2>1
<1>4. ASSUME NEW k \in Nat, k \in S PROVE k + 1 \in S
  <2> SUFFICES ASSUME k + 1 <= Top PROVE \E g : IsFor(g, k + 1)
    OBVIOUS
  <2> HIDE DEF IsFor
  <2>1. PICK g : IsFor(g, k)
    BY <1>1, <1>4
  <2> DEFINE new == AfterStep(k + 1, g)
             h == [n \in 1..k + 1 |-> IF n = k + 1 THEN new ELSE g[n]]
  <2>2. ASSUME NEW n \in 1..k + 1 PROVE h[n] = AfterStep(n, h)
    <3>1. n \in Nodes /\ (n # k + 1 => n \in 1..k)
      BY <1>1
    <3>2. Parent(n) # 0 => h[Parent(n)] = g[Parent(n)]
      <4>1. Parent(n) # 0 => Parent(n) \in 1..k /\ Parent(n) # k + 1 /\ Parent(n) \in 1..k + 1
        BY <1>2, <3>1
      <4> HIDE DEF new
      <4> QED BY <4>1
    <3>3. AfterStep(n, h) = AfterStep(n, g)
      <4> HIDE DEF h
      <4> QED BY <3>2 DEF AfterStep
    <3>4. h[n] = AfterStep(n, g)
      <4>1. CASE n = k + 1
        BY <4>1
      <4>2. CASE n # k + 1
        <5>1. h[n] = g[n] /\ n \in 1..k
          <6> HIDE DEF new
          <6> QED BY <4>2, <3>1
        <5> HIDE DEF h
        <5> QED BY <2>1, <5>1 DEF IsFor
      <4> QED BY <4>1, <4>2
    <3> HIDE DEF h
    <3> QED BY <3>3, <3>4
  <2>3. IsFor(h, k + 1)
    <3>1. h = [n \in 1..k + 1 |-> h[n]]
      <4> HIDE DEF new
      <4> QED OBVIOUS
    <3> HIDE DEF h
    <3> QED BY <2>2, <3>1 DEF IsFor
  <2> QED BY <2>3
<1>5. \E g : IsFor(g, Top)
  <2>1. Top \in S
    <3> HIDE DEF S
    <3> QED BY <1>1, <1>3, <1>4, Induction
  <2> HIDE DEF IsFor
  <2> QED BY <1>1, <2>1
<1>6. After = CHOOSE g : g = [n \in Nodes |-> AfterStep(n, g)]
  BY DEF After, AfterStep, AfterIn
<1>7. After = CHOOSE g : IsFor(g, Top)
  BY <1>1, <1>6
<1>8. IsFor(After, Top)
  <2> HIDE DEF IsFor
  <2> QED BY <1>5, <1>7
<1>9. After = [n \in Nodes |-> AfterStep(n, After)]
  BY <1>1, <1>8
<1> QED BY <1>9

JoinedStep(n, parts, f, i) ==
  IF i = n THEN Nothing
  ELSE IF Parent(i) # n THEN f[i - 1]
  ELSE Then(f[i - 1], parts[i], Is(i, "label"))

\* A sequence is joined part by part.
LEMMA SequenceIs ==
  ASSUME Len(tree) \in Nat, NEW n \in 1..Len(tree), NEW parts
  PROVE  \A i \in n..Len(tree) :
           Sequence(n, parts)[i] = JoinedStep(n, parts, Sequence(n, parts), i)
<1> DEFINE Top == Len(tree) - n
           IsFor(g, k) == g = [i \in n..n + k |-> JoinedStep(n, parts, g, i)]
           S == {k \in Nat : \E g : IsFor(g, k)}
<1>1. Top \in Nat /\ n + Top = Len(tree) /\ n \in Nat
  OBVIOUS
<1> HIDE DEF Top
<1>3. 0 \in S
  <2> DEFINE first == [i \in n..n + 0 |-> Nothing]
  <2>1. \A i \in n..n + 0 : i = n /\ JoinedStep(n, parts, first, i) = Nothing
    BY <1>1 DEF JoinedStep
  <2>2. IsFor(first, 0)
    BY <2>1
  <2> HIDE DEF IsFor
  <2> QED BY <2>2
<1>4. ASSUME NEW k \in Nat, k \in S PROVE k + 1 \in S
  <2> HIDE DEF IsFor
  <2>1. PICK g : IsFor(g, k)
    BY <1>4
  <2> DEFINE p == n + (k + 1)
             new == JoinedStep(n, parts, g, p)
             h == [i \in n..p |-> IF i = p THEN new ELSE g[i]]
  <2>2. ASSUME NEW i \in n..p PROVE h[i] = JoinedStep(n, parts, h, i)
    <3>1. p \in Int /\ (i # p => i \in n..n + k)
      BY <1>1
    <3>2. i # n => h[i - 1] = g[i - 1]
      <4>1. i # n => i - 1 \in n..p /\ i - 1 # p
        BY <1>1
      <4> HIDE DEF new, p
      <4> QED BY <4>1
    <3>3. JoinedStep(n, parts, h, i) = JoinedStep(n, parts, g, i)
      <4> HIDE DEF h
      <4> QED BY <3>2 DEF JoinedStep
    <3>4. h[i] = JoinedStep(n, parts, g, i)
      <4>1. CASE i = p
        BY <4>1
      <4>2. CASE i # p
        <5>1. h[i] = g[i] /\ i \in n..n + k
          <6> HIDE DEF new, p
          <6> QED BY <4>2, <3>1
        <5> HIDE DEF h
        <5> QED BY <2>1, <5>1 DEF IsFor
      <4> QED BY <4>1, <4>2
    <3> HIDE DEF h
    <3> QED BY <3>3, <3>4
  <2>3. IsFor(h, k + 1)
    <3>1. h = [i \in n..p |-> h[i]]
      <4> HIDE DEF new, p
      <4> QED OBVIOUS
    <3> HIDE DEF h
    <3> QED BY <2>2, <3>1 DEF IsFor
  <2> QED BY <2>3
<1>5. \E g : IsFor(g, Top)
  <2>1. Top \in S
    <3> HIDE DEF S
    <3> QED BY <1>1, <1>3, <1>4, Induction
  <2> QED BY <2>1
<1>6. Sequence(n, parts) = CHOOSE g : g = [i \in n..Len(tree) |-> JoinedStep(n, parts, g, i)]
  BY DEF Sequence, JoinedStep
<1>7. Sequence(n, parts) = CHOOSE g : IsFor(g, Top)
  BY <1>1, <1>6
<1>8. IsFor(Sequence(n, parts), Top)
  <2> HIDE DEF IsFor
  <2> QED BY <1>5, <1>7
<1> DEFINE s == Sequence(n, parts)
<1>9. s = [i \in n..Len(tree) |-> JoinedStep(n, parts, s, i)]
  BY <1>1, <1>8
<1> HIDE DEF s
<1>10. \A i \in n..Len(tree) : s[i] = JoinedStep(n, parts, s, i)
  BY <1>9
<1> QED BY <1>10 DEF s

\* The parts of n are joined in the order of the text.
LEMMA JoinedIs ==
  ASSUME Shape, NEW n \in Nodes
  PROVE  /\ Joined(n)[n] = Nothing
         /\ \A i \in n + 1..Len(tree) :
              Joined(n)[i] = IF i \in Children(n)
                             THEN Then(Joined(n)[i - 1], Built[i], Is(i, "label"))
                             ELSE Joined(n)[i - 1]
<1>1. Len(tree) \in Nat /\ Nodes = 1..Len(tree)
  BY NodesAre
<1>2. \A i \in n..Len(tree) : Joined(n)[i] = JoinedStep(n, Parts(n), Joined(n), i)
  BY <1>1, SequenceIs DEF Joined
<1>3. Joined(n)[n] = Nothing
  <2>1. n \in n..Len(tree)
    BY <1>1
  <2> QED BY <1>2, <2>1 DEF JoinedStep
<1>4. ASSUME NEW i \in n + 1..Len(tree)
      PROVE  Joined(n)[i] = IF i \in Children(n)
                            THEN Then(Joined(n)[i - 1], Built[i], Is(i, "label"))
                            ELSE Joined(n)[i - 1]
  <2>1. i \in n..Len(tree) /\ i # n /\ i \in Nodes
    BY <1>1
  <2>2. i \in Children(n) => Parts(n)[i] = Built[i]
    BY DEF Parts
  <2>3. i \in Children(n) <=> Parent(i) = n
    BY <2>1 DEF Children
  <2> QED BY <1>2, <2>1, <2>2, <2>3 DEF JoinedStep
<1> QED BY <1>3, <1>4
----------------------------------------------------------------------------
(* Trees.                                                                  *)

\* What holds of a statement if it holds of its parent holds of all.
LEMMA UpInduction ==
  ASSUME Shape, NEW S, \A n \in Nodes : (n # 1 => Parent(n) \in S) => n \in S
  PROVE  Nodes \subseteq S
<1> SUFFICES ASSUME Nodes \ S # {} PROVE FALSE
  OBVIOUS
<1>1. Nodes \ S \in SUBSET Nat
  BY NodesAre
<1>2. PICK n \in Nodes \ S : \A m \in Nodes \ S : n <= m
  BY <1>1, Least
<1>3. n # 1 => Parent(n) \in Nodes /\ Parent(n) < n /\ Parent(n) \in Nat /\ n \in Nat
  BY NodesAre DEF Shape
<1> QED BY <1>2, <1>3

\* And so does what holds of it if it holds of its parts.
LEMMA DownInduction ==
  ASSUME Shape, NEW S, \A n \in Nodes : Children(n) \subseteq S => n \in S
  PROVE  Nodes \subseteq S
<1> DEFINE T == Nodes \ S
<1> SUFFICES ASSUME T # {} PROVE FALSE
  OBVIOUS
<1>1. Len(tree) \in Nat /\ T \in SUBSET (0..Len(tree))
  BY NodesAre
<1>2. Max(T) \in T /\ \A m \in T : m <= Max(T)
  BY <1>1, MaxOf
<1>3. Children(Max(T)) \subseteq Nodes /\ \A m \in Children(Max(T)) : m > Max(T)
  BY <1>2, NodesAre
<1>4. \A m \in Children(Max(T)) : m \in S
  <2>1. \A m \in Nodes : m \in Nat
    BY NodesAre
  <2> SUFFICES ASSUME NEW m \in Children(Max(T)), m \in T PROVE FALSE
    BY <1>3
  <2>2. m <= Max(T) /\ m > Max(T) /\ m \in Nat /\ Max(T) \in Nat
    BY <1>2, <1>3, <2>1
  <2> QED BY <2>2
<1> QED BY <1>2, <1>4

\* What is around the root, and around a part.
LEMMA AroundPart ==
  ASSUME Shape
  PROVE  /\ 1 \in Nodes => Around[1] = {}
         /\ \A n \in Nodes : \A c \in Children(n) : Around[c] = {n} \cup Around[n]
<1>1. 1 \in Nodes => Around[1] = {}
  BY AroundIs, NodesAre DEF AroundStep
<1>2. ASSUME NEW n \in Nodes, NEW c \in Children(n)
      PROVE  Around[c] = {n} \cup Around[n]
  <2>1. c \in Nodes /\ Parent(c) = n /\ n # 0
    BY NodesAre
  <2> QED BY <2>1, AroundIs DEF AroundStep
<1> QED BY <1>1, <1>2

LEMMA AroundParent ==
  ASSUME Shape, NEW n \in Nodes, n # 1
  PROVE  Parent(n) \in Nodes /\ Around[n] = {Parent(n)} \cup Around[Parent(n)]
BY AroundPart, NodesAre

\* Statements around another one come before it.
LEMMA AroundBefore ==
  ASSUME Shape
  PROVE  \A n \in Nodes : \A m \in Around[n] : m \in Nodes /\ m < n
<1> DEFINE S == {n \in Nodes : \A m \in Around[n] : m \in Nodes /\ m < n}
<1>1. ASSUME NEW n \in Nodes, n # 1 => Parent(n) \in S
      PROVE  n \in S
  <2>1. CASE n = 1
    BY <2>1, AroundPart
  <2>2. CASE n # 1
    <3>1. Parent(n) \in Nodes /\ Parent(n) < n /\ n \in Nat
      BY <2>2, NodesAre
    <3>2. ASSUME NEW m \in Around[n] PROVE m \in Nodes /\ m < n
      <4>1. m = Parent(n) \/ m \in Around[Parent(n)]
        BY <2>2, AroundParent
      <4>2. m = Parent(n) \/ (m \in Nodes /\ m < Parent(n))
        BY <1>1, <2>2, <4>1
      <4>3. Parent(n) \in Nat /\ (m \in Nodes => m \in Nat)
        BY <3>1, NodesAre
      <4>4. CASE m = Parent(n)
        BY <3>1, <4>4
      <4>5. CASE m \in Nodes /\ m < Parent(n)
        BY <3>1, <4>3, <4>5
      <4> QED BY <4>2, <4>4, <4>5
    <3> QED BY <3>2
  <2> QED BY <2>1, <2>2
<1>2. Nodes \subseteq S
  <2> HIDE DEF S
  <2> QED BY <1>1, UpInduction
<1> QED BY <1>2

\* What is around something around a statement is around the statement.
LEMMA AroundTransitive ==
  ASSUME Shape
  PROVE  \A n \in Nodes : \A m \in Around[n] : Around[m] \subseteq Around[n]
<1> DEFINE S == {n \in Nodes : \A m \in Around[n] : Around[m] \subseteq Around[n]}
<1>1. ASSUME NEW n \in Nodes, n # 1 => Parent(n) \in S
      PROVE  n \in S
  <2>1. CASE n = 1
    BY <2>1, AroundPart
  <2>2. CASE n # 1
    BY <1>1, <2>2, AroundParent
  <2> QED BY <2>1, <2>2
<1>2. Nodes \subseteq S
  <2> HIDE DEF S
  <2> QED BY <1>1, UpInduction
<1> QED BY <1>2

\* Of two statements around another one the earlier is around the later.
LEMMA AroundChain ==
  ASSUME Shape
  PROVE  \A n \in Nodes : \A m, k \in Around[n] : k < m => k \in Around[m]
<1> DEFINE S == {n \in Nodes : \A m, k \in Around[n] : k < m => k \in Around[m]}
<1>1. ASSUME NEW n \in Nodes, n # 1 => Parent(n) \in S
      PROVE  n \in S
  <2>1. CASE n = 1
    BY <2>1, AroundPart
  <2>2. CASE n # 1
    <3>1. Around[n] = {Parent(n)} \cup Around[Parent(n)] /\ Parent(n) \in Nodes
      BY <2>2, AroundParent
    <3>2. ASSUME NEW m \in Around[n], NEW k \in Around[n], k < m
          PROVE  k \in Around[m]
      <4>1. CASE k = Parent(n)
        <5>1. m \in Around[Parent(n)] /\ m \in Nat /\ Parent(n) \in Nat
          BY <3>1, <3>2, <4>1, AroundBefore, NodesAre
        <5>2. m < Parent(n)
          BY <3>1, <5>1, AroundBefore
        <5> QED BY <3>2, <4>1, <5>1, <5>2
      <4>2. CASE k # Parent(n)
        BY <1>1, <2>2, <3>1, <3>2, <4>2
      <4> QED BY <4>1, <4>2
    <3> QED BY <3>2
  <2> QED BY <2>1, <2>2
<1>2. Nodes \subseteq S
  <2> HIDE DEF S
  <2> QED BY <1>1, UpInduction
<1> QED BY <1>2

\* A statement and what is in its parts is in it, and nothing else.
LEMMA SubIs ==
  ASSUME Shape, NEW n \in Nodes
  PROVE  /\ n \in Sub(n) /\ Sub(n) \subseteq Nodes
         /\ \A c \in Children(n) : Sub(c) \subseteq Sub(n)
         /\ \A x \in Sub(n) : x = n \/ \E c \in Children(n) : x \in Sub(c)
<1>1. n \in Sub(n) /\ Sub(n) \subseteq Nodes
  BY DEF Sub
<1>2. ASSUME NEW c \in Children(n) PROVE Sub(c) \subseteq Sub(n)
  <2>1. c \in Nodes /\ n \in Around[c]
    BY AroundPart, NodesAre
  <2> QED BY <2>1, AroundTransitive DEF Sub
<1> DEFINE S == {x \in Nodes : x \in Sub(n) => x = n \/ \E c \in Children(n) : x \in Sub(c)}
<1>3. ASSUME NEW x \in Nodes, x # 1 => Parent(x) \in S
      PROVE  x \in S
  <2> SUFFICES ASSUME x \in Sub(n), x # n PROVE \E c \in Children(n) : x \in Sub(c)
    OBVIOUS
  <2>1. n \in Around[x]
    BY DEF Sub
  <2>2. x # 1
    BY <2>1, AroundPart
  <2>3. Around[x] = {Parent(x)} \cup Around[Parent(x)] /\ Parent(x) \in Nodes
    BY <2>2, AroundParent
  <2>4. CASE Parent(x) = n
    <3>1. x \in Children(n) /\ x \in Sub(x)
      BY <2>4 DEF Children, Sub
    <3> QED BY <3>1
  <2>5. CASE Parent(x) # n
    <3>1. Parent(x) \in Sub(n)
      BY <2>1, <2>3, <2>5 DEF Sub
    <3>2. PICK c \in Children(n) : Parent(x) \in Sub(c)
      BY <1>3, <2>2, <2>5, <3>1
    <3>3. x \in Sub(c)
      BY <2>3, <3>2 DEF Sub
    <3> QED BY <3>3
  <2> QED BY <2>4, <2>5
<1>4. Nodes \subseteq S
  <2> HIDE DEF S
  <2> QED BY <1>3, UpInduction
<1> QED BY <1>1, <1>2, <1>4

\* What is around a statement in c is in c, too, or around c.
LEMMA AroundSplit ==
  ASSUME Shape, NEW c \in Nodes, NEW x \in Sub(c), NEW m \in Around[x]
  PROVE  m \in Sub(c) \/ m \in Around[c]
<1>1. x \in Nodes /\ (x = c \/ c \in Around[x])
  BY DEF Sub
<1>2. m \in Nodes /\ m \in Nat /\ c \in Nat
  BY <1>1, AroundBefore, NodesAre
<1>3. CASE x = c
  BY <1>3
<1>4. CASE c \in Around[x] /\ m < c
  BY <1>1, <1>4, AroundChain
<1>5. CASE c \in Around[x] /\ c < m
  <2>1. c \in Around[m]
    BY <1>1, <1>5, AroundChain
  <2> QED BY <1>2, <2>1 DEF Sub
<1>6. CASE c = m
  BY <1>2, <1>6 DEF Sub
<1> QED BY <1>1, <1>2, <1>3, <1>4, <1>5, <1>6

\* Between n and n nothing is cut off; between n and what is in its part c,
\* nothing is if c is kept and nothing is between c and that.
LEMMA LiveIn ==
  ASSUME Shape, NEW n \in Nodes
  PROVE  /\ Live(n, n)
         /\ \A c \in Children(n) : \A x \in Sub(c) : Live(x, n) <=> Kept(c) /\ Live(x, c)
<1>0. n \in Nat
  BY NodesAre
<1>1. Live(n, n)
  <2> SUFFICES ASSUME NEW m \in {n} \cup Around[n], n \in Around[m] PROVE FALSE
    BY DEF Live
  <2>1. m \in Nodes /\ m \in Nat /\ m <= n
    BY <1>0, AroundBefore, NodesAre
  <2>2. n < m
    BY <2>1, AroundBefore
  <2> QED BY <1>0, <2>1, <2>2
<1>2. ASSUME NEW c \in Children(n), NEW x \in Sub(c)
      PROVE  Live(x, n) <=> Kept(c) /\ Live(x, c)
  <2>1. c \in Nodes /\ Around[c] = {n} \cup Around[n] /\ x \in Nodes
    BY AroundPart, NodesAre DEF Sub
  <2>2. ASSUME Live(x, n) PROVE Kept(c) /\ Live(x, c)
    <3>1. c \in {x} \cup Around[x] /\ n \in Around[c]
      BY <2>1 DEF Sub
    <3>2. ASSUME NEW m \in {x} \cup Around[x], c \in Around[m] PROVE Kept(m)
      <4>1. m \in Nodes
        BY <2>1, AroundBefore
      <4>2. n \in Around[m]
        BY <2>1, <3>2, <4>1, AroundTransitive
      <4> QED BY <2>2, <4>2 DEF Live
    <3> QED BY <2>2, <3>1, <3>2 DEF Live
  <2>3. ASSUME Kept(c), Live(x, c) PROVE Live(x, n)
    <3> SUFFICES ASSUME NEW m \in {x} \cup Around[x], n \in Around[m] PROVE Kept(m)
      BY DEF Live
    <3>1. m \in Nodes /\ n < m /\ m \in Nat
      BY <2>1, AroundBefore, NodesAre
    <3>2. m \in Sub(c) \/ m \in Around[c]
      BY <2>1, AroundSplit
    <3>3. m \notin Around[c]
      <4>1. m \in Around[n] => m < n
        BY AroundBefore
      <4> QED BY <1>0, <2>1, <3>1, <4>1
    <3>4. m = c \/ c \in Around[m]
      BY <3>2, <3>3 DEF Sub
    <3> QED BY <2>3, <3>4 DEF Live
  <2> QED BY <2>2, <2>3
<1> QED BY <1>1, <1>2

\* The innermost statement of these kinds around x is n, if there is none
\* around it in its part c and n is of one of them.
LEMMA InsideIs ==
  ASSUME Shape, NEW n \in Nodes, NEW c \in Children(n), NEW x \in Sub(c), NEW K,
         Inside(x, K) \cap Sub(c) = {}
  PROVE  /\ tree[n].kind \in K => Inside(x, K) # {} /\ Max(Inside(x, K)) = n
         /\ tree[n].kind \notin K => Inside(x, K) \cap Sub(n) = {}
<1>1. c \in Nodes /\ Around[c] = {n} \cup Around[n] /\ x \in Nodes
  BY AroundPart, NodesAre DEF Sub
<1>2. n \in Around[x]
  BY <1>1, AroundTransitive DEF Sub
<1>3. \A m \in Inside(x, K) : m \in Around[x] /\ (m = n \/ m \in Around[n])
  BY <1>1, AroundSplit DEF Inside
<1>4. \A m \in Inside(x, K) : m \in Nat /\ m <= n /\ n \in Nat
  BY <1>3, AroundBefore, NodesAre
<1>5. ASSUME tree[n].kind \in K
      PROVE  Inside(x, K) # {} /\ Max(Inside(x, K)) = n
  <2>1. n \in Inside(x, K)
    BY <1>2, <1>5 DEF Inside
  <2> QED BY <1>4, <2>1, MaxIs
<1>6. ASSUME tree[n].kind \notin K, NEW m \in Inside(x, K), m \in Sub(n)
      PROVE  FALSE
  <2>1. m # n
    BY <1>6 DEF Inside
  <2>2. m \in Around[n] /\ m \in Nodes
    BY <1>3, <1>6, <2>1 DEF Sub
  <2>3. m < n /\ n \in Around[m]
    BY <1>6, <2>1, <2>2, AroundBefore DEF Sub
  <2>4. n < m
    BY <2>2, <2>3, AroundBefore
  <2> QED BY <1>4, <1>6, <2>3, <2>4
<1> QED BY <1>5, <1>6
----------------------------------------------------------------------------
(* Sequences.                                                              *)

\* The parts of n up to i that there is anything in.
Begun(n, i) == {c \in Children(n) : c <= i /\ First[c] # {}}
\* What leads from the parts before c to c.
Linked(n, c) == IF Joined(n)[c - 1].entry = 0 THEN {}
                ELSE Link(Joined(n)[c - 1].exits, Built[c].entry)
EndsRight(n, i, b) ==
  \E first, last \in Begun(n, i) :
    /\ \A c \in Begun(n, i) : first <= c /\ c <= last
    /\ b.entry = Built[first].entry
    /\ b.exits \subseteq Built[last].exits /\ (Kept(last) => b.exits = Built[last].exits)
JoinedRight(n, i, b) ==
  /\ b \in FragmentType
  /\ Begun(n, i) = {} => b = Nothing
  /\ Begun(n, i) # {} => EndsRight(n, i, b)
  /\ \A c \in Begun(n, i) : Built[c].edges \cup Linked(n, c) \subseteq b.edges
  /\ \A e \in b.edges : \E c \in Begun(n, i) : e \in Built[c].edges \cup Linked(n, c)
  /\ b.breaks = UNION {Built[c].breaks : c \in Begun(n, i)}
  /\ b.continues = UNION {Built[c].continues : c \in Begun(n, i)}

\* A fragment with an entry is not that of nothing.
LEMMA EntryIs ==
  ASSUME Shape, NEW n \in Nodes, Typed(n), Entered(n)
  PROVE  /\ Built[n] \in FragmentType
         /\ First[n] = {} => Built[n] = Nothing /\ Built[n].entry = 0
         /\ First[n] # {} => /\ Built[n].entry # 0 /\ First[n] = {Built[n].entry}
                             /\ Built[n].entry \in Nodes
<1>1. Sub(n) \subseteq Nodes /\ 0 \notin Nodes
  BY SubIs, NodesAre
<1> QED BY <1>1 DEF Typed, Entered, Nothing, Fragment

\* The parts up to i + 1 are those up to i and, maybe, i + 1.
LEMMA BegunNext ==
  ASSUME Shape, NEW n \in Nodes, NEW i \in Nat
  PROVE  /\ i + 1 \in Children(n) /\ First[i + 1] # {} => Begun(n, i + 1) = Begun(n, i) \cup {i + 1}
         /\ ~(i + 1 \in Children(n) /\ First[i + 1] # {}) => Begun(n, i + 1) = Begun(n, i)
<1>1. \A c \in Children(n) : c \in Nat
  BY NodesAre
<1>2. \A c \in Children(n) : c <= i + 1 <=> c <= i \/ c = i + 1
  BY <1>1
<1>3. i + 1 <= i + 1
  OBVIOUS
<1> QED BY <1>2, <1>3 DEF Begun

\* One part more, after nothing.
LEMMA JoinedFirst ==
  ASSUME Shape, NEW n \in Nodes, NEW i \in Nat, Begun(n, i) = {},
         i + 1 \in Children(n), First[i + 1] # {}, Typed(i + 1), Entered(i + 1),
         Joined(n)[i].entry = 0
  PROVE  JoinedRight(n, i + 1, Built[i + 1])
<1> DEFINE d == i + 1
<1>1. Begun(n, d) = {d} /\ d \in Nodes /\ d - 1 = i /\ d <= d
  <2>1. Begun(n, d) = {d}
    BY BegunNext
  <2>2. d \in Nodes
    BY NodesAre
  <2>3. d - 1 = i /\ d <= d
    OBVIOUS
  <2> QED BY <2>1, <2>2, <2>3
<1>2. Built[d] \in FragmentType
  BY <1>1, EntryIs
<1>3. Linked(n, d) = {}
  BY <1>1 DEF Linked
<1> HIDE DEF d
<1>4. EndsRight(n, d, Built[d])
  BY <1>1 DEF EndsRight
<1>5. UNION {Built[c].breaks : c \in {d}} = Built[d].breaks
      /\ UNION {Built[c].continues : c \in {d}} = Built[d].continues
  OBVIOUS
<1> QED BY <1>1, <1>2, <1>3, <1>4, <1>5 DEF JoinedRight, d

\* One part more, after others.
LEMMA JoinedMore ==
  ASSUME Shape, NEW n \in Nodes, NEW i \in Nat, Begun(n, i) # {}, Is(n, "block"),
         i + 1 \in Children(n), First[i + 1] # {}, Typed(i + 1), Entered(i + 1),
         NEW b, b = Joined(n)[i], JoinedRight(n, i, b), b.entry # 0
  PROVE  JoinedRight(n, i + 1, Then(b, Built[i + 1], Is(i + 1, "label")))
<1> DEFINE d == i + 1
           B == Begun(n, i)
           part == Built[d]
           exits == Exits(b, part, Is(d, "label"))
           edges == b.edges \cup part.edges \cup Link(b.exits, part.entry)
           r == Fragment(b.entry, exits, b.breaks \cup part.breaks,
                         b.continues \cup part.continues, edges)
<1>1. Begun(n, d) = B \cup {d} /\ d \in Nodes /\ d - 1 = i /\ d <= d /\ Parent(d) = n
  <2>1. Begun(n, d) = B \cup {d}
    BY BegunNext
  <2>2. d \in Nodes /\ Parent(d) = n
    BY NodesAre
  <2>3. d - 1 = i /\ d <= d
    OBVIOUS
  <2> QED BY <2>1, <2>2, <2>3
<1>2. part \in FragmentType /\ part.entry # 0 /\ part.entry \in Nodes
  BY <1>1, EntryIs
<1>3. Linked(n, d) = Link(b.exits, part.entry)
  BY <1>1 DEF Linked
<1>4. Then(b, part, Is(d, "label")) = r
  BY <1>2 DEF Then
<1>5. exits \subseteq part.exits /\ (Kept(d) => exits = part.exits)
  <2>1. Kept(d) => b.exits # {} \/ Is(d, "label")
    BY <1>1 DEF Kept
  <2> QED BY <2>1 DEF Exits
<1>6. b \in FragmentType
  BY DEF JoinedRight
<1> HIDE DEF d, B
<1>7. r \in FragmentType
  <2>1. exits \in SUBSET Nodes
    BY <1>2, <1>5 DEF FragmentType
  <2>2. Link(b.exits, part.entry) \in SUBSET (Nodes \X Nodes)
    BY <1>2, <1>6 DEF Link, FragmentType
  <2> HIDE DEF exits, part
  <2> QED BY <1>2, <1>6, <2>1, <2>2 DEF Fragment, FragmentType
<1>8. /\ r.entry = b.entry /\ r.exits = exits /\ r.edges = edges
      /\ r.breaks = b.breaks \cup part.breaks /\ r.continues = b.continues \cup part.continues
  BY DEF Fragment
<1> HIDE DEF r, exits, part
<1>9. EndsRight(n, d, r)
  <2>1. PICK first \in B, last \in B : /\ \A c \in B : first <= c /\ c <= last
                                       /\ b.entry = Built[first].entry
    BY DEF JoinedRight, EndsRight, B
  <2>2. \A c \in B : c \in Nat /\ c <= i
    BY NodesAre DEF Begun, B
  <2>3. \A c \in B \cup {d} : first <= c /\ c <= d
    BY <2>1, <2>2 DEF d
  <2> QED BY <1>1, <1>5, <1>8, <2>1, <2>3 DEF EndsRight, part
<1>10. \A c \in B \cup {d} : Built[c].edges \cup Linked(n, c) \subseteq edges
  <2>1. \A c \in B : Built[c].edges \cup Linked(n, c) \subseteq b.edges
    BY DEF JoinedRight, B
  <2> QED BY <1>3, <2>1 DEF part
<1>11. \A e \in edges : \E c \in B \cup {d} : e \in Built[c].edges \cup Linked(n, c)
  <2>1. \A e \in b.edges : \E c \in B : e \in Built[c].edges \cup Linked(n, c)
    BY DEF JoinedRight, B
  <2> QED BY <1>3, <2>1 DEF part
<1>12. /\ b.breaks \cup part.breaks = UNION {Built[c].breaks : c \in B \cup {d}}
       /\ b.continues \cup part.continues = UNION {Built[c].continues : c \in B \cup {d}}
  BY DEF JoinedRight, B, part
<1> QED BY <1>1, <1>4, <1>7, <1>8, <1>9, <1>10, <1>11, <1>12 DEF JoinedRight, d, part

\* What is joined up to i is made of the parts up to i.
LEMMA JoinedAll ==
  ASSUME Shape, NEW n \in Nodes, Is(n, "block"),
         \A c \in Children(n) : Typed(c) /\ Entered(c)
  PROVE  \A i \in n..Len(tree) : JoinedRight(n, i, Joined(n)[i])
<1> DEFINE S == {k \in Nat : n + k <= Len(tree) => JoinedRight(n, n + k, Joined(n)[n + k])}
<1>1. Len(tree) \in Nat /\ n \in Nat /\ Children(n) \subseteq Nodes
      /\ \A c \in Children(n) : c > n /\ c \in Nat
  BY NodesAre
<1>2. 0 \in S
  <2>1. Begun(n, n) = {}
    BY <1>1 DEF Begun
  <2>2. Joined(n)[n] = Nothing
    BY JoinedIs
  <2>3. JoinedRight(n, n, Nothing)
    BY <2>1 DEF JoinedRight, Nothing, Fragment, FragmentType
  <2>4. n + 0 = n
    BY <1>1
  <2> QED BY <2>2, <2>3, <2>4
<1>3. ASSUME NEW k \in Nat, k \in S PROVE k + 1 \in S
  <2> DEFINE i == n + k
             b == Joined(n)[i]
  <2> SUFFICES ASSUME i + 1 <= Len(tree) PROVE JoinedRight(n, i + 1, Joined(n)[i + 1])
    BY <1>1
  <2>1. i \in Nat /\ i + 1 \in n + 1..Len(tree) /\ (i + 1) - 1 = i
    BY <1>1
  <2>2. JoinedRight(n, i, b)
    BY <1>1, <1>3
  <2> HIDE DEF i
  <2>3. Joined(n)[i + 1] = IF i + 1 \in Children(n)
                           THEN Then(b, Built[i + 1], Is(i + 1, "label")) ELSE b
    BY <2>1, JoinedIs
  <2>4. CASE i + 1 \in Children(n) /\ First[i + 1] # {}
    <3>1. i + 1 \in Nodes /\ Built[i + 1].entry # 0
      BY <1>1, <2>4, EntryIs
    <3>2. CASE Begun(n, i) = {}
      <4>1. b.entry = 0
        BY <2>2, <3>2 DEF JoinedRight, Nothing, Fragment
      <4>2. Then(b, Built[i + 1], Is(i + 1, "label")) = Built[i + 1]
        BY <3>1, <4>1 DEF Then
      <4> QED BY <2>1, <2>3, <2>4, <3>2, <4>1, <4>2, JoinedFirst
    <3>3. CASE Begun(n, i) # {}
      <4>1. PICK first \in Begun(n, i) : b.entry = Built[first].entry
        BY <2>2, <3>3 DEF JoinedRight, EndsRight
      <4>2. b.entry # 0
        BY <1>1, <4>1, EntryIs DEF Begun
      <4> QED BY <2>1, <2>2, <2>3, <2>4, <3>3, <4>2, JoinedMore
    <3> QED BY <3>2, <3>3
  <2>5. CASE ~(i + 1 \in Children(n) /\ First[i + 1] # {})
    <3>1. Begun(n, i + 1) = Begun(n, i)
      BY <2>1, <2>5, BegunNext
    <3>2. Joined(n)[i + 1] = b
      <4>1. i + 1 \in Children(n) => Built[i + 1].entry = 0
        BY <1>1, <2>5, EntryIs
      <4> QED BY <2>3, <4>1 DEF Then
    <3> HIDE DEF b
    <3> QED BY <2>2, <3>1, <3>2 DEF JoinedRight, EndsRight
  <2> QED BY <2>4, <2>5
<1>4. Nat \subseteq S
  <2> HIDE DEF S
  <2> QED BY <1>2, <1>3, Induction
<1>5. ASSUME NEW i \in n..Len(tree) PROVE JoinedRight(n, i, Joined(n)[i])
  <2>1. i - n \in Nat /\ n + (i - n) = i /\ i <= Len(tree)
    BY <1>1
  <2>2. i - n \in S
    BY <1>4, <2>1
  <2> QED BY <2>1, <2>2
<1> QED BY <1>5
----------------------------------------------------------------------------
(* After a part.                                                           *)

\* Where execution goes after a part depends on what it is a part of.
LEMMA AfterPart ==
  ASSUME Shape, NEW n \in Nodes, NEW c \in Children(n)
  PROVE  /\ Is(n, "while") => After[c] = {n}
         /\ Is(n, "do") => After[c] = (IF May(n, "true") THEN {n} ELSE {})
                                        \cup (IF May(n, "false") THEN After[n] ELSE {})
         /\ Is(n, "if") \/ Is(n, "switch") => After[c] = After[n]
<1>1. c \in Nodes /\ Parent(c) = n /\ n # 0
  BY NodesAre
<1>2. After[c] = AfterIn(c, After[n])
  BY <1>1, AfterIs DEF AfterStep
<1> QED BY <1>1, <1>2 DEF AfterIn, Is

\* In a block it goes to the next part that there is anything in.
LEMMA AfterInBlock ==
  ASSUME Shape, NEW n \in Nodes, Is(n, "block"), NEW c \in Children(n)
  PROVE  /\ (\A d \in Children(n) : d > c => First[d] = {}) => After[c] = After[n]
         /\ \A d \in Children(n) :
              /\ d > c /\ First[d] # {}
              /\ \A k \in Children(n) : k > c /\ First[k] # {} => d <= k
              => After[c] = First[d]
<1> DEFINE following == {m \in Children(n) : m > c /\ First[m] # {}}
<1>1. c \in Nodes /\ Parent(c) = n /\ n # 0 /\ following \in SUBSET Nat
  BY NodesAre
<1>2. After[c] = IF following = {} THEN After[n] ELSE First[Min(following)]
  <2>1. After[c] = AfterIn(c, After[n])
    BY <1>1, AfterIs DEF AfterStep
  <2> QED BY <1>1, <2>1 DEF AfterIn, Is
<1>3. ASSUME \A d \in Children(n) : d > c => First[d] = {}
      PROVE  After[c] = After[n]
  <2>1. following = {}
    BY <1>3
  <2> QED BY <1>2, <2>1
<1>4. ASSUME NEW d \in Children(n), d > c, First[d] # {},
             \A k \in Children(n) : k > c /\ First[k] # {} => d <= k
      PROVE  After[c] = First[d]
  <2>1. d \in following /\ \A k \in following : d <= k
    BY <1>4
  <2> HIDE DEF following
  <2>2. Min(following) = d
    BY <1>1, <2>1, MinIs
  <2> QED BY <1>2, <2>1, <2>2
<1> QED BY <1>3, <1>4

\* Jumps out of a part of a loop, or of a switch, go where those go on.
LEMMA JumpsOut ==
  ASSUME Shape, NEW n \in Nodes, NEW c \in Children(n), Leaves(c), Typed(c)
  PROVE  /\ tree[n].kind \in {"while", "do", "switch"} =>
              \A x \in Built[c].breaks : Steps(x) = After[n]
         /\ tree[n].kind \in {"while", "do"} =>
              \A x \in Built[c].continues : Steps(x) = After[Min(Children(n))]
         /\ tree[n].kind \notin {"while", "do", "switch"} =>
              \A x \in Built[c].breaks :
                Is(x, "break") /\ Inside(x, {"while", "do", "switch"}) \cap Sub(n) = {}
         /\ tree[n].kind \notin {"while", "do"} =>
              \A x \in Built[c].continues :
                Is(x, "continue") /\ Inside(x, {"while", "do"}) \cap Sub(n) = {}
<1>1. ASSUME NEW x \in Built[c].breaks
      PROVE  /\ x \in Sub(c) /\ Is(x, "break")
             /\ Inside(x, {"while", "do", "switch"}) \cap Sub(c) = {}
  BY DEF Leaves, Typed
<1>2. ASSUME NEW x \in Built[c].continues
      PROVE  /\ x \in Sub(c) /\ Is(x, "continue")
             /\ Inside(x, {"while", "do"}) \cap Sub(c) = {}
  BY DEF Leaves, Typed
<1>3. ASSUME NEW x \in Built[c].breaks, tree[n].kind \in {"while", "do", "switch"}
      PROVE  Steps(x) = After[n]
  <2>1. /\ Inside(x, {"while", "do", "switch"}) # {}
        /\ Max(Inside(x, {"while", "do", "switch"})) = n
    BY <1>1, <1>3, InsideIs
  <2>2. tree[x].kind = "break"
    BY <1>1 DEF Is
  <2> QED BY <2>1, <2>2 DEF Steps, Is
<1>4. ASSUME NEW x \in Built[c].continues, tree[n].kind \in {"while", "do"}
      PROVE  Steps(x) = After[Min(Children(n))]
  <2>1. Inside(x, {"while", "do"}) # {} /\ Max(Inside(x, {"while", "do"})) = n
    BY <1>2, <1>4, InsideIs
  <2>2. tree[x].kind = "continue"
    BY <1>2 DEF Is
  <2> QED BY <2>1, <2>2 DEF Steps, Is
<1>5. ASSUME NEW x \in Built[c].breaks, tree[n].kind \notin {"while", "do", "switch"}
      PROVE  Inside(x, {"while", "do", "switch"}) \cap Sub(n) = {}
  BY <1>1, <1>5, InsideIs
<1>6. ASSUME NEW x \in Built[c].continues, tree[n].kind \notin {"while", "do"}
      PROVE  Inside(x, {"while", "do"}) \cap Sub(n) = {}
  BY <1>2, <1>6, InsideIs
<1> QED BY <1>1, <1>2, <1>3, <1>4, <1>5, <1>6
----------------------------------------------------------------------------
(* Statements with parts.                                                  *)

\* A statement is covered if what its parts leave by is taken care of.
CoversPart(n, c) ==
  /\ Built[c].edges \subseteq Built[n].edges
  /\ \A x \in Built[c].exits : \A y \in After[c] :
       <<x, y>> \in Built[n].edges \/ (x \in Built[n].exits /\ y \in After[n])
  /\ \A x \in Built[c].breaks : x \in Built[n].breaks \/ Goes(x, n)
  /\ \A x \in Built[c].continues : x \in Built[n].continues \/ Goes(x, n)

LEMMA CoversParts ==
  ASSUME Shape, NEW n \in Nodes, \A c \in Children(n) : Covers(c),
         \A c \in Children(n) : Kept(c) => CoversPart(n, c),
         Is(n, "block") \/ Goes(n, n)
  PROVE  Covers(n)
<1> SUFFICES ASSUME NEW x \in Sub(n), ~Is(x, "block"), Live(x, n), ~Is(x, "goto"),
                    x \notin Built[n].breaks, x \notin Built[n].continues
             PROVE  Goes(x, n)
  BY DEF Covers
<1>1. CASE x = n
  BY <1>1
<1>2. CASE x # n
  <2>1. PICK c \in Children(n) : x \in Sub(c)
    BY <1>2, SubIs
  <2>2. Kept(c) /\ Live(x, c)
    BY <2>1, LiveIn
  <2>3. CoversPart(n, c) /\ Covers(c)
    BY <2>2
  <2>4. x \in Built[c].breaks \/ x \in Built[c].continues \/ Goes(x, c)
    BY <2>1, <2>2, <2>3 DEF Covers
  <2>5. CASE Goes(x, c)
    BY <2>3, <2>5 DEF Goes, CoversPart
  <2> QED BY <2>3, <2>4, <2>5 DEF CoversPart
<1> QED BY <1>1, <1>2

\* What a statement, other than a block, is made of.
MadeOf(n) ==
  /\ Built[n].entry = n
  /\ \A e \in Built[n].edges : \E c \in Children(n) :
       \/ e \in Built[c].edges
       \/ Kept(c) /\ First[c] # {} /\ e = <<n, Built[c].entry>>
       \/ \E x \in Built[c].exits \cup Built[c].continues : e = <<x, n>>
  /\ \A x \in Built[n].exits :
       x = n \/ \E c \in Children(n) :
                  x \in Built[c].exits \cup Built[c].breaks \cup Built[c].continues
  /\ \A x \in Built[n].breaks : \E c \in Children(n) : x \in Built[c].breaks
  /\ \A x \in Built[n].continues : \E c \in Children(n) : x \in Built[c].continues

LEMMA MadeWell ==
  ASSUME Shape, NEW n \in Nodes, ~Is(n, "block"), MadeOf(n),
         \E E, X, B, C, D : Built[n] = Fragment(E, X, B, C, D),
         \A c \in Children(n) : Typed(c) /\ Entered(c) /\ Keeps(c)
  PROVE  Typed(n) /\ Entered(n) /\ Keeps(n)
<1>1. n \in Sub(n) /\ Sub(n) \subseteq Nodes /\ n \in Nat /\ Live(n, n)
  BY SubIs, NodesAre, LiveIn
<1>2. ASSUME NEW c \in Children(n)
      PROVE  /\ Built[c].exits \subseteq Sub(n) /\ Built[c].breaks \subseteq Sub(n)
             /\ Built[c].continues \subseteq Sub(n) /\ Built[c].edges \subseteq Sub(n) \X Sub(n)
             /\ First[c] # {} => Built[c].entry \in Sub(n)
  BY SubIs DEF Typed, Entered
<1>3. Built[n].edges \subseteq Sub(n) \X Sub(n)
  <2> SUFFICES ASSUME NEW e \in Built[n].edges PROVE e \in Sub(n) \X Sub(n)
    OBVIOUS
  <2>1. PICK c \in Children(n) :
          \/ e \in Built[c].edges
          \/ Kept(c) /\ First[c] # {} /\ e = <<n, Built[c].entry>>
          \/ \E x \in Built[c].exits \cup Built[c].continues : e = <<x, n>>
    BY DEF MadeOf
  <2> QED BY <1>1, <1>2, <2>1
<1>4. /\ Built[n].exits \subseteq Sub(n) /\ Built[n].breaks \subseteq Sub(n)
      /\ Built[n].continues \subseteq Sub(n)
  BY <1>1, <1>2 DEF MadeOf
<1>5. Typed(n)
  <2>1. PICK E, X, B, C, D : Built[n] = Fragment(E, X, B, C, D)
    OBVIOUS
  <2>2. E \in Nat /\ X \subseteq Sub(n) /\ B \subseteq Sub(n) /\ C \subseteq Sub(n)
        /\ D \subseteq Sub(n) \X Sub(n)
    BY <1>1, <1>3, <1>4, <2>1 DEF Fragment, MadeOf
  <2>3. D \subseteq Nodes \X Nodes /\ X \subseteq Nodes /\ B \subseteq Nodes /\ C \subseteq Nodes
    BY <1>1, <2>2
  <2>4. Fragment(E, X, B, C, D) \in FragmentType
    BY <2>2, <2>3 DEF Fragment, FragmentType
  <2>5. Built[n] \in FragmentType
    BY <2>1, <2>4
  <2> QED BY <1>3, <1>4, <2>5 DEF Typed
<1>6. Entered(n)
  <2>1. First[n] = {n}
    BY FirstIs DEF FirstStep
  <2> QED BY <1>1, <2>1 DEF Entered, MadeOf
<1>7. Keeps(n)
  <2> SUFFICES ASSUME NEW e \in Built[n].edges, Live(e[1], n)
               PROVE  ~Is(e[2], "block") /\ Live(e[2], n)
    BY DEF Keeps
  <2>1. PICK c \in Children(n) :
          \/ e \in Built[c].edges
          \/ Kept(c) /\ First[c] # {} /\ e = <<n, Built[c].entry>>
          \/ \E x \in Built[c].exits \cup Built[c].continues : e = <<x, n>>
    BY DEF MadeOf
  <2>2. CASE e \in Built[c].edges
    <3>1. e[1] \in Sub(c) /\ e[2] \in Sub(c)
      BY <2>2 DEF Typed
    <3>2. Kept(c) /\ Live(e[1], c)
      BY <3>1, LiveIn
    <3>3. ~Is(e[2], "block") /\ Live(e[2], c)
      BY <2>2, <3>2 DEF Keeps
    <3> QED BY <3>1, <3>2, <3>3, LiveIn
  <2>3. CASE Kept(c) /\ First[c] # {} /\ e = <<n, Built[c].entry>>
    <3>1. e[2] = Built[c].entry
      BY <2>3
    <3>2. e[2] \in Sub(c) /\ ~Is(e[2], "block") /\ Live(e[2], c)
      BY <2>3, <3>1 DEF Entered
    <3> QED BY <2>3, <3>2, LiveIn
  <2>4. CASE \E x \in Built[c].exits \cup Built[c].continues : e = <<x, n>>
    <3>1. e[2] = n
      BY <2>4
    <3> QED BY <1>1, <3>1
  <2> QED BY <2>1, <2>2, <2>3, <2>4
<1> QED BY <1>5, <1>6, <1>7
----------------------------------------------------------------------------
(* Right, kind by kind.                                                    *)

\* The numbers of parts.
LEMMA PartsAre ==
  ASSUME Shape, NEW n \in Nodes
  PROVE  /\ IsFiniteSet(Children(n)) /\ Cardinality(Children(n)) \in Nat
         /\ Children(n) # {} => Min(Children(n)) \in Children(n)
         /\ tree[n].kind \in {"while", "do"} /\ Children(n) # {} =>
              Children(n) = {Min(Children(n))}
         /\ Is(n, "if") /\ Children(n) # {} =>
              /\ Max(Children(n)) \in Children(n)
              /\ \A m \in Children(n) : m = Min(Children(n)) \/ m = Max(Children(n))
         /\ Cardinality(Children(n)) = 1 <=> Children(n) = {Min(Children(n))}
         /\ tree[n].kind \notin {"block", "if", "switch", "while", "do"} => Children(n) = {}
<1> DEFINE C == Children(n)
<1>1. Len(tree) \in Nat /\ C \in SUBSET Nodes /\ C \in SUBSET (0..Len(tree)) /\ C \in SUBSET Nat
  BY NodesAre
<1>2. IsFiniteSet(C) /\ Cardinality(C) \in Nat
  <2>1. IsFiniteSet(0..Len(tree))
    BY <1>1, FS_Interval
  <2> QED BY <1>1, <2>1, FS_Subset, FS_CardinalityType
<1>3. C # {} => Min(C) \in C /\ Max(C) \in C
                /\ \A m \in C : Min(C) <= m /\ m <= Max(C)
  BY <1>1, MinOf, MaxOf
<1>4. Cardinality(C) <= Branches(tree[n].kind)
  BY DEF Shape
<1>5. tree[n].kind = "if" => Cardinality(C) <= 2
  BY <1>4 DEF Branches
<1>6. tree[n].kind \in {"while", "do"} => Cardinality(C) <= 1
  BY <1>4 DEF Branches
<1>7. tree[n].kind \notin {"block", "if", "switch", "while", "do"} => Cardinality(C) <= 0
  BY <1>4 DEF Branches
<1> HIDE DEF C
<1>8. Cardinality(C) = 1 <=> C = {Min(C)}
  <2>1. ASSUME Cardinality(C) = 1 PROVE C = {Min(C)}
    <3>1. PICK c : C = {c}
      BY <1>2, <2>1, FS_Singleton
    <3> QED BY <1>3, <3>1
  <2> QED BY <2>1, FS_Singleton
<1>9. Cardinality(C) = 0 <=> C = {}
  BY <1>2, FS_EmptySet
<1>10. ASSUME NEW m \in C, m # Min(C), m # Max(C) PROVE ~(Cardinality(C) <= 2)
  <2> DEFINE a == Min(C)
             z == Max(C)
  <2>1. a \in C /\ z \in C /\ a \in Nat /\ z \in Nat /\ m \in Nat /\ a <= m /\ m <= z
    BY <1>1, <1>3
  <2>2. a # z /\ m # a /\ m # z
    BY <1>10, <2>1
  <2> HIDE DEF a, z
  <2>3. IsFiniteSet({a}) /\ Cardinality({a}) = 1
    BY FS_Singleton
  <2>4. IsFiniteSet({a, z}) /\ Cardinality({a, z}) = 2
    <3>1. {a} \cup {z} = {a, z} /\ z \notin {a}
      BY <2>2
    <3> QED BY <2>3, <3>1, FS_AddElement
  <2>5. IsFiniteSet({a, m, z}) /\ Cardinality({a, m, z}) = 3
    <3>1. {a, z} \cup {m} = {a, m, z} /\ m \notin {a, z}
      BY <2>2
    <3> QED BY <2>4, <3>1, FS_AddElement
  <2>6. Cardinality({a, m, z}) <= Cardinality(C)
    <3>1. {a, m, z} \subseteq C
      BY <2>1
    <3> QED BY <1>2, <3>1, FS_Subset
  <2> QED BY <1>2, <2>5, <2>6
<1>11. tree[n].kind \in {"while", "do"} /\ C # {} => C = {Min(C)}
  BY <1>2, <1>6, <1>8, <1>9
<1>12. tree[n].kind = "if" => \A m \in C : m = Min(C) \/ m = Max(C)
  BY <1>5, <1>10
<1>13. tree[n].kind \notin {"block", "if", "switch", "while", "do"} => C = {}
  BY <1>2, <1>7, <1>9
<1> QED BY <1>2, <1>3, <1>8, <1>11, <1>12, <1>13 DEF C, Is

\* A statement without parts.
LEMMA PlainIsRight ==
  ASSUME Shape, NEW n \in Nodes,
         tree[n].kind \notin {"block", "if", "switch", "while", "do"}
  PROVE  Right(n)
<1>1. Children(n) = {} /\ Sub(n) = {n} /\ n \in Nat
  <2>1. Children(n) = {}
    BY PartsAre
  <2> QED BY <2>1, SubIs, NodesAre
<1>2. Built[n] = BuiltStep(n, Parts(n)) /\ ~Is(n, "block")
  BY BuiltIs DEF Is
<1>3. \/ tree[n].kind \in {"return", "goto"} /\ Built[n] = Fragment(n, {}, {}, {}, {})
      \/ tree[n].kind = "break" /\ Built[n] = Fragment(n, {}, {n}, {}, {})
      \/ tree[n].kind = "continue" /\ Built[n] = Fragment(n, {}, {}, {n}, {})
      \/ /\ tree[n].kind \notin {"return", "goto", "break", "continue"}
         /\ Built[n] = Fragment(n, {n}, {}, {}, {})
  BY <1>2 DEF BuiltStep, Is
<1>4. Built[n].edges = {} /\ Built[n].entry = n
  BY <1>3 DEF Fragment
<1>5. Typed(n)
  BY <1>1, <1>3, SubIs DEF Typed, Fragment, FragmentType
<1>6. Entered(n)
  <2>1. First[n] = {n}
    BY <1>2, FirstIs DEF FirstStep
  <2> QED BY <1>1, <1>2, <1>4, <2>1, LiveIn DEF Entered
<1>7. \A x \in Built[n].exits : x = n /\ Steps(n) = After[n]
  <2> SUFFICES ASSUME Built[n].exits # {} PROVE Built[n].exits = {n} /\ Steps(n) = After[n]
    OBVIOUS
  <2>1. Built[n].exits = {n} /\ tree[n].kind \notin {"return", "goto", "break", "continue"}
    BY <1>3 DEF Fragment
  <2> QED BY <2>1 DEF Steps, Is
<1>8. Leaves(n)
  <2>1. \A K : Inside(n, K) \cap Sub(n) = {}
    <3>1. n \notin Around[n]
      BY <1>1, AroundBefore
    <3> QED BY <1>1, <3>1 DEF Inside
  <2> QED BY <1>3, <2>1 DEF Leaves, Fragment, Is
<1>9. Covers(n)
  <2>1. ASSUME tree[n].kind = "return" PROVE Goes(n, n)
    BY <2>1 DEF Goes, Steps, Is
  <2>2. ASSUME Built[n].exits = {n} PROVE Goes(n, n)
    BY <1>7, <2>2 DEF Goes
  <2>3. Is(n, "goto") \/ n \in Built[n].breaks \/ n \in Built[n].continues \/ Goes(n, n)
    BY <1>3, <2>1, <2>2 DEF Fragment, Is
  <2> QED BY <1>1, <2>3 DEF Covers
<1> QED BY <1>4, <1>5, <1>6, <1>7, <1>8, <1>9 DEF Right, Follows, Keeps

\* An edge into a part leads to what the part begins with.
LEMMA IntoPart ==
  ASSUME Shape, NEW n \in Nodes, NEW c \in Children(n), Typed(c), Entered(c), NEW from
  PROVE  /\ \A e \in Link(from, Built[c].entry) :
              First[c] # {} /\ First[c] = {Built[c].entry} /\ Begin(c) = {Built[c].entry}
              /\ e \in from \X {Built[c].entry}
         /\ First[c] # {} => /\ Begin(c) = {Built[c].entry}
                             /\ \A x \in from : <<x, Built[c].entry>> \in Link(from, Built[c].entry)
         /\ First[c] = {} => Begin(c) = After[c] /\ Built[c] = Nothing /\ Built[c].entry = 0
<1>1. c \in Nodes
  BY NodesAre
<1>2. Built[c].entry = 0 => Link(from, Built[c].entry) = {}
  BY DEF Link
<1>3. Built[c].entry # 0 => Link(from, Built[c].entry) = from \X {Built[c].entry}
  BY DEF Link
<1> QED BY <1>1, <1>2, <1>3, EntryIs DEF Begin

\* An `if'.
LEMMA IfIsRight ==
  ASSUME Shape, Complete, NEW n \in Nodes, Is(n, "if"), \A c \in Children(n) : Right(c)
  PROVE  Right(n)
<1> DEFINE C == Children(n)
           least == Min(C)
           B == Built[n]
           taken == {m \in C : May(n, IF m = least THEN "true" ELSE "false")}
           skipped == IF Cardinality(C) = 1 /\ May(n, "false") THEN {n} ELSE {}
           E == (UNION {Built[m].edges : m \in C})
                  \cup (UNION {Link({n}, Built[m].entry) : m \in taken})
           X == skipped \cup UNION {Built[m].exits : m \in taken}
<1>1. tree[n].kind = "if" /\ ~Is(n, "block") /\ n # 0 /\ C \in SUBSET Nodes
  BY NodesAre DEF Is
<1>2. B = Fragment(n, X, UNION {Built[m].breaks : m \in taken},
                   UNION {Built[m].continues : m \in taken}, E)
  <2>1. B = Branch(n, Parts(n))
    BY <1>1, BuiltIs DEF BuiltStep, Is
  <2>2. \A m \in C : Parts(n)[m] = Built[m]
    BY DEF Parts
  <2>3. taken \subseteq C
    OBVIOUS
  <2>4. /\ UNION {Parts(n)[m].exits : m \in taken} = UNION {Built[m].exits : m \in taken}
        /\ UNION {Parts(n)[m].breaks : m \in taken} = UNION {Built[m].breaks : m \in taken}
        /\ UNION {Parts(n)[m].continues : m \in taken} = UNION {Built[m].continues : m \in taken}
        /\ UNION {Parts(n)[m].edges : m \in C} = UNION {Built[m].edges : m \in C}
        /\ UNION {Link({n}, Parts(n)[m].entry) : m \in taken}
             = UNION {Link({n}, Built[m].entry) : m \in taken}
    <3> HIDE DEF taken
    <3> QED BY <2>2, <2>3
  <2> QED BY <2>1, <2>4 DEF Branch
<1>3. /\ B.entry = n /\ B.exits = X /\ B.edges = E
      /\ B.breaks = UNION {Built[m].breaks : m \in taken}
      /\ B.continues = UNION {Built[m].continues : m \in taken}
  <2> HIDE DEF E, X
  <2> QED BY <1>2 DEF Fragment
<1>4. C # {} /\ least \in C /\ (Cardinality(C) = 1 <=> C = {least})
      /\ \A m \in C : m # least => Max(C) = m /\ C # {least}
      /\ Max(C) \in C /\ (C # {least} => Max(C) # least)
  <2>1. C # {}
    BY <1>1 DEF Complete
  <2>2. C # {least} => \E m \in C : m # least
    BY <2>1, PartsAre
  <2> QED BY <2>1, <2>2, PartsAre
<1>5. \A m \in C : Kept(m) <=> m \in taken
  <2>1. \A m \in C : Parent(m) = n
    BY NodesAre
  <2> QED BY <1>1, <2>1 DEF Kept, Is
<1>6. \A m \in C : After[m] = After[n] /\ Typed(m) /\ Entered(m) /\ Keeps(m) /\ Follows(m) /\ Leaves(m)
  BY AfterPart DEF Right
<1>7. Steps(n) = (IF May(n, "true") THEN Begin(least) ELSE {})
                   \cup (IF ~May(n, "false") THEN {}
                         ELSE IF C = {least} THEN After[n] ELSE Begin(Max(C)))
  BY <1>1 DEF Steps, Is
<1>8. \A m \in taken : Begin(m) \subseteq Steps(n)
  BY <1>4, <1>7
<1>9. \A e \in E : \E c \in C : \/ e \in Built[c].edges
                                \/ c \in taken /\ e \in Link({n}, Built[c].entry)
  <2>1. taken \subseteq C
    OBVIOUS
  <2> HIDE DEF taken, C
  <2> QED BY <2>1
<1> HIDE DEF E, X, B, C, least
<1>10. MadeOf(n)
  <2>1. \A e \in E : \E c \in C : \/ e \in Built[c].edges
                                  \/ Kept(c) /\ First[c] # {} /\ e = <<n, Built[c].entry>>
    <3> SUFFICES ASSUME NEW e \in E, NEW c \in C, c \in taken, e \in Link({n}, Built[c].entry)
                 PROVE  Kept(c) /\ First[c] # {} /\ e = <<n, Built[c].entry>>
      BY <1>9
    <3>1. First[c] # {} /\ e \in {n} \X {Built[c].entry}
      BY <1>6, IntoPart DEF C
    <3> QED BY <1>5, <3>1
  <2>2. \A x \in X : x = n \/ \E c \in C : x \in Built[c].exits
    BY DEF X
  <2>3. \A x \in UNION {Built[m].breaks : m \in taken} : \E c \in C : x \in Built[c].breaks
    OBVIOUS
  <2>4. \A x \in UNION {Built[m].continues : m \in taken} : \E c \in C : x \in Built[c].continues
    OBVIOUS
  <2> HIDE DEF taken
  <2> QED BY <1>3, <2>1, <2>2, <2>3, <2>4 DEF MadeOf, B, C
<1>11. Typed(n) /\ Entered(n) /\ Keeps(n)
  BY <1>1, <1>2, <1>6, <1>10, MadeWell DEF B, C
<1>12. Follows(n)
  <2>1. ASSUME NEW e \in E PROVE e[2] \in Steps(e[1])
    <3>1. PICK c \in C : \/ e \in Built[c].edges
                         \/ c \in taken /\ e \in Link({n}, Built[c].entry)
      BY <1>9
    <3>2. CASE e \in Built[c].edges
      BY <1>6, <3>2 DEF Follows
    <3>3. CASE c \in taken /\ e \in Link({n}, Built[c].entry)
      <4>1. Begin(c) = {Built[c].entry} /\ e \in {n} \X {Built[c].entry}
        BY <1>6, <3>3, IntoPart DEF C
      <4> QED BY <1>8, <3>3, <4>1
    <3> QED BY <3>1, <3>2, <3>3
  <2>2. ASSUME NEW x \in X PROVE After[n] \subseteq Steps(x)
    <3>1. CASE x \in skipped
      BY <1>4, <1>7, <3>1
    <3>2. CASE x \notin skipped
      <4>1. PICK m \in C : x \in Built[m].exits
        BY <3>2 DEF X
      <4> QED BY <1>6, <4>1 DEF Follows
    <3> QED BY <3>1, <3>2
  <2> QED BY <1>3, <2>1, <2>2 DEF Follows, B
<1>13. Leaves(n)
  <2>1. \A c \in C : /\ \A x \in Built[c].breaks :
                          Is(x, "break") /\ Inside(x, {"while", "do", "switch"}) \cap Sub(n) = {}
                     /\ \A x \in Built[c].continues :
                          Is(x, "continue") /\ Inside(x, {"while", "do"}) \cap Sub(n) = {}
    BY <1>1, <1>6, JumpsOut DEF C
  <2> QED BY <1>3, <2>1 DEF Leaves, B
<1>14. ASSUME NoHollowBranch PROVE Covers(n)
  <2>1. \A m \in C : Covers(m)
    BY <1>14 DEF Right, C
  <2>2. Goes(n, n)
    <3> SUFFICES ASSUME NEW y \in Steps(n)
                 PROVE  <<n, y>> \in E \/ (n \in X /\ y \in After[n])
      BY <1>3 DEF Goes, B
    <3>1. ASSUME NEW m \in taken, y \in Begin(m)
          PROVE  <<n, y>> \in E \/ (n \in X /\ y \in After[n])
      <4>1. CASE First[m] # {}
        <5>1. y = Built[m].entry /\ <<n, y>> \in Link({n}, Built[m].entry)
          BY <1>6, <3>1, <4>1, IntoPart DEF C
        <5> HIDE DEF taken
        <5> QED BY <5>1, <3>1 DEF E
      <4>2. CASE First[m] = {}
        <5>1. m \in Nodes /\ Parent(m) = n /\ m \in C
          BY NodesAre DEF C
        <5>2. May(n, IF m = Min(Children(n)) THEN "true" ELSE "false")
          BY <3>1 DEF least, C
        <5>3. Children(n) = {m} /\ May(n, "false")
          BY <1>1, <1>14, <4>2, <5>1, <5>2 DEF NoHollowBranch, LosesTheWay
        <5>4. n \in skipped
          BY <1>4, <5>1, <5>3 DEF C
        <5>5. y \in After[n]
          BY <1>6, <3>1, <4>2, <5>1 DEF Begin
        <5> QED BY <5>4, <5>5 DEF X
      <4> QED BY <4>1, <4>2
    <3>2. CASE May(n, "true") /\ y \in Begin(least)
      <4>1. least \in taken
        BY <1>4, <3>2
      <4> QED BY <3>1, <3>2, <4>1
    <3>3. CASE May(n, "false") /\ C = {least} /\ y \in After[n]
      <4>1. n \in skipped
        BY <1>4, <3>3
      <4> QED BY <3>3, <4>1 DEF X
    <3>4. CASE May(n, "false") /\ C # {least} /\ y \in Begin(Max(C))
      <4>1. Max(C) \in taken
        BY <1>4, <3>4
      <4> QED BY <3>1, <3>4, <4>1
    <3> QED BY <1>7, <3>2, <3>3, <3>4
  <2>3. ASSUME NEW c \in C, Kept(c) PROVE CoversPart(n, c)
    <3>1. c \in taken
      BY <1>5, <2>3
    <3>2. Built[c].edges \subseteq E /\ Built[c].exits \subseteq X
      BY <3>1 DEF E, X
    <3>3. /\ Built[c].breaks \subseteq UNION {Built[m].breaks : m \in taken}
          /\ Built[c].continues \subseteq UNION {Built[m].continues : m \in taken}
      BY <3>1
    <3> HIDE DEF taken
    <3> QED BY <1>3, <1>6, <3>2, <3>3 DEF CoversPart, B
  <2> QED BY <1>14, <2>1, <2>2, <2>3, CoversParts DEF C
<1> QED BY <1>11, <1>12, <1>13, <1>14 DEF Right

\* A `switch'.
LEMMA SwitchIsRight ==
  ASSUME Shape, NEW n \in Nodes, Is(n, "switch"), \A c \in Children(n) : Right(c)
  PROVE  Right(n)
<1> DEFINE C == Children(n)
           B == Built[n]
           unmatched == ~tree[n].default \/ \E m \in C : Built[m].entry = 0
           leaving == IF unmatched THEN {n} ELSE {}
           E == UNION {Built[m].edges \cup Link({n}, Built[m].entry) : m \in C}
           X == leaving \cup UNION {Built[m].exits \cup Built[m].breaks : m \in C}
           again == UNION {Built[m].continues : m \in C}
<1>1. tree[n].kind = "switch" /\ ~Is(n, "block") /\ n # 0 /\ C \in SUBSET Nodes
  BY NodesAre DEF Is
<1>2. B = Fragment(n, X, {}, again, E)
  <2> DEFINE clauses == {Parts(n)[m] : m \in C}
  <2>1. B = Switch(n, Parts(n))
    BY <1>1, BuiltIs DEF BuiltStep, Is
  <2>2. \A m \in C : Parts(n)[m] = Built[m]
    BY DEF Parts
  <2>3. clauses = {Built[m] : m \in C}
    BY <2>2
  <2>4. Switch(n, Parts(n)) =
          Fragment(n, (IF ~tree[n].default \/ \E p \in clauses : p.entry = 0 THEN {n} ELSE {})
                        \cup UNION {p.exits \cup p.breaks : p \in clauses},
                   {}, UNION {p.continues : p \in clauses},
                   UNION {p.edges \cup Link({n}, p.entry) : p \in clauses})
    BY DEF Switch
  <2> HIDE DEF clauses, C
  <2>5. (\E p \in clauses : p.entry = 0) <=> \E m \in C : Built[m].entry = 0
    BY <2>3
  <2>6. UNION {p.exits \cup p.breaks : p \in clauses}
          = UNION {Built[m].exits \cup Built[m].breaks : m \in C}
    BY <2>3
  <2>7. UNION {p.continues : p \in clauses} = again
    BY <2>3
  <2>8. UNION {p.edges \cup Link({n}, p.entry) : p \in clauses} = E
    BY <2>3
  <2> QED BY <2>1, <2>4, <2>5, <2>6, <2>7, <2>8
<1>3. B.entry = n /\ B.exits = X /\ B.edges = E /\ B.breaks = {} /\ B.continues = again
  <2> HIDE DEF E, X, again
  <2> QED BY <1>2 DEF Fragment
<1>5. \A m \in C : Kept(m)
  <2>1. \A m \in C : Parent(m) = n
    BY NodesAre
  <2> QED BY <1>1, <2>1 DEF Kept, Is
<1>6. \A m \in C : After[m] = After[n] /\ Typed(m) /\ Entered(m) /\ Keeps(m) /\ Follows(m) /\ Leaves(m)
  BY AfterPart DEF Right
<1>7. Steps(n) = (UNION {Begin(m) : m \in C}) \cup (IF tree[n].default THEN {} ELSE After[n])
  BY <1>1 DEF Steps, Is
<1>8. \A e \in E : \E c \in C : e \in Built[c].edges \/ e \in Link({n}, Built[c].entry)
  <2> HIDE DEF C
  <2> QED OBVIOUS
<1>9. \A m \in C : Begin(m) \subseteq Steps(n)
  <2> HIDE DEF C
  <2> QED BY <1>7
<1>10. unmatched => After[n] \subseteq Steps(n)
  <2>1. CASE ~tree[n].default
    BY <1>7, <2>1
  <2>2. ASSUME NEW m \in C, Built[m].entry = 0 PROVE After[n] \subseteq Steps(n)
    <3>1. m \in Nodes /\ First[m] = {}
      BY <1>1, <1>6, <2>2, EntryIs
    <3>2. Begin(m) = After[n]
      BY <1>6, <3>1 DEF Begin
    <3> QED BY <1>9, <3>2
  <2> QED BY <2>1, <2>2
<1>11. \A m \in C : \A x \in Built[m].breaks : Steps(x) = After[n]
  BY <1>1, <1>6, JumpsOut
<1> HIDE DEF C
<1>12. \A x \in X : (x = n /\ unmatched) \/ \E m \in C : x \in Built[m].exits \cup Built[m].breaks
  <2> HIDE DEF unmatched
  <2> QED OBVIOUS
<1>13. \A m \in C : /\ Built[m].edges \subseteq E /\ Built[m].exits \subseteq X
                    /\ Built[m].breaks \subseteq X /\ Built[m].continues \subseteq again
                    /\ Link({n}, Built[m].entry) \subseteq E
  <2>1. \A m \in C : Built[m].edges \cup Link({n}, Built[m].entry) \subseteq E
    OBVIOUS
  <2>2. \A m \in C : Built[m].exits \cup Built[m].breaks \subseteq X
    <3> HIDE DEF unmatched
    <3> QED OBVIOUS
  <2>3. \A m \in C : Built[m].continues \subseteq again
    OBVIOUS
  <2> HIDE DEF E, X, again
  <2> QED BY <2>1, <2>2, <2>3
<1> HIDE DEF E, X, B, unmatched
<1>20. MadeOf(n)
  <2>1. \A e \in E : \E c \in C : \/ e \in Built[c].edges
                                  \/ Kept(c) /\ First[c] # {} /\ e = <<n, Built[c].entry>>
    <3> SUFFICES ASSUME NEW e \in E, NEW c \in C, e \in Link({n}, Built[c].entry)
                 PROVE  First[c] # {} /\ e = <<n, Built[c].entry>>
      BY <1>5, <1>8
    <3>1. First[c] # {} /\ e \in {n} \X {Built[c].entry}
      BY <1>6, IntoPart DEF C
    <3> QED BY <3>1
  <2>2. \A x \in again : \E c \in C : x \in Built[c].continues
    OBVIOUS
  <2> HIDE DEF again
  <2> QED BY <1>3, <1>12, <2>1, <2>2 DEF MadeOf, B, C
<1>21. Typed(n) /\ Entered(n) /\ Keeps(n)
  BY <1>1, <1>2, <1>6, <1>20, MadeWell DEF B, C
<1>22. Follows(n)
  <2>1. ASSUME NEW e \in E PROVE e[2] \in Steps(e[1])
    <3>1. PICK c \in C : e \in Built[c].edges \/ e \in Link({n}, Built[c].entry)
      BY <1>8
    <3>2. CASE e \in Built[c].edges
      BY <1>6, <3>2 DEF Follows
    <3>3. CASE e \in Link({n}, Built[c].entry)
      <4>1. Begin(c) = {Built[c].entry} /\ e \in {n} \X {Built[c].entry}
        BY <1>6, <3>3, IntoPart DEF C
      <4> QED BY <1>9, <3>3, <4>1
    <3> QED BY <3>1, <3>2, <3>3
  <2>2. ASSUME NEW x \in X PROVE After[n] \subseteq Steps(x)
    <3>1. CASE x = n /\ unmatched
      BY <1>10, <3>1
    <3>2. ASSUME NEW m \in C, x \in Built[m].exits PROVE After[n] \subseteq Steps(x)
      BY <1>6, <3>2 DEF Follows
    <3>3. ASSUME NEW m \in C, x \in Built[m].breaks PROVE After[n] \subseteq Steps(x)
      BY <1>11, <3>3
    <3> QED BY <1>12, <3>1, <3>2, <3>3
  <2> QED BY <1>3, <2>1, <2>2 DEF Follows, B
<1>23. Leaves(n)
  <2>1. \A c \in C : \A x \in Built[c].continues :
          Is(x, "continue") /\ Inside(x, {"while", "do"}) \cap Sub(n) = {}
    BY <1>1, <1>6, JumpsOut DEF C
  <2> QED BY <1>3, <2>1 DEF Leaves, B
<1>24. ASSUME NoHollowBranch PROVE Covers(n)
  <2>1. \A m \in C : Covers(m)
    BY <1>24 DEF Right, C
  <2>2. Goes(n, n)
    <3> SUFFICES ASSUME NEW y \in Steps(n)
                 PROVE  <<n, y>> \in E \/ (n \in X /\ y \in After[n])
      BY <1>3 DEF Goes, B
    <3>1. unmatched => n \in X
      BY DEF X
    <3>2. ASSUME NEW m \in C, y \in Begin(m), First[m] # {} PROVE <<n, y>> \in E
      <4>1. y = Built[m].entry /\ <<n, y>> \in Link({n}, Built[m].entry)
        BY <1>6, <3>2, IntoPart DEF C
      <4> QED BY <1>13, <4>1
    <3>3. ASSUME NEW m \in C, y \in Begin(m), First[m] = {} PROVE unmatched /\ y \in After[n]
      BY <1>6, <3>3, IntoPart DEF C, unmatched
    <3>4. ASSUME ~tree[n].default, y \in After[n] PROVE unmatched
      BY <3>4 DEF unmatched
    <3> QED BY <1>7, <3>1, <3>2, <3>3, <3>4
  <2>3. ASSUME NEW c \in C PROVE CoversPart(n, c)
    <3>1. \A x \in Built[c].breaks : Goes(x, n)
      BY <1>3, <1>11, <1>13 DEF Goes, B
    <3> HIDE DEF again
    <3> QED BY <1>3, <1>6, <1>13, <3>1 DEF CoversPart, B
  <2> QED BY <1>24, <2>1, <2>2, <2>3, CoversParts DEF C
<1> QED BY <1>21, <1>22, <1>23, <1>24 DEF Right

\* A loop has one part.
LEMMA LoopIs ==
  ASSUME Shape, Complete, NEW n \in Nodes, tree[n].kind \in {"while", "do"}
  PROVE  LET c == Min(Children(n))
         IN /\ Children(n) = {c} /\ c \in Nodes /\ Parent(c) = n /\ n # 0 /\ c \in Children(n)
            /\ Built[n] = Loop(n, Built[c])
<1> DEFINE c == Min(Children(n))
<1>1. Children(n) # {}
  BY DEF Complete
<1>2. Children(n) = {c} /\ c \in Children(n)
  BY <1>1, PartsAre
<1>3. c \in Nodes /\ Parent(c) = n /\ n # 0
  BY <1>2, NodesAre
<1>4. Built[n] = Loop(n, Parts(n)[c])
  BY BuiltIs DEF BuiltStep, Is
<1>5. Parts(n)[c] = Built[c]
  BY <1>2 DEF Parts
<1> QED BY <1>2, <1>3, <1>4, <1>5

\* A `while'.
LEMMA WhileIsRight ==
  ASSUME Shape, Complete, NEW n \in Nodes, Is(n, "while"), \A c \in Children(n) : Right(c)
  PROVE  Right(n)
<1> DEFINE c == Min(Children(n))
           B == Built[n]
           body == Built[c]
           entered == May(n, "true")
           X == (IF May(n, "false") THEN {n} ELSE {}) \cup (IF entered THEN body.breaks ELSE {})
           E == body.edges \cup (IF entered THEN Link({n}, body.entry)
                                                   \cup Link(body.exits \cup body.continues, n)
                                 ELSE {})
<1>1. tree[n].kind = "while" /\ ~Is(n, "block") /\ ~Is(n, "do")
  BY DEF Is
<1>2. /\ Children(n) = {c} /\ c \in Nodes /\ Parent(c) = n /\ n # 0 /\ c \in Children(n)
      /\ B = Loop(n, body)
  BY <1>1, LoopIs
<1>3. B = Fragment(n, X, {}, {}, E)
  BY <1>1, <1>2 DEF Loop, WhileLoop
<1>4. B.entry = n /\ B.exits = X /\ B.edges = E /\ B.breaks = {} /\ B.continues = {}
  <2> HIDE DEF E, X
  <2> QED BY <1>3 DEF Fragment
<1>5. Kept(c) <=> entered
  BY <1>1, <1>2 DEF Kept, Is
<1>6. After[c] = {n} /\ Right(c) /\ Typed(c) /\ Entered(c) /\ Keeps(c) /\ Follows(c) /\ Leaves(c)
  BY <1>2, AfterPart DEF Right
<1>7. Steps(n) = (IF entered THEN Begin(c) ELSE {}) \cup (IF May(n, "false") THEN After[n] ELSE {})
  BY <1>1 DEF Steps, Is
<1> HIDE DEF c
<1>8. /\ \A x \in body.breaks : Steps(x) = After[n]
      /\ \A x \in body.continues : Steps(x) = {n}
  BY <1>1, <1>2, <1>6, JumpsOut DEF c
<1>9. /\ \A e \in Link({n}, body.entry) :
           First[c] # {} /\ Begin(c) = {body.entry} /\ e \in {n} \X {body.entry}
      /\ First[c] # {} => Begin(c) = {body.entry} /\ <<n, body.entry>> \in Link({n}, body.entry)
      /\ First[c] = {} => Begin(c) = {n} /\ body = Nothing
  BY <1>2, <1>6, IntoPart
<1>10. Link(body.exits \cup body.continues, n) = (body.exits \cup body.continues) \X {n}
  BY <1>2 DEF Link
<1>11. \A e \in E : \/ e \in body.edges \/ (entered /\ e \in Link({n}, body.entry))
                    \/ (entered /\ e \in (body.exits \cup body.continues) \X {n})
  <2> HIDE DEF entered, body
  <2> QED BY <1>10
<1>12. \A x \in X : (x = n /\ May(n, "false")) \/ (entered /\ x \in body.breaks)
  <2> HIDE DEF entered, body
  <2> QED OBVIOUS
<1>13. /\ body.edges \subseteq E
       /\ entered => /\ Link({n}, body.entry) \subseteq E /\ body.breaks \subseteq X
                     /\ (body.exits \cup body.continues) \X {n} \subseteq E
       /\ May(n, "false") => n \in X
  <2> HIDE DEF entered, body
  <2> QED BY <1>10
<1> HIDE DEF E, X, B, entered
<1>20. MadeOf(n)
  <2>1. \A e \in E : \/ e \in body.edges
                     \/ Kept(c) /\ First[c] # {} /\ e = <<n, body.entry>>
                     \/ \E x \in body.exits \cup body.continues : e = <<x, n>>
    BY <1>5, <1>9, <1>11
  <2> QED BY <1>2, <1>4, <1>12, <2>1 DEF MadeOf, B
<1>21. Typed(n) /\ Entered(n) /\ Keeps(n)
  BY <1>1, <1>2, <1>3, <1>6, <1>20, MadeWell DEF B
<1>22. Follows(n)
  <2>1. ASSUME NEW e \in E PROVE e[2] \in Steps(e[1])
    <3>1. CASE e \in body.edges
      BY <1>6, <3>1 DEF Follows
    <3>2. CASE entered /\ e \in Link({n}, body.entry)
      BY <1>7, <1>9, <3>2
    <3>3. CASE e \in (body.exits \cup body.continues) \X {n}
      <4>1. \A x \in body.exits : n \in Steps(x)
        BY <1>6 DEF Follows
      <4>2. \A x \in body.exits \cup body.continues : n \in Steps(x)
        BY <1>8, <4>1
      <4> HIDE DEF body
      <4> QED BY <3>3, <4>2
    <3> QED BY <1>11, <3>1, <3>2, <3>3
  <2>2. ASSUME NEW x \in X PROVE After[n] \subseteq Steps(x)
    BY <1>7, <1>8, <1>12
  <2> QED BY <1>4, <2>1, <2>2 DEF Follows, B
<1>23. Leaves(n)
  BY <1>4 DEF Leaves, B
<1>24. ASSUME NoHollowBranch PROVE Covers(n)
  <2>1. Covers(c)
    BY <1>6, <1>24 DEF Right
  <2>2. Goes(n, n)
    <3> SUFFICES ASSUME NEW y \in Steps(n)
                 PROVE  <<n, y>> \in E \/ y = n \/ (n \in X /\ y \in After[n])
      BY <1>4 DEF Goes, B
    <3> QED BY <1>7, <1>9, <1>13
  <2>3. ASSUME Kept(c) PROVE CoversPart(n, c)
    <3>1. entered
      BY <1>5, <2>3
    <3>2. \A x \in body.breaks : Goes(x, n)
      BY <1>4, <1>8, <1>13, <3>1 DEF Goes, B
    <3>3. \A x \in body.exits \cup body.continues : <<x, n>> \in E
      BY <1>13, <3>1
    <3>4. \A x \in body.continues : Goes(x, n)
      BY <1>4, <1>8, <3>3 DEF Goes, B
    <3> QED BY <1>4, <1>6, <1>13, <3>2, <3>3, <3>4 DEF CoversPart, B
  <2> QED BY <1>2, <2>1, <2>2, <2>3, CoversParts
<1> QED BY <1>21, <1>22, <1>23, <1>24 DEF Right

\* A `do'.
LEMMA DoIsRight ==
  ASSUME Shape, Complete, NEW n \in Nodes, Is(n, "do"), \A c \in Children(n) : Right(c)
  PROVE  Right(n)
<1> DEFINE c == Min(Children(n))
           B == Built[n]
           body == Built[c]
           tested == body.exits \cup body.continues
           X == (IF May(n, "false") THEN tested ELSE {}) \cup body.breaks
           E == body.edges \cup Link({n}, body.entry)
                  \cup (IF May(n, "true") THEN Link(tested, n) ELSE {})
<1>1. tree[n].kind = "do" /\ ~Is(n, "block")
  BY DEF Is
<1>2. /\ Children(n) = {c} /\ c \in Nodes /\ Parent(c) = n /\ n # 0 /\ c \in Children(n)
      /\ B = Loop(n, body)
  BY <1>1, LoopIs
<1>3. B = Fragment(n, X, {}, {}, E)
  BY <1>1, <1>2 DEF Loop, DoLoop
<1>4. B.entry = n /\ B.exits = X /\ B.edges = E /\ B.breaks = {} /\ B.continues = {}
  <2> HIDE DEF E, X
  <2> QED BY <1>3 DEF Fragment
<1>5. Kept(c)
  BY <1>1, <1>2 DEF Kept, Is
<1>6. Right(c) /\ Typed(c) /\ Entered(c) /\ Keeps(c) /\ Follows(c) /\ Leaves(c)
  BY <1>2 DEF Right
<1>7. After[c] = (IF May(n, "true") THEN {n} ELSE {}) \cup (IF May(n, "false") THEN After[n] ELSE {})
  BY <1>2, AfterPart
<1>8. Steps(n) = Begin(c)
  BY <1>1 DEF Steps, Is
<1> HIDE DEF c
<1>9. /\ \A x \in body.breaks : Steps(x) = After[n]
      /\ \A x \in body.continues : Steps(x) = After[c]
  BY <1>1, <1>2, <1>6, JumpsOut DEF c
<1>10. /\ \A e \in Link({n}, body.entry) :
            First[c] # {} /\ Begin(c) = {body.entry} /\ e \in {n} \X {body.entry}
       /\ First[c] # {} => Begin(c) = {body.entry} /\ <<n, body.entry>> \in Link({n}, body.entry)
  BY <1>2, <1>6, IntoPart
<1>11. Link(tested, n) = tested \X {n}
  BY <1>2 DEF Link
<1> HIDE DEF body
<1>12. \A e \in E : \/ e \in body.edges \/ e \in Link({n}, body.entry)
                    \/ (May(n, "true") /\ e \in tested \X {n})
  <2> HIDE DEF tested
  <2> QED BY <1>11
<1>13. \A x \in X : (x \in tested /\ May(n, "false")) \/ x \in body.breaks
  <2> HIDE DEF tested
  <2> QED OBVIOUS
<1>14. /\ body.edges \subseteq E /\ Link({n}, body.entry) \subseteq E /\ body.breaks \subseteq X
       /\ May(n, "true") => tested \X {n} \subseteq E
       /\ May(n, "false") => tested \subseteq X
  <2> HIDE DEF tested
  <2> QED BY <1>11
<1>15. \A x \in tested : After[c] \subseteq Steps(x)
  BY <1>6, <1>9 DEF Follows, body
<1> HIDE DEF E, X, B
<1>20. MadeOf(n)
  <2>1. \A e \in E : \/ e \in body.edges
                     \/ Kept(c) /\ First[c] # {} /\ e = <<n, body.entry>>
                     \/ \E x \in body.exits \cup body.continues : e = <<x, n>>
    BY <1>5, <1>10, <1>12
  <2> QED BY <1>2, <1>4, <1>13, <2>1 DEF MadeOf, B, body
<1>21. Typed(n) /\ Entered(n) /\ Keeps(n)
  BY <1>1, <1>2, <1>3, <1>6, <1>20, MadeWell DEF B
<1>22. Follows(n)
  <2>1. ASSUME NEW e \in E PROVE e[2] \in Steps(e[1])
    <3>1. CASE e \in body.edges
      BY <1>6, <3>1 DEF Follows, body
    <3>2. CASE e \in Link({n}, body.entry)
      BY <1>8, <1>10, <3>2
    <3>3. CASE May(n, "true") /\ e \in tested \X {n}
      <4> HIDE DEF tested
      <4> QED BY <1>7, <1>15, <3>3
    <3> QED BY <1>12, <3>1, <3>2, <3>3
  <2>2. ASSUME NEW x \in X PROVE After[n] \subseteq Steps(x)
    <3> HIDE DEF tested
    <3> QED BY <1>7, <1>9, <1>13, <1>15
  <2> QED BY <1>4, <2>1, <2>2 DEF Follows, B
<1>23. Leaves(n)
  BY <1>4 DEF Leaves, B
<1>24. ASSUME NoHollowBranch PROVE Covers(n)
  <2>1. Covers(c) /\ First[c] # {}
    <3>1. c \in Nodes /\ Parent(c) = n /\ n # 0
      BY <1>2, NodesAre
    <3> QED BY <1>1, <1>2, <1>6, <1>24, <3>1 DEF Right, NoHollowBranch, LosesTheWay, Is
  <2>2. Goes(n, n)
    <3> SUFFICES ASSUME NEW y \in Steps(n) PROVE <<n, y>> \in E
      BY <1>4 DEF Goes, B
    <3> QED BY <1>8, <1>10, <1>14, <2>1
  <2>3. CoversPart(n, c)
    <3>1. \A x \in body.breaks : Goes(x, n)
      BY <1>4, <1>9, <1>14 DEF Goes, B
    <3>2. \A x \in tested : \A y \in After[c] : <<x, y>> \in E \/ (x \in X /\ y \in After[n])
      <4> HIDE DEF tested
      <4> QED BY <1>7, <1>14
    <3>3. \A x \in body.continues : Goes(x, n)
      BY <1>4, <1>9, <3>2 DEF Goes, B
    <3> QED BY <1>4, <1>14, <3>1, <3>2, <3>3 DEF CoversPart, B, body
  <2> QED BY <1>2, <2>1, <2>2, <2>3, CoversParts
<1> QED BY <1>21, <1>22, <1>23, <1>24 DEF Right

\* What a block is built from.
LEMMA BlockIs ==
  ASSUME Shape, NEW n \in Nodes, Is(n, "block"),
         \A c \in Children(n) : Typed(c) /\ Entered(c)
  PROVE  JoinedRight(n, Len(tree), Built[n])
         /\ Begun(n, Len(tree)) = {c \in Children(n) : First[c] # {}}
<1>1. Built[n] = Joined(n)[Len(tree)]
  BY BuiltIs DEF BuiltStep, Joined, Is
<1>2. Len(tree) \in n..Len(tree)
  BY NodesAre
<1>3. \A c \in Children(n) : c <= Len(tree)
  BY NodesAre
<1> QED BY <1>1, <1>2, <1>3, JoinedAll DEF Begun

\* What comes before a part, c, of a block that there is anything in: nothing,
\* or a part that goes on to c.
LEMMA PartBefore ==
  ASSUME Shape, NEW n \in Nodes, Is(n, "block"),
         \A c \in Children(n) : Typed(c) /\ Entered(c),
         NEW c \in Children(n), First[c] # {}
  PROVE  LET b == Joined(n)[c - 1]
         IN \/ Begun(n, c - 1) = {} /\ b.entry = 0 /\ Linked(n, c) = {}
            \/ \E a \in Children(n) :
                 /\ First[a] # {} /\ a < c
                 /\ \A k \in Children(n) : k < c /\ First[k] # {} => k <= a
                 /\ After[a] = First[c] /\ First[c] = {Built[c].entry}
                 /\ b.exits \subseteq Built[a].exits /\ (Kept(a) => b.exits = Built[a].exits)
                 /\ Linked(n, c) = b.exits \X {Built[c].entry}
                 /\ (Linked(n, c) # {} => Kept(c))
<1> DEFINE b == Joined(n)[c - 1]
           A == Begun(n, c - 1)
<1>1. c \in Nodes /\ Parent(c) = n /\ n < c /\ c <= Len(tree) /\ c - 1 \in n..Len(tree)
      /\ Len(tree) \in Nat /\ \A k \in Children(n) : k \in Nat /\ k \in Nodes
  BY NodesAre
<1>2. JoinedRight(n, c - 1, b)
  BY <1>1, JoinedAll
<1>3. A = {k \in Children(n) : k < c /\ First[k] # {}}
  <2>1. \A k \in Children(n) : k <= c - 1 <=> k < c
    BY <1>1
  <2> QED BY <2>1 DEF Begun
<1>4. CASE A = {}
  <2>1. b.entry = 0
    BY <1>2, <1>4 DEF JoinedRight, Nothing, Fragment
  <2>2. Linked(n, c) = {}
    BY <2>1 DEF Linked
  <2> QED BY <1>4, <2>1, <2>2
<1>5. CASE A # {}
  <2>1. PICK first \in A, a \in A :
          /\ \A k \in A : first <= k /\ k <= a
          /\ b.entry = Built[first].entry
          /\ b.exits \subseteq Built[a].exits /\ (Kept(a) => b.exits = Built[a].exits)
    BY <1>2, <1>5 DEF JoinedRight, EndsRight
  <2>2. b.entry # 0
    BY <1>1, <1>3, <2>1, EntryIs
  <2>3. a \in Children(n) /\ First[a] # {} /\ a < c
    BY <1>3
  <2>4. \A k \in Children(n) : k < c /\ First[k] # {} => k <= a
    BY <1>3, <2>1
  <2>5. \A k \in Children(n) : k > a /\ First[k] # {} => c <= k
    <3> SUFFICES ASSUME NEW k \in Children(n), k > a, First[k] # {}, ~(c <= k) PROVE FALSE
      OBVIOUS
    <3>1. k < c /\ k \in Nat /\ a \in Nat
      BY <1>1, <2>3
    <3>2. k <= a
      BY <2>4, <3>1
    <3> QED BY <3>1, <3>2
  <2>6. After[a] = First[c]
    <3>1. c > a
      BY <1>1, <2>3
    <3> QED BY <2>3, <2>5, <3>1, AfterInBlock
  <2>7. First[c] = {Built[c].entry} /\ Built[c].entry # 0
    BY <1>1, EntryIs
  <2>8. Linked(n, c) = b.exits \X {Built[c].entry}
    BY <2>2, <2>7 DEF Linked, Link
  <2>9. Linked(n, c) # {} => Kept(c)
    <3>1. Linked(n, c) # {} => b.exits # {}
      BY <2>8
    <3>2. ~Is(n, "if") /\ ~Is(n, "while")
      BY DEF Is
    <3> QED BY <1>1, <3>1, <3>2 DEF Kept
  <2> QED BY <2>1, <2>3, <2>4, <2>6, <2>7, <2>8, <2>9
<1> QED BY <1>4, <1>5

\* A block.
LEMMA BlockIsRight ==
  ASSUME Shape, NEW n \in Nodes, Is(n, "block"), \A c \in Children(n) : Right(c)
  PROVE  Right(n)
<1> DEFINE C == Children(n)
           B == {c \in C : First[c] # {}}
           b == Built[n]
<1>1. /\ C \in SUBSET Nodes /\ \A c \in C : Parent(c) = n /\ c \in Nat
      /\ ~Is(n, "if") /\ ~Is(n, "while") /\ Len(tree) \in Nat
  BY NodesAre DEF Is
<1>2. \A c \in C : Typed(c) /\ Entered(c) /\ Keeps(c) /\ Follows(c) /\ Leaves(c)
  BY DEF Right
<1>3. JoinedRight(n, Len(tree), b) /\ Begun(n, Len(tree)) = B
  BY <1>2, BlockIs
<1>4. /\ b \in FragmentType /\ (B = {} => b = Nothing)
      /\ \A c \in B : Built[c].edges \cup Linked(n, c) \subseteq b.edges
      /\ \A e \in b.edges : \E c \in B : e \in Built[c].edges \cup Linked(n, c)
      /\ b.breaks = UNION {Built[c].breaks : c \in B}
      /\ b.continues = UNION {Built[c].continues : c \in B}
  BY <1>3 DEF JoinedRight
<1>5. ASSUME B # {}
      PROVE  \E first, last \in B :
               /\ \A c \in B : first <= c /\ c <= last
               /\ b.entry = Built[first].entry
               /\ b.exits \subseteq Built[last].exits /\ (Kept(last) => b.exits = Built[last].exits)
  BY <1>3, <1>5 DEF JoinedRight, EndsRight
<1>6. \A c \in C \ B : Built[c] = Nothing
  BY <1>1, <1>2, EntryIs
<1>7. \A c \in B : First[c] = {Built[c].entry}
  BY <1>1, <1>2, EntryIs
<1> HIDE DEF B, b
<1>8. B \subseteq C /\ \A c \in C : c \in B <=> First[c] # {}
  BY DEF B
<1>9. ASSUME NEW c \in B
      PROVE  \/ Begun(n, c - 1) = {} /\ Joined(n)[c - 1].entry = 0 /\ Linked(n, c) = {}
             \/ \E a \in B :
                  /\ a < c /\ \A k \in B : k < c => k <= a
                  /\ After[a] = {Built[c].entry} /\ Joined(n)[c - 1].exits \subseteq Built[a].exits
                  /\ Kept(a) => Joined(n)[c - 1].exits = Built[a].exits
                  /\ Linked(n, c) = Joined(n)[c - 1].exits \X {Built[c].entry}
                  /\ Linked(n, c) # {} => Kept(c)
  BY <1>2, <1>8, PartBefore
<1>10. ASSUME NEW c \in C
       PROVE  /\ Built[c].exits \subseteq Sub(n) /\ Built[c].breaks \subseteq Sub(n)
              /\ Built[c].continues \subseteq Sub(n) /\ Built[c].edges \subseteq Sub(n) \X Sub(n)
              /\ First[c] # {} => Built[c].entry \in Sub(n)
  BY <1>2, SubIs DEF Typed, Entered
<1>11. Typed(n)
  <2>1. b.edges \subseteq Sub(n) \X Sub(n)
    <3> SUFFICES ASSUME NEW e \in b.edges PROVE e \in Sub(n) \X Sub(n)
      OBVIOUS
    <3>1. PICK c \in B : e \in Built[c].edges \cup Linked(n, c)
      BY <1>4
    <3>2. CASE e \in Linked(n, c)
      <4>1. PICK a \in B : e \in Built[a].exits \X {Built[c].entry}
        BY <1>9, <3>2
      <4> QED BY <1>8, <1>10, <4>1
    <3> QED BY <1>8, <1>10, <3>1, <3>2
  <2>2. b.exits \subseteq Sub(n)
    <3>1. CASE B = {}
      BY <1>4, <3>1 DEF Nothing, Fragment
    <3>2. CASE B # {}
      BY <1>5, <1>8, <1>10, <3>2
    <3> QED BY <3>1, <3>2
  <2>3. b.breaks \subseteq Sub(n) /\ b.continues \subseteq Sub(n)
    BY <1>4, <1>8, <1>10
  <2> QED BY <1>4, <2>1, <2>2, <2>3 DEF Typed, b
<1>12. Entered(n)
  <2>1. First[n] = IF B = {} THEN {} ELSE First[Min(B)]
    BY FirstIs DEF FirstStep, B
  <2>2. CASE B = {}
    BY <1>4, <2>1, <2>2 DEF Entered, b
  <2>3. CASE B # {}
    <3>1. PICK first \in B : b.entry = Built[first].entry /\ \A c \in B : first <= c
      BY <1>5, <2>3
    <3>2. Min(B) = first
      BY <1>1, <1>8, <3>1, MinIs
    <3>3. First[n] = {b.entry} /\ First[first] # {}
      BY <1>7, <1>8, <2>1, <2>3, <3>1, <3>2
    <3>4. b.entry \in Sub(first) /\ ~Is(b.entry, "block") /\ Live(b.entry, first)
      BY <1>2, <1>8, <3>1, <3>3 DEF Entered
    <3>5. Kept(first)
      <4>1. ~(\E a \in B : a < first)
        BY <1>1, <1>8, <3>1
      <4>2. Joined(n)[first - 1].entry = 0
        BY <1>9, <4>1
      <4> QED BY <1>1, <1>8, <4>2 DEF Kept
    <3>6. Live(b.entry, n) /\ b.entry \in Sub(n)
      BY <1>8, <3>4, <3>5, LiveIn, SubIs
    <3> QED BY <3>3, <3>4, <3>6 DEF Entered, b
  <2> QED BY <2>2, <2>3
<1>13. Keeps(n)
  <2> SUFFICES ASSUME NEW e \in b.edges, Live(e[1], n)
               PROVE  ~Is(e[2], "block") /\ Live(e[2], n)
    BY DEF Keeps, b
  <2>1. PICK c \in B : e \in Built[c].edges \cup Linked(n, c)
    BY <1>4
  <2>2. CASE e \in Built[c].edges
    <3>1. e[1] \in Sub(c) /\ e[2] \in Sub(c)
      BY <1>2, <1>8, <2>2 DEF Typed
    <3>2. Kept(c) /\ Live(e[1], c)
      BY <1>8, <3>1, LiveIn
    <3>3. ~Is(e[2], "block") /\ Live(e[2], c)
      BY <1>2, <1>8, <2>2, <3>2 DEF Keeps
    <3> QED BY <1>8, <3>1, <3>2, <3>3, LiveIn
  <2>3. CASE e \in Linked(n, c)
    <3>1. Kept(c) /\ e[2] = Built[c].entry
      BY <1>9, <2>3
    <3>2. e[2] \in Sub(c) /\ ~Is(e[2], "block") /\ Live(e[2], c)
      BY <1>2, <1>8, <3>1 DEF Entered
    <3> QED BY <1>8, <3>1, <3>2, LiveIn
  <2> QED BY <2>1, <2>2, <2>3
<1>14. ASSUME NEW c \in B, \A k \in B : k <= c PROVE After[c] = After[n]
  <2>1. \A d \in C : d > c => First[d] = {}
    <3> SUFFICES ASSUME NEW d \in C, d > c, d \in B PROVE FALSE
      BY <1>8
    <3>1. d <= c /\ d \in Nat /\ c \in Nat
      BY <1>1, <1>8, <1>14
    <3> QED BY <3>1
  <2> QED BY <1>8, <2>1, AfterInBlock
<1>15. Follows(n)
  <2>1. ASSUME NEW e \in b.edges PROVE e[2] \in Steps(e[1])
    <3>1. PICK c \in B : e \in Built[c].edges \cup Linked(n, c)
      BY <1>4
    <3>2. CASE e \in Built[c].edges
      BY <1>2, <1>8, <3>2 DEF Follows
    <3>3. CASE e \in Linked(n, c)
      <4>1. PICK a \in B : /\ After[a] = {Built[c].entry}
                           /\ e \in Built[a].exits \X {Built[c].entry}
        BY <1>9, <3>3
      <4>2. After[a] \subseteq Steps(e[1])
        BY <1>2, <1>8, <4>1 DEF Follows
      <4> QED BY <4>1, <4>2
    <3> QED BY <3>1, <3>2, <3>3
  <2>2. ASSUME NEW x \in b.exits PROVE After[n] \subseteq Steps(x)
    <3>1. B # {}
      BY <1>4, <2>2 DEF Nothing, Fragment
    <3>2. PICK last \in B : b.exits \subseteq Built[last].exits /\ \A c \in B : c <= last
      BY <1>5, <3>1
    <3>3. After[last] = After[n]
      BY <1>14, <3>2
    <3> QED BY <1>2, <1>8, <2>2, <3>2, <3>3 DEF Follows
  <2> QED BY <2>1, <2>2 DEF Follows, b
<1>16. Leaves(n)
  <2>1. tree[n].kind \notin {"while", "do", "switch"}
    BY DEF Is
  <2>2. \A c \in C : /\ \A x \in Built[c].breaks :
                          Is(x, "break") /\ Inside(x, {"while", "do", "switch"}) \cap Sub(n) = {}
                     /\ \A x \in Built[c].continues :
                          Is(x, "continue") /\ Inside(x, {"while", "do"}) \cap Sub(n) = {}
    BY <1>2, <2>1, JumpsOut
  <2> QED BY <1>4, <1>8, <2>2 DEF Leaves, b
<1>17. ASSUME NoHollowBranch PROVE Covers(n)
  <2>1. \A c \in C : Covers(c)
    BY <1>17 DEF Right
  <2>2. ASSUME NEW c \in B, Kept(c), NEW x \in Built[c].exits, NEW y \in After[c]
        PROVE  <<x, y>> \in b.edges \/ (x \in b.exits /\ y \in After[n])
    <3> DEFINE later == {d \in B : d > c}
    <3>1. later \in SUBSET Nat /\ c \in Nat /\ B \in SUBSET Nat
      BY <1>1, <1>8
    <3>2. CASE later = {}
      <4>1. \A k \in B : k <= c
        <5> SUFFICES ASSUME NEW k \in B, ~(k <= c) PROVE FALSE
          OBVIOUS
        <5>1. k > c
          BY <3>1
        <5>2. k \in later
          BY <5>1
        <5> QED BY <3>2, <5>2
      <4>2. PICK last \in B : /\ \A k \in B : k <= last
                              /\ Kept(last) => b.exits = Built[last].exits
        BY <1>5
      <4>3. last = c
        <5>1. last <= c /\ c <= last /\ last \in Nat
          BY <3>1, <4>1, <4>2
        <5> QED BY <3>1, <5>1
      <4> QED BY <1>14, <2>2, <4>1, <4>2, <4>3
    <3>3. CASE later # {}
      <4> DEFINE d == Min(later)
      <4>1. d \in later /\ \A k \in later : d <= k
        BY <3>1, <3>3, MinOf
      <4>2. d \in B /\ d > c /\ d \in Nat
        BY <3>1, <4>1
      <4> HIDE DEF d, later
      <4>3. PICK a \in B : /\ a < d /\ \A k \in B : k < d => k <= a
                           /\ After[a] = {Built[d].entry}
                           /\ Kept(a) => Joined(n)[d - 1].exits = Built[a].exits
                           /\ Linked(n, d) = Joined(n)[d - 1].exits \X {Built[d].entry}
        <5>1. Begun(n, d - 1) # {}
          <6>1. c <= d - 1
            BY <3>1, <4>2
          <6> QED BY <1>8, <6>1 DEF Begun
        <5> QED BY <1>9, <4>2, <5>1
      <4>4. a = c
        <5>1. c <= a /\ a \in Nat
          BY <3>1, <4>2, <4>3
        <5>2. a > c => FALSE
          <6> SUFFICES ASSUME a > c PROVE FALSE
            OBVIOUS
          <6>1. a \in later
            BY DEF later
          <6>2. d <= a
            BY <4>1, <6>1
          <6> QED BY <4>2, <4>3, <5>1, <6>2
        <5> QED BY <3>1, <5>1, <5>2
      <4>5. y = Built[d].entry /\ <<x, y>> \in Linked(n, d)
        BY <2>2, <4>3, <4>4
      <4> QED BY <1>4, <4>2, <4>5
    <3> QED BY <3>2, <3>3
  <2>3. ASSUME NEW c \in C, Kept(c) PROVE CoversPart(n, c)
    <3>1. CASE c \in B
      <4>1. /\ Built[c].edges \subseteq b.edges /\ Built[c].breaks \subseteq b.breaks
            /\ Built[c].continues \subseteq b.continues
        BY <1>4, <3>1
      <4> QED BY <2>2, <2>3, <3>1, <4>1 DEF CoversPart, b
    <3>2. CASE c \notin B
      <4>1. Built[c].edges = {} /\ Built[c].exits = {} /\ Built[c].breaks = {}
            /\ Built[c].continues = {}
        BY <1>6, <3>2 DEF Nothing, Fragment
      <4> QED BY <4>1 DEF CoversPart
    <3> QED BY <3>1, <3>2
  <2> QED BY <1>17, <2>1, <2>3, CoversParts
<1> QED BY <1>11, <1>12, <1>13, <1>15, <1>16, <1>17 DEF Right

\* Every statement is built right.
LEMMA AllRight ==
  ASSUME Shape, Complete
  PROVE  \A n \in Nodes : Right(n)
<1> DEFINE S == {n \in Nodes : Right(n)}
<1>1. ASSUME NEW n \in Nodes, Children(n) \subseteq S PROVE n \in S
  <2>1. \A c \in Children(n) : Right(c)
    BY <1>1
  <2>2. CASE tree[n].kind \in {"block", "if", "switch", "while", "do"}
    BY <2>1, <2>2, BlockIsRight, IfIsRight, SwitchIsRight, WhileIsRight, DoIsRight DEF Is
  <2>3. CASE tree[n].kind \notin {"block", "if", "switch", "while", "do"}
    BY <2>3, PlainIsRight
  <2> QED BY <2>2, <2>3
<1>2. Nodes \subseteq S
  <2> HIDE DEF S
  <2> QED BY <1>1, DownInduction
<1> QED BY <1>2
----------------------------------------------------------------------------
(* What is reachable.                                                      *)

Further(edges, near) == near \cup {e[2] : e \in {d \in edges : d[1] \in near}}
WithinStep(g, f, i) == IF i = 0 THEN {g.entry} \ {0} ELSE Further(g.edges, f[i - 1])

\* Reachable is reached by going on along the edges.
LEMMA WithinIs ==
  ASSUME Len(tree) \in Nat, NEW g
  PROVE  \E within : /\ Reachable(g) = within[Len(tree)]
                     /\ \A i \in 0..Len(tree) : within[i] = WithinStep(g, within, i)
<1> DEFINE Top == Len(tree)
           IsFor(f, k) == f = [i \in 0..k |-> WithinStep(g, f, i)]
           S == {k \in Nat : \E f : IsFor(f, k)}
           W == CHOOSE f : IsFor(f, Top)
<1>1. 0 \in S
  <2> DEFINE first == [i \in 0..0 |-> {g.entry} \ {0}]
  <2>1. \A i \in 0..0 : i = 0 /\ WithinStep(g, first, i) = {g.entry} \ {0}
    BY DEF WithinStep
  <2> HIDE DEF S
  <2>2. IsFor(first, 0)
    BY <2>1
  <2> HIDE DEF IsFor
  <2> QED BY <2>2 DEF S
<1>2. ASSUME NEW k \in Nat, k \in S PROVE k + 1 \in S
  <2> HIDE DEF IsFor
  <2>1. PICK f : IsFor(f, k)
    BY <1>2
  <2> DEFINE new == WithinStep(g, f, k + 1)
             h == [i \in 0..k + 1 |-> IF i = k + 1 THEN new ELSE f[i]]
  <2>2. ASSUME NEW i \in 0..k + 1 PROVE h[i] = WithinStep(g, h, i)
    <3>1. i # k + 1 => i \in 0..k
      OBVIOUS
    <3>2. i # 0 => h[i - 1] = f[i - 1]
      <4>1. i # 0 => i - 1 \in 0..k + 1 /\ i - 1 # k + 1
        OBVIOUS
      <4> HIDE DEF new
      <4> QED BY <4>1
    <3>3. WithinStep(g, h, i) = WithinStep(g, f, i)
      <4> HIDE DEF h
      <4> QED BY <3>2 DEF WithinStep
    <3>4. h[i] = WithinStep(g, f, i)
      <4>1. CASE i = k + 1
        BY <4>1
      <4>2. CASE i # k + 1
        <5>1. h[i] = f[i] /\ i \in 0..k
          <6> HIDE DEF new
          <6> QED BY <4>2, <3>1
        <5> HIDE DEF h
        <5> QED BY <2>1, <5>1 DEF IsFor
      <4> QED BY <4>1, <4>2
    <3> HIDE DEF h
    <3> QED BY <3>3, <3>4
  <2>3. IsFor(h, k + 1)
    <3>1. h = [i \in 0..k + 1 |-> h[i]]
      <4> HIDE DEF new
      <4> QED OBVIOUS
    <3> HIDE DEF h
    <3> QED BY <2>2, <3>1 DEF IsFor
  <2> QED BY <2>3
<1>3. \E f : IsFor(f, Top)
  <2>1. Top \in S
    <3> HIDE DEF S
    <3> QED BY <1>1, <1>2, Induction
  <2> QED BY <2>1
<1>4. IsFor(W, Top)
  <2> HIDE DEF IsFor
  <2> QED BY <1>3
<1>5. Reachable(g) = W[Top]
  BY DEF Reachable, WithinStep, Further
<1> HIDE DEF W
<1>6. \A i \in 0..Top : W[i] = WithinStep(g, W, i)
  BY <1>4
<1> QED BY <1>5, <1>6

\* It is closed: after as many rounds as there are statements, nothing is left.
LEMMA ReachableIs ==
  ASSUME Shape, NEW g, g.entry \in Nodes \cup {0}, g.edges \subseteq Nodes \X Nodes
  PROVE  /\ Reachable(g) \subseteq Nodes
         /\ g.entry # 0 => g.entry \in Reachable(g)
         /\ \A e \in g.edges : e[1] \in Reachable(g) => e[2] \in Reachable(g)
<1> DEFINE Top == Len(tree)
           Closed(near) == Further(g.edges, near) \subseteq near
<1>1. Top \in Nat /\ Nodes = 1..Top /\ IsFiniteSet(Nodes) /\ Cardinality(Nodes) = Top
  <2>1. Top \in Nat /\ Nodes = 1..Top /\ 1 \in Int /\ Top \in Int
    BY NodesAre
  <2> HIDE DEF Top
  <2>2. IsFiniteSet(1..Top) /\ Cardinality(1..Top) = IF 1 > Top THEN 0 ELSE Top - 1 + 1
    BY <2>1, FS_Interval
  <2>3. (IF 1 > Top THEN 0 ELSE Top - 1 + 1) = Top
    BY <2>1
  <2> QED BY <2>1, <2>2, <2>3
<1>2. PICK within : /\ Reachable(g) = within[Top]
                    /\ \A i \in 0..Top : within[i] = WithinStep(g, within, i)
  BY <1>1, WithinIs
<1>3. \A near : near \subseteq Nodes => Further(g.edges, near) \subseteq Nodes
  BY DEF Further
<1> HIDE DEF Top
<1> DEFINE S == {i \in Nat : i <= Top =>
                   /\ within[i] \subseteq Nodes /\ (g.entry # 0 => g.entry \in within[i])
                   /\ Closed(within[i]) \/ Cardinality(within[i]) >= i}
<1>4. 0 \in S
  <2>1. within[0] = {g.entry} \ {0}
    BY <1>1, <1>2 DEF WithinStep
  <2>2. within[0] \subseteq Nodes /\ (g.entry # 0 => g.entry \in within[0])
    BY <2>1
  <2>3. Cardinality(within[0]) \in Nat
    BY <1>1, <2>2, FS_Subset, FS_CardinalityType
  <2> QED BY <2>2, <2>3
<1>5. ASSUME NEW i \in Nat, i \in S PROVE i + 1 \in S
  <2> SUFFICES ASSUME i + 1 <= Top
               PROVE  /\ within[i + 1] \subseteq Nodes
                      /\ g.entry # 0 => g.entry \in within[i + 1]
                      /\ Closed(within[i + 1]) \/ Cardinality(within[i + 1]) >= i + 1
    OBVIOUS
  <2> DEFINE near == within[i]
             next == within[i + 1]
  <2>1. /\ near \subseteq Nodes /\ (g.entry # 0 => g.entry \in near)
        /\ Closed(near) \/ Cardinality(near) >= i
    BY <1>1, <1>5
  <2>2. next = Further(g.edges, near)
    <3>1. i + 1 \in 0..Top /\ i + 1 # 0 /\ (i + 1) - 1 = i
      BY <1>1
    <3>2. next = WithinStep(g, within, i + 1)
      BY <1>2, <3>1
    <3> QED BY <3>1, <3>2 DEF WithinStep
  <2> HIDE DEF near, next, S, Closed
  <2>3. near \subseteq next /\ next \subseteq Nodes
    BY <1>3, <2>1, <2>2 DEF Further
  <2>4. CASE Closed(near)
    <3>1. next = near
      BY <2>2, <2>3, <2>4 DEF Closed
    <3> QED BY <2>1, <2>3, <2>4, <3>1 DEF next
  <2>5. CASE ~Closed(near)
    <3>1. near # next
      BY <2>2, <2>5 DEF Closed
    <3>2. IsFiniteSet(next) /\ Cardinality(next) \in Nat
      BY <1>1, <2>3, FS_Subset, FS_CardinalityType
    <3>3. IsFiniteSet(near) /\ Cardinality(near) \in Nat
      BY <3>2, <2>3, FS_Subset, FS_CardinalityType
    <3>4. Cardinality(near) <= Cardinality(next) /\ Cardinality(near) # Cardinality(next)
      BY <2>3, <3>1, <3>2, FS_Subset
    <3>5. Cardinality(next) >= i + 1
      BY <2>1, <2>5, <3>2, <3>3, <3>4
    <3> QED BY <2>1, <2>3, <3>5 DEF next
  <2> QED BY <2>4, <2>5
<1>6. Top \in S
  <2> HIDE DEF S
  <2> QED BY <1>1, <1>4, <1>5, Induction
<1> DEFINE R == within[Top]
<1>7. /\ R \subseteq Nodes /\ (g.entry # 0 => g.entry \in R)
      /\ Closed(R) \/ Cardinality(R) >= Top
  BY <1>1, <1>6
<1> HIDE DEF R, Closed
<1>8. Closed(R)
  <2>1. CASE Cardinality(R) >= Top
    <3>1. /\ IsFiniteSet(R) /\ Cardinality(R) <= Cardinality(Nodes)
          /\ Cardinality(Nodes) = Cardinality(R) => Nodes = R
      BY <1>1, <1>7, FS_Subset
    <3>2. Cardinality(R) \in Nat
      BY <3>1, FS_CardinalityType
    <3>3. Cardinality(R) = Top
      BY <1>1, <2>1, <3>1, <3>2
    <3>4. R = Nodes
      BY <1>1, <3>1, <3>3
    <3> QED BY <1>3, <3>4 DEF Closed
  <2> QED BY <1>7, <2>1
<1>9. \A e \in g.edges : e[1] \in R => e[2] \in R
  BY <1>8 DEF Closed, Further
<1> QED BY <1>2, <1>7, <1>9 DEF R
----------------------------------------------------------------------------
(* The graph of the whole body.                                            *)

Whole == Shape /\ Complete /\ tree # <<>>

\* The body is the first statement, and everything is in it.
LEMMA WholeIs ==
  ASSUME Whole
  PROVE  /\ 1 \in Nodes /\ Nodes \in SUBSET Nat /\ 0 \notin Nodes /\ End \notin Nodes /\ End # 0
         /\ Sub(1) = Nodes /\ After[1] = {End} /\ Right(1)
<1>1. tree \in Seq(StatementType) /\ tree # <<>> /\ Shape
  BY DEF Whole, Shape
<1>2. 1 \in Nodes /\ Nodes \in SUBSET Nat /\ 0 \notin Nodes
  <2>1. Len(tree) # 0 /\ Len(tree) \in Nat
    BY <1>1
  <2> QED BY <1>1, <2>1, NodesAre
<1>3. End \notin Nodes /\ End # 0
  <2>1. \A x \in Nodes : x \in Int
    BY <1>2
  <2>2. 0 \in Int
    OBVIOUS
  <2> QED BY <2>1, <2>2, EndAssumption, Zenon
<1>4. Nodes \subseteq Sub(1)
  <2>1. ASSUME NEW n \in Nodes, n # 1 => Parent(n) \in Sub(1) PROVE n \in Sub(1)
    <3>1. CASE n = 1
      BY <3>1 DEF Sub
    <3>2. CASE n # 1
      BY <1>1, <2>1, <3>2, AroundParent DEF Sub
    <3> QED BY <3>1, <3>2
  <2> QED BY <1>1, <2>1, UpInduction
<1>5. Sub(1) = Nodes
  BY <1>4 DEF Sub
<1>6. After[1] = {End}
  BY <1>1, <1>2, AfterIs, NodesAre DEF AfterStep
<1>7. Right(1)
  BY <1>2, AllRight DEF Whole
<1> QED BY <1>2, <1>3, <1>5, <1>6, <1>7

\* The label that a goto jumps to.
LEMMA JumpIs ==
  ASSUME Whole
  PROVE  /\ \A e \in Jumps : /\ e[1] \in Nodes /\ e[2] \in Nodes /\ e[2] \in Steps(e[1])
                             /\ Is(e[2], "label")
         /\ Jumps \subseteq Nodes \X Nodes
         /\ \A x \in Nodes : Is(x, "goto") =>
              \A y \in Steps(x) : <<x, y>> \in Jumps
<1>1. Nodes \in SUBSET Nat
  BY WholeIs
<1>2. ASSUME NEW name, Labels(name) # {}
      PROVE  Target(name) \in Labels(name) /\ Target(name) = Min(Labels(name))
  <2>1. Labels(name) \in SUBSET Nat
    BY <1>1 DEF Labels
  <2> QED BY <1>2, <2>1, MinOf DEF Target
<1>3. ASSUME NEW x \in Nodes, Is(x, "goto")
      PROVE  Steps(x) = IF Labels(tree[x].name) = {} THEN {} ELSE {Min(Labels(tree[x].name))}
  BY <1>3 DEF Steps, Is
<1>4. ASSUME NEW x \in Nodes, Is(x, "goto"), NEW y \in Steps(x)
      PROVE  <<x, y>> \in Jumps
  <2>1. Labels(tree[x].name) # {} /\ y = Target(tree[x].name)
    BY <1>2, <1>3, <1>4
  <2> QED BY <1>4, <2>1 DEF Jumps
<1>5. ASSUME NEW e \in Jumps
      PROVE  /\ e \in Nodes \X Nodes /\ e[1] \in Nodes /\ e[2] \in Nodes
             /\ e[2] \in Steps(e[1]) /\ Is(e[2], "label")
  <2>1. PICK x \in Nodes : /\ Is(x, "goto") /\ Labels(tree[x].name) # {}
                           /\ e = <<x, Target(tree[x].name)>>
    BY DEF Jumps
  <2>2. Target(tree[x].name) \in Nodes /\ Is(Target(tree[x].name), "label")
    BY <1>2, <2>1 DEF Labels
  <2>3. Target(tree[x].name) \in Steps(x)
    BY <1>2, <1>3, <2>1
  <2> QED BY <2>1, <2>2, <2>3
<1> QED BY <1>4, <1>5

\* What the graph is made of, and that what is reachable is closed.
LEMMA GraphIs ==
  ASSUME Whole
  PROVE  /\ Graph.entry = Built[1].entry /\ Graph.edges = Built[1].edges \cup Jumps
         /\ Graph.exits = Built[1].exits
         /\ Graph.fallsThrough <=> Graph.exits \cap Graph.reachable # {}
         /\ Graph.edges \subseteq Nodes \X Nodes /\ Graph.exits \subseteq Nodes
         /\ Graph.reachable \subseteq Nodes
         /\ First[1] # {} => Built[1].entry \in Graph.reachable
         /\ \A e \in Graph.edges : e[1] \in Graph.reachable => e[2] \in Graph.reachable
<1> DEFINE g == [entry |-> Built[1].entry, edges |-> Built[1].edges \cup Jumps]
<1>1. /\ Graph.entry = Built[1].entry /\ Graph.edges = Built[1].edges \cup Jumps
      /\ Graph.exits = Built[1].exits /\ Graph.reachable = Reachable(g)
      /\ Graph.fallsThrough <=> Built[1].exits \cap Reachable(g) # {}
  BY DEF Graph
<1>2. 1 \in Nodes /\ Typed(1) /\ Entered(1) /\ Shape
  BY WholeIs DEF Right, Whole
<1>3. Built[1].edges \cup Jumps \subseteq Nodes \X Nodes /\ Built[1].exits \subseteq Nodes
  BY <1>2, JumpIs DEF Typed, FragmentType
<1>4. /\ Built[1].entry \in Nodes \cup {0}
      /\ First[1] # {} => Built[1].entry # 0
  BY <1>2, EntryIs
<1>5. g.entry = Built[1].entry /\ g.edges = Built[1].edges \cup Jumps
  OBVIOUS
<1> HIDE DEF g
<1>6. /\ Reachable(g) \subseteq Nodes
      /\ g.entry # 0 => g.entry \in Reachable(g)
      /\ \A e \in g.edges : e[1] \in Reachable(g) => e[2] \in Reachable(g)
  BY <1>2, <1>3, <1>4, <1>5, ReachableIs
<1> QED BY <1>1, <1>3, <1>4, <1>5, <1>6

\* Edges are steps, and execution ends where the exits are.
LEMMA EdgesAreSteps ==
  ASSUME Whole
  PROVE  /\ \A e \in Graph.edges : e[2] \in Steps(e[1])
         /\ \A x \in Graph.exits : End \in Steps(x)
<1>1. Follows(1) /\ After[1] = {End}
  BY WholeIs DEF Right
<1> QED BY <1>1, GraphIs, JumpIs DEF Follows

\* What a step of an execution leads from, and to.
Alive(x) == ~Is(x, "block") /\ Live(x, 1) /\ x \in Graph.reachable

LEMMA StepsAreEdges ==
  ASSUME Whole, Regular, NEW x \in Nodes, Alive(x), NEW y \in Steps(x)
  PROVE  \/ y \in Nodes /\ <<x, y>> \in Graph.edges /\ Alive(y)
         \/ y = End /\ x \in Graph.exits /\ Graph.fallsThrough
         \/ y = x
<1>1. 1 \in Nodes /\ Sub(1) = Nodes /\ After[1] = {End} /\ Right(1)
  BY WholeIs
<1>2. Typed(1) /\ Leaves(1) /\ Keeps(1) /\ Covers(1)
  BY <1>1 DEF Right, Regular
<1>3. Is(x, "goto") \/ x \in Built[1].breaks \/ x \in Built[1].continues \/ Goes(x, 1)
  BY <1>1, <1>2 DEF Covers, Alive
<1>4. \A K : Inside(x, K) \subseteq Nodes
  <2>1. \A m \in Around[x] : m \in Nodes
    BY AroundBefore DEF Whole
  <2> QED BY <2>1 DEF Inside
<1>5. CASE Is(x, "goto")
  <2>1. <<x, y>> \in Jumps
    BY <1>5, JumpIs
  <2>2. y \in Nodes /\ Is(y, "label")
    BY <2>1, JumpIs
  <2>3. <<x, y>> \in Graph.edges
    BY <2>1, GraphIs
  <2>4. y \in Graph.reachable
    BY <2>3, GraphIs DEF Alive
  <2>5. Live(y, 1)
    <3>1. Parent(y) = 0 \/ (Parent(y) = 1 /\ Is(1, "block"))
      BY <2>2 DEF Regular, LabelsOutermost
    <3>2. CASE Parent(y) = 0
      <4>1. y = 1
        BY <2>2, <3>2 DEF Whole, Shape
      <4> QED BY <1>1, <4>1, LiveIn DEF Whole
    <3>3. CASE Parent(y) = 1 /\ Is(1, "block")
      <4>1. y \in Children(1) /\ y \in Sub(y)
        BY <2>2, <3>3, SubIs DEF Children, Whole
      <4>2. Kept(y)
        BY <2>2, <3>3 DEF Kept, Is
      <4>3. Live(y, y)
        BY <2>2, LiveIn DEF Whole
      <4> QED BY <1>1, <4>1, <4>2, <4>3, LiveIn DEF Whole
    <3> QED BY <3>1, <3>2, <3>3
  <2>6. ~Is(y, "block")
    BY <2>2 DEF Is
  <2> QED BY <2>2, <2>3, <2>4, <2>5, <2>6 DEF Alive
<1>6. CASE x \in Built[1].breaks
  <2>1. Is(x, "break") /\ Inside(x, {"while", "do", "switch"}) = {}
    BY <1>1, <1>2, <1>4, <1>6 DEF Leaves
  <2>2. Steps(x) = {}
    BY <2>1 DEF Steps, Is
  <2> QED BY <2>2
<1>7. CASE x \in Built[1].continues
  <2>1. Is(x, "continue") /\ Inside(x, {"while", "do"}) = {}
    BY <1>1, <1>2, <1>4, <1>7 DEF Leaves
  <2>2. Steps(x) = {}
    BY <2>1 DEF Steps, Is
  <2> QED BY <2>2
<1>8. CASE Goes(x, 1)
  <2>1. \/ <<x, y>> \in Built[1].edges \/ y = x
        \/ x \in Built[1].exits /\ y = End
    BY <1>1, <1>8 DEF Goes
  <2>2. CASE <<x, y>> \in Built[1].edges
    <3> DEFINE e == <<x, y>>
    <3>1. e \in Graph.edges /\ e[1] = x /\ e[2] = y
      BY <2>2, GraphIs
    <3>2. y \in Nodes
      BY <3>1, GraphIs
    <3>3. y \in Graph.reachable
      BY <3>1, GraphIs DEF Alive
    <3>4. ~Is(y, "block") /\ Live(y, 1)
      <4>1. Live(e[1], 1) /\ e \in Built[1].edges
        BY <2>2 DEF Alive
      <4> HIDE DEF e
      <4> QED BY <1>2, <3>1, <4>1 DEF Keeps
    <3> QED BY <3>1, <3>2, <3>3, <3>4 DEF Alive
  <2>3. CASE x \in Built[1].exits /\ y = End
    BY <2>3, GraphIs DEF Alive
  <2> QED BY <2>1, <2>2, <2>3
<1> QED BY <1>3, <1>5, <1>6, <1>7, <1>8

\* Execution begins with what is not cut off.
LEMMA BeginsAlive ==
  ASSUME Whole, NEW x \in Begin(1)
  PROVE  x = End \/ (x \in Nodes /\ Alive(x))
<1>1. After[1] = {End} /\ 1 \in Nodes /\ Sub(1) = Nodes /\ Entered(1)
  BY WholeIs DEF Right
<1>2. CASE First[1] = {}
  BY <1>1, <1>2 DEF Begin
<1>3. CASE First[1] # {}
  BY <1>1, <1>3, GraphIs DEF Begin, Entered, Alive
<1> QED BY <1>2, <1>3
----------------------------------------------------------------------------
(* The invariant.                                                          *)

Inv ==
  /\ Shape
  /\ pc \in Nodes \cup {0, End}
  /\ pc = 0 => graph = NoGraph
  /\ pc # 0 => Whole /\ graph = Graph
  /\ pc \in Nodes /\ Regular => Alive(pc)

LEMMA InitInv == Init => Inv
<1> SUFFICES ASSUME Init PROVE Inv
  OBVIOUS
<1>1. tree = <<>> /\ pc = 0 /\ graph = NoGraph
  BY DEF Init
<1>2. Len(tree) = 0 /\ Nodes = {} /\ tree \in Seq(StatementType)
  BY <1>1 DEF Nodes
<1>3. Shape
  BY <1>2, BoundAssumption DEF Shape
<1> QED BY <1>1, <1>2, <1>3 DEF Inv

\* Nothing about the body changes if the body does not.
LEMMA SameTree ==
  ASSUME UNCHANGED tree
  PROVE  /\ (Shape <=> Shape') /\ (Whole <=> Whole') /\ Nodes' = Nodes /\ Graph' = Graph
         /\ (Regular <=> Regular')
         /\ \A x : Alive(x) <=> Alive(x)'
<1>1. /\ Nodes' = Nodes /\ \A n : Children(n)' = Children(n)
  BY DEF Nodes, Children, Parent
<1>2. Shape <=> Shape'
  BY <1>1 DEF Shape, Parent
<1>3. Complete <=> Complete'
  BY <1>1 DEF Complete, Is
<1>4. First' = First
  BY DEF First, Nodes, Is, Children, Parent
<1>5. Regular <=> Regular'
  BY <1>1, <1>4 DEF Regular, NoHollowBranch, LosesTheWay, LabelsOutermost, Is, Parent, May
<1>6. Built' = Built
  BY DEF Built, Nodes, Is, Parent, Children, May, Sequence, Branch, Switch, Loop, Then, Exits,
         Link, DoLoop, WhileLoop, Fragment, Nothing
<1>7. Around' = Around
  BY DEF Around, Nodes, Parent
<1>8. Jumps' = Jumps
  BY DEF Jumps, Labels, Target, Nodes, Is
<1>9. Graph' = Graph
  BY <1>6, <1>8 DEF Graph, Reachable
<1>10. \A n : Joined(n)' = Joined(n)
  BY DEF Joined, Parts, Built, Nodes, Is, Parent, Children, May, Sequence, Branch, Switch, Loop,
         Then, Exits, Link, DoLoop, WhileLoop, Fragment, Nothing
<1>11. \A m : Kept(m) <=> Kept(m)'
  BY <1>1, <1>10 DEF Kept, Is, Parent, May
<1>12. \A x : Alive(x) <=> Alive(x)'
  BY <1>7, <1>9, <1>11 DEF Alive, Live, Is
<1> QED BY <1>1, <1>2, <1>3, <1>5, <1>9, <1>12 DEF Whole

\* Execution stays in the body until it comes to its end.
LEMMA AfterStays ==
  ASSUME Whole
  PROVE  \A n \in Nodes : /\ First[n] \subseteq Nodes /\ After[n] \subseteq Nodes \cup {End}
                          /\ Begin(n) \subseteq Nodes \cup {End}
<1>1. ASSUME NEW n \in Nodes PROVE First[n] \subseteq Nodes
  <2>1. Shape /\ Right(n)
    BY AllRight DEF Whole
  <2> QED BY <2>1, EntryIs DEF Right
<1> DEFINE S == {n \in Nodes : After[n] \subseteq Nodes \cup {End}}
<1>2. ASSUME NEW n \in Nodes, n # 1 => Parent(n) \in S PROVE n \in S
  <2>1. CASE n = 1
    BY <2>1, WholeIs
  <2>2. CASE n # 1
    <3> DEFINE p == Parent(n)
               following == {m \in Children(p) : m > n /\ First[m] # {}}
    <3>1. p \in Nodes /\ p # 0 /\ After[p] \subseteq Nodes \cup {End} /\ Children(p) \in SUBSET Nodes
      BY <1>2, <2>2, NodesAre, WholeIs DEF Whole
    <3>2. following # {} => First[Min(following)] \subseteq Nodes
      <4>1. following \in SUBSET Nat
        BY <3>1, WholeIs
      <4>2. following # {} => Min(following) \in following
        BY <4>1, MinOf
      <4> QED BY <1>1, <3>1, <4>2
    <3>3. After[n] = AfterIn(n, After[p])
      BY <3>1, AfterIs DEF AfterStep, Whole
    <3> HIDE DEF following
    <3>4. AfterIn(n, After[p]) \subseteq Nodes \cup {End}
      <4>1. AfterIn(n, After[p]) =
              CASE Is(p, "block") -> IF following = {} THEN After[p] ELSE First[Min(following)]
                [] Is(p, "while") -> {p}
                [] Is(p, "do") -> (IF May(p, "true") THEN {p} ELSE {})
                                    \cup (IF May(p, "false") THEN After[p] ELSE {})
                [] OTHER -> After[p]
        BY DEF AfterIn, following
      <4> HIDE DEF p
      <4> QED BY <3>1, <3>2, <4>1 DEF Is
    <3> QED BY <3>3, <3>4
  <2> QED BY <2>1, <2>2
<1>3. Nodes \subseteq S
  <2> HIDE DEF S
  <2> QED BY <1>2, UpInduction DEF Whole
<1> QED BY <1>1, <1>3 DEF Begin

LEMMA StepsStay ==
  ASSUME Whole, NEW x \in Nodes
  PROVE  Steps(x) \subseteq Nodes \cup {End}
<1>1. /\ Children(x) \in SUBSET Nodes /\ Nodes \in SUBSET Nat /\ Shape /\ Complete
      /\ Len(tree) \in Nat /\ Nodes = 1..Len(tree)
      /\ Children(x) # {} => Min(Children(x)) \in Nodes
      /\ Is(x, "if") /\ Children(x) # {} => Max(Children(x)) \in Nodes
  BY NodesAre, PartsAre DEF Whole
<1>2. \A n \in Nodes : After[n] \subseteq Nodes \cup {End} /\ Begin(n) \subseteq Nodes \cup {End}
  BY AfterStays
<1>3. ASSUME NEW K, Inside(x, K) # {} PROVE Max(Inside(x, K)) \in Inside(x, K) /\ Inside(x, K) \subseteq Nodes
  <2>1. Inside(x, K) \subseteq Nodes
    BY <1>1, AroundBefore DEF Inside
  <2>2. Inside(x, K) \in SUBSET (0..Len(tree))
    BY <1>1, <2>1
  <2> QED BY <1>1, <1>3, <2>1, <2>2, MaxOf
<1>4. CASE Is(x, "return")
  <2>1. Steps(x) = {}
    BY <1>4 DEF Steps, Is
  <2> QED BY <2>1
<1>5. CASE Is(x, "break")
  <2> DEFINE left == Inside(x, {"while", "do", "switch"})
  <2>1. Steps(x) = IF left = {} THEN {} ELSE After[Max(left)]
    BY <1>5 DEF Steps, Is
  <2> QED BY <1>2, <1>3, <2>1
<1>6. CASE Is(x, "continue")
  <2> DEFINE repeated == Inside(x, {"while", "do"})
             loop == Max(repeated)
  <2>1. Steps(x) = IF repeated = {} THEN {} ELSE After[Min(Children(loop))]
    BY <1>6 DEF Steps, Is
  <2>2. repeated # {} => loop \in Nodes /\ tree[loop].kind \in {"while", "do"}
    <3>1. repeated # {} => loop \in repeated /\ repeated \subseteq Nodes
      BY <1>3
    <3> QED BY <3>1 DEF Inside
  <2> HIDE DEF repeated, loop
  <2>3. repeated # {} => Children(loop) # {}
    BY <1>1, <2>2 DEF Complete
  <2>4. repeated # {} => Min(Children(loop)) \in Nodes
    BY <1>1, <2>2, <2>3, PartsAre, NodesAre
  <2> QED BY <1>2, <2>1, <2>4
<1>7. CASE Is(x, "goto")
  BY <1>7, JumpIs
<1>8. CASE tree[x].kind \in {"if", "while", "do"}
  <2>1. Children(x) # {}
    BY <1>1, <1>8 DEF Complete
  <2>2. Begin(Min(Children(x))) \subseteq Nodes \cup {End} /\ After[x] \subseteq Nodes \cup {End}
        /\ (Is(x, "if") => Begin(Max(Children(x))) \subseteq Nodes \cup {End})
    BY <1>1, <1>2, <2>1
  <2> QED BY <1>8, <2>2 DEF Steps, Is
<1>9. CASE Is(x, "switch")
  <2>1. Steps(x) = (UNION {Begin(m) : m \in Children(x)})
                     \cup (IF tree[x].default THEN {} ELSE After[x])
    BY <1>9 DEF Steps, Is
  <2> QED BY <1>1, <1>2, <2>1
<1>10. CASE tree[x].kind \notin {"return", "break", "continue", "goto", "if", "switch", "while", "do"}
  <2>1. Steps(x) = After[x]
    BY <1>10 DEF Steps, Is
  <2> QED BY <1>2, <2>1
<1> QED BY <1>4, <1>5, <1>6, <1>7, <1>8, <1>9, <1>10 DEF Is

\* A statement is written into one that has room for it.
LEMMA WriteShape ==
  ASSUME Shape, NEW s \in Statements, Write(s)
  PROVE  Shape'
<1> DEFINE N == Len(tree)
<1>1. /\ tree \in Seq(StatementType) /\ N \in Nat /\ N < MaxStatements /\ Nodes = 1..N
      /\ MaxStatements \in Nat /\ (tree = <<>> <=> N = 0)
  BY BoundAssumption, NodesAre DEF Shape, Write
<1>2. PICK p \in (IF tree = <<>> THEN {0} ELSE Open) : tree' = Append(tree, [s EXCEPT !.parent = p])
  BY DEF Write
<1> DEFINE r == [s EXCEPT !.parent = p]
<1>3. /\ p \in 0..N /\ (p = 0 <=> N = 0)
      /\ N # 0 => p \in Nodes /\ Cardinality(Children(p)) < Branches(tree[p].kind)
  BY <1>1, <1>2 DEF Open
<1>4. r \in StatementType /\ r.parent = p
  <2>1. s \in [kind : STRING, parent : {0}, test : {"true", "false", "unknown"},
               default : BOOLEAN, name : STRING]
    BY StatementsAssumption
  <2>2. p \in 0..MaxStatements
    BY <1>1, <1>3
  <2> QED BY <2>1, <2>2 DEF StatementType
<1> HIDE DEF r
<1>5. /\ tree' \in Seq(StatementType) /\ Len(tree') = N + 1 /\ tree'[N + 1] = r
      /\ \A n \in 1..N : tree'[n] = tree[n]
  BY <1>1, <1>2, <1>4 DEF r
<1>6. Nodes' = 1..N + 1
  BY <1>5 DEF Nodes
<1> HIDE DEF N
<1>7. \A n \in 1..N + 1 : Parent(n)' = IF n = N + 1 THEN p ELSE Parent(n)
  <2>1. \A n \in 1..N + 1 : n = N + 1 \/ n \in 1..N
    BY <1>1
  <2>2. \A n \in 1..N : n # N + 1
    BY <1>1
  <2> QED BY <1>4, <1>5, <2>1, <2>2 DEF Parent
<1>8. \A n \in 1..N : Parent(n) \in 0..n - 1 /\ (Parent(n) = 0 <=> n = 1)
  BY <1>1 DEF Shape
<1>9. ASSUME NEW n \in 1..N + 1
      PROVE  Parent(n)' \in 0..n - 1 /\ (Parent(n)' = 0 <=> n = 1)
  <2>1. CASE n \in 1..N
    <3>1. n # N + 1
      BY <1>1, <2>1
    <3> QED BY <1>7, <1>8, <2>1, <3>1
  <2>2. CASE n = N + 1
    BY <1>1, <1>3, <1>7, <2>2
  <2> QED BY <1>1, <2>1, <2>2
<1>10. ASSUME NEW n \in 1..N + 1
       PROVE  Children(n)' = IF n = p THEN Children(n) \cup {N + 1} ELSE Children(n)
  <2>1. Children(n)' = {m \in 1..N + 1 : Parent(m)' = n}
    BY <1>6 DEF Children
  <2>2. Children(n) = {m \in 1..N : Parent(m) = n}
    BY <1>1 DEF Children
  <2>3. \A m \in 1..N + 1 : m \in 1..N \/ m = N + 1
    BY <1>1
  <2>4. N + 1 \in 1..N + 1 /\ \A m \in 1..N : m \in 1..N + 1
    BY <1>1
  <2>5. \A m \in 1..N : m # N + 1
    BY <1>1
  <2> QED BY <1>7, <2>1, <2>2, <2>3, <2>4, <2>5
<1>11. ASSUME NEW n \in 1..N + 1
       PROVE  Cardinality(Children(n)') <= Branches(tree'[n].kind)
  <2>1. CASE n \in 1..N
    <3>1. /\ IsFiniteSet(Children(n)) /\ Cardinality(Children(n)) \in Nat
          /\ Cardinality(Children(n)) <= Branches(tree[n].kind)
          /\ N + 1 \notin Children(n)
      <4>1. n \in Nodes /\ N + 1 \notin 1..N
        BY <1>1, <2>1
      <4> QED BY <1>1, <4>1, PartsAre, NodesAre DEF Shape
    <3>2. Branches(tree[n].kind) \in Nat /\ tree'[n].kind = tree[n].kind
      BY <1>1, <1>5, <2>1 DEF Branches
    <3>3. CASE n = p
      <4>1. Cardinality(Children(n)) < Branches(tree[n].kind)
        BY <1>1, <1>3, <2>1, <3>3
      <4>2. Cardinality(Children(n) \cup {N + 1}) = Cardinality(Children(n)) + 1
        BY <3>1, FS_AddElement
      <4>3. Cardinality(Children(n)) + 1 <= Branches(tree[n].kind)
        BY <3>1, <3>2, <4>1
      <4> QED BY <1>10, <3>2, <3>3, <4>2, <4>3
    <3>4. CASE n # p
      BY <1>10, <3>1, <3>2, <3>4
    <3> QED BY <3>3, <3>4
  <2>2. CASE n = N + 1
    <3>1. n # p
      BY <1>1, <1>3, <2>2
    <3>2. Children(n) = {}
      <4>1. \A m \in 1..N : Parent(m) # n
        BY <1>1, <1>8, <2>2
      <4> QED BY <1>1, <4>1 DEF Children
    <3>3. Cardinality(Children(n)') = 0
      BY <1>10, <3>1, <3>2, FS_EmptySet
    <3>4. Branches(tree'[n].kind) \in Nat
      BY <1>1 DEF Branches
    <3> QED BY <3>3, <3>4
  <2> QED BY <1>1, <2>1, <2>2
<1>12. Len(tree') <= MaxStatements
  BY <1>1, <1>5
<1> QED BY <1>5, <1>6, <1>9, <1>11, <1>12 DEF Shape

LEMMA NextInv == Inv /\ [Next]_vars => Inv'
<1> SUFFICES ASSUME Inv, [Next]_vars PROVE Inv'
  OBVIOUS
<1>1. ASSUME NEW s \in Statements, Write(s) PROVE Inv'
  <2>1. Shape'
    BY <1>1, WriteShape DEF Inv
  <2>2. pc = 0 /\ pc' = 0 /\ graph' = graph
    BY <1>1 DEF Write
  <2>3. 0 \notin Nodes'
    <3>1. \A n \in Nodes' : n \in 1..Len(tree')
      BY <2>1 DEF Shape, Nodes
    <3> QED BY <3>1
  <2> QED BY <2>1, <2>2, <2>3 DEF Inv
<1>2. ASSUME Build PROVE Inv'
  <2>1. Whole /\ UNCHANGED tree /\ graph' = Graph /\ pc' \in Begin(1)
    BY <1>2 DEF Build, Inv, Whole
  <2>2. pc' = End \/ (pc' \in Nodes /\ Alive(pc'))
    BY <2>1, BeginsAlive
  <2>3. pc' # 0 /\ (pc' = End => pc' \notin Nodes)
    BY <2>1, <2>2, WholeIs
  <2>4. pc' \in Nodes => Alive(pc)'
    BY <2>1, <2>2, <2>3, SameTree
  <2> QED BY <2>1, <2>2, <2>3, <2>4, SameTree DEF Inv, Whole
<1>3. ASSUME Execute PROVE Inv'
  <2>1. pc \in Nodes /\ pc' \in Steps(pc) /\ UNCHANGED <<tree, graph>>
    BY <1>3 DEF Execute
  <2>2. pc # 0 /\ Whole /\ graph = Graph
    <3>1. 0 \notin Nodes
      BY NodesAre DEF Inv
    <3> QED BY <2>1, <3>1 DEF Inv
  <2>3. pc' \in Nodes \cup {End}
    BY <2>1, <2>2, StepsStay
  <2>4. pc' # 0
    BY <2>2, <2>3, WholeIs
  <2>5. Regular /\ pc' \in Nodes => Alive(pc')
    <3> SUFFICES ASSUME Regular, pc' \in Nodes PROVE Alive(pc')
      OBVIOUS
    <3>1. Alive(pc) /\ pc' # End
      BY <2>1, <2>2, WholeIs DEF Inv
    <3>2. \/ Alive(pc') \/ pc' = pc
      BY <2>1, <2>2, <3>1, StepsAreEdges
    <3> QED BY <3>1, <3>2
  <2>6. Regular' /\ pc' \in Nodes => Alive(pc)'
    BY <2>1, <2>5, SameTree
  <2> QED BY <2>1, <2>2, <2>3, <2>4, <2>6, SameTree DEF Inv, Whole
<1>4. ASSUME UNCHANGED vars PROVE Inv'
  <2>1. UNCHANGED tree /\ UNCHANGED graph /\ UNCHANGED pc
    BY <1>4 DEF vars
  <2>2. Alive(pc) <=> Alive(pc)'
    BY <2>1, SameTree
  <2> QED BY <2>1, <2>2, SameTree DEF Inv
<1> QED BY <1>1, <1>2, <1>3, <1>4 DEF Next

LEMMA Invariance == Spec => []Inv
BY InitInv, NextInv, PTL DEF Spec
----------------------------------------------------------------------------
(* The theorems.                                                           *)

LEMMA TypesFollow == Inv => TypeOK
<1> SUFFICES ASSUME Inv PROVE TypeOK
  OBVIOUS
<1>1. tree \in Seq([kind : STRING, parent : 0..MaxStatements,
                    test : {"true", "false", "unknown"}, default : BOOLEAN, name : STRING])
  BY DEF Inv, Shape, StatementType
<1>2. /\ graph.edges \subseteq Nodes \X Nodes /\ graph.reachable \subseteq Nodes
      /\ graph.exits \subseteq Nodes
  <2>1. CASE pc = 0
    <3>1. graph = NoGraph
      BY <2>1 DEF Inv
    <3> QED BY <3>1 DEF NoGraph
  <2>2. CASE pc # 0
    BY <2>2, GraphIs DEF Inv
  <2> QED BY <2>1, <2>2
<1> QED BY <1>1, <1>2 DEF TypeOK, Inv

\* The fields of every statement, graph and step are what the builder and the
\* analysis of cfg.go take them for, however many statements are written: no
\* edge, exit or reachable block is of anything but a statement of the body.
THEOREM TypesCorrect == Spec => []TypeOK
BY Invariance, TypesFollow, PTL

\* Execution begins at the entry, or with the end.
LEMMA BeginsAtEntry ==
  ASSUME Whole, NEW x \in Begin(1)
  PROVE  IF Graph.entry = 0 THEN x = End /\ ~Graph.fallsThrough ELSE x = Graph.entry
<1>1. After[1] = {End} /\ 1 \in Nodes /\ Entered(1) /\ 0 \notin Nodes
  BY WholeIs DEF Right
<1>2. CASE First[1] = {}
  <2>1. Built[1].entry = 0 /\ Built[1].exits = {}
    BY <1>1, <1>2 DEF Entered, Nothing, Fragment
  <2> QED BY <1>1, <1>2, <2>1, GraphIs DEF Begin
<1>3. CASE First[1] # {}
  <2>1. Built[1].entry \in Nodes
    BY <1>1, <1>3 DEF Entered, Sub
  <2> QED BY <1>1, <1>3, <2>1, GraphIs DEF Begin, Entered
<1> QED BY <1>2, <1>3

\* build makes the entry of every body with a block, and builder.statement and
\* its helpers lose no way on: each further step of an execution of a body
\* with no inner label and no empty block where they do lose it follows an
\* edge, or leaves where FallsThrough says that the body can be left.
THEOREM StepsFollowGraph == Spec => ExecutionFollowsGraph
<1> DEFINE Follow ==
             IF pc = 0
             THEN IF graph'.entry = 0 THEN pc' = End /\ ~graph'.fallsThrough
                  ELSE pc' = graph'.entry
             ELSE Regular => \/ pc' \in Nodes /\ <<pc, pc'>> \in graph.edges
                             \/ pc' = End /\ pc \in graph.exits /\ graph.fallsThrough
<1>1. ASSUME Inv, [Next]_vars PROVE [Follow]_pc
  <2> SUFFICES ASSUME pc' # pc PROVE Follow
    OBVIOUS
  <2>1. CASE Build
    <3>1. Whole /\ graph' = Graph /\ pc' \in Begin(1) /\ pc = 0
      BY <1>1, <2>1 DEF Build, Inv, Whole
    <3> QED BY <3>1, BeginsAtEntry
  <2>2. CASE Execute
    <3>1. pc \in Nodes /\ pc' \in Steps(pc) /\ 0 \notin Nodes
      BY <1>1, <2>2, NodesAre DEF Execute, Inv
    <3>2. SUFFICES ASSUME Regular
                   PROVE  \/ pc' \in Nodes /\ <<pc, pc'>> \in graph.edges
                          \/ pc' = End /\ pc \in graph.exits /\ graph.fallsThrough
      BY <3>1
    <3>3. Whole /\ graph = Graph /\ Alive(pc)
      BY <1>1, <3>1, <3>2 DEF Inv
    <3> QED BY <3>1, <3>2, <3>3, StepsAreEdges
  <2>3. Build \/ Execute
    BY <1>1 DEF Next, vars, Write
  <2> QED BY <2>1, <2>2, <2>3
<1>2. Spec => [][Follow]_pc
  BY <1>1, Invariance, PTL DEF Spec
<1> QED BY <1>2 DEF ExecutionFollowsGraph

\* And they make up none: an edge out of a statement that can be executed is a
\* step of the execution, the edges of gotoStatement's jumps included, and an
\* exit is where the body can come to its end.
THEOREM GraphIsFollowed == Spec => []GraphFollowsExecution
<1>1. Inv => GraphFollowsExecution
  <2> SUFFICES ASSUME Inv, pc \in Nodes
               PROVE  /\ \A e \in graph.edges : e[1] = pc => e[2] \in Steps(pc)
                      /\ pc \in graph.exits => End \in Steps(pc)
    BY DEF GraphFollowsExecution
  <2>1. Whole /\ graph = Graph
    <3>1. 0 \notin Nodes
      BY NodesAre DEF Inv
    <3> QED BY <3>1 DEF Inv
  <2> QED BY <2>1, EdgesAreSteps
<1> QED BY <1>1, Invariance, PTL

\* unreachableDiagnostics never warns of a statement that can be executed in a
\* body where the builder loses no way.
THEOREM WarnedNeverExecuted == Spec => []WarnedIsNeverExecuted
<1>1. Inv => WarnedIsNeverExecuted
  <2> SUFFICES ASSUME Inv, Regular, pc \in Warned(graph) PROVE FALSE
    BY DEF WarnedIsNeverExecuted
  <2>1. pc \in Nodes /\ pc \notin graph.reachable
    BY DEF Warned, Blocks
  <2>2. graph = Graph
    <3>1. 0 \notin Nodes
      BY NodesAre DEF Inv
    <3> QED BY <2>1, <3>1 DEF Inv
  <2> QED BY <2>1, <2>2 DEF Inv, Alive
<1> QED BY <1>1, Invariance, PTL
=============================================================================
