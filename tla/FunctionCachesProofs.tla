----------------------- MODULE FunctionCachesProofs ------------------------
(***************************************************************************)
(* Proofs about FunctionCaches, for every value of its constants: what is  *)
(* kept through any edits and analyses is what a fresh check would find.   *)
(*                                                                         *)
(* A check is determined by the function, its place and what is known of   *)
(* names; the key of a cache stands for the latter.  The inductive         *)
(* invariant, Inv, has two halves.  One holds between analyses as well:    *)
(* what a cache holds is right for the key it has, whatever the file has   *)
(* become (NamesKeyed, TagsKeyed, FlowsKeyed).  The other describes the    *)
(* caches just after an analysis: one check for each function, made for    *)
(* the file as it is (Made), except for what the    *)
(* keys leave out, which each check carries with it.                       *)
(***************************************************************************)
EXTENDS FunctionCaches, FiniteSetTheorems, WellFoundedInduction, TLAPS

\* What is known of names, as arguments.
SeesIn(f, declared, visible, known) ==
  LET views == <<{f.parameter}, declared, visible, known>>
  IN Min({v \in DOMAIN views : f.body.use \in views[v]} \cup {Nothing})
TruthIn(body, hides, values) ==
  IF body.use # None /\ ~hides /\ values[body.use] # None THEN values[body.use] ELSE None

NameCheck(id, f, start, declared, visible, known) ==
  [id |-> id, text |-> f, start |-> start, under |-> visible,
   reported |-> IF SeesIn(f, declared, visible, known) = Nothing
                THEN {start + Header(f)} ELSE {}]
TagCheck(id, f, start, declared, visible, known) ==
  [id |-> id, text |-> f, start |-> start, under |-> visible,
   found |-> IF f.body.use = None THEN {}
             ELSE {<<start + Header(f), SeesIn(f, declared, visible, known)>>}]
Graph(id, body, values, start, hides) ==
  [id |-> id, body |-> body, constants |-> values, start |-> start,
   hides |-> hides, truth |-> TruthIn(body, hides, values), at |-> start + body.size]

NameAt(i, visible) ==
  NameCheck(StableID(i), file.functions[i], Start(i), Declared, visible, revision)
TagAt(i, visible) ==
  TagCheck(StableID(i), file.functions[i], Start(i), Declared, visible, revision)
GraphAt(i, hides) ==
  Graph(StableID(i), file.functions[i].body, file.values, BodyStart(i), hides)

FileOK ==
  /\ file \in [functions : Seq(Functions), values : [Names -> Values \cup {None}],
               visible : SUBSET Names, blank : {0, 1}]
  /\ Len(file.functions) <= MaxFunctions
  /\ revision \in SUBSET Names /\ edits \in 0..MaxEdits

\* What a cache holds is right for its key.
NamesKeyed(cache) ==
  cache.exports # None =>
    \A c \in cache.checks :
      /\ c.start \in Int /\ c.under \in SUBSET Names
      /\ c = NameCheck(c.id, c.text, c.start, cache.exports.constants, c.under, cache.revision)
TagsKeyed(cache) ==
  cache.exports # None =>
    \A c \in cache.checks :
      /\ c.start \in Int /\ c.under \in SUBSET Names
      /\ c = TagCheck(c.id, c.text, c.start, cache.exports.constants, c.under, cache.revision)
FlowsKeyed(graphs) ==
  \A g \in graphs : /\ g.start \in Int /\ g.hides \in BOOLEAN
                    /\ g = Graph(g.id, g.body, g.constants, g.start, g.hides)

\* One check for each function, made for the file as it is.
NamesMade(checks) ==
  \E under \in [Using -> SUBSET Names] : checks = {NameAt(i, under[i]) : i \in Using}
TagsMade(checks) ==
  \E under \in [DOMAIN file.functions -> SUBSET Names] :
    checks = {TagAt(i, under[i]) : i \in DOMAIN file.functions}
FlowsMade(graphs) ==
  \E hides \in [DOMAIN file.functions -> BOOLEAN] :
    graphs = {GraphAt(i, hides[i]) : i \in DOMAIN file.functions}
Made == NamesMade(names.checks) /\ TagsMade(tags.checks) /\ FlowsMade(flows)

Inv ==
  /\ FileOK
  /\ NamesKeyed(names) /\ TagsKeyed(tags) /\ FlowsKeyed(flows)
  /\ edits = 0 => Made
----------------------------------------------------------------------------
(* Sums over the functions.                                                *)

Less == {ss \in Nat \X Nat : ss[1] < ss[2]}

\* A set of numbers has a least one.
LEMMA Least ==
  ASSUME NEW T \in SUBSET Nat, T # {}
  PROVE  \E n \in T : \A m \in T : n <= m
<1>1. IsWellFoundedOn(Less, Nat)
  BY NatLessThanWellFounded DEF OpToRel, Less
<1>2. PICK n \in T : \A m \in T : <<m, n>> \notin Less
  BY <1>1, WFMin, Zenon
<1>3. ASSUME NEW m \in T PROVE n <= m
  <2>1. ~(m < n)
    BY <1>2 DEF Less
  <2> QED BY <2>1
<1> QED BY <1>2, <1>3

\* Induction, for a set.
LEMMA Induction ==
  ASSUME NEW S, 0 \in S, \A n \in Nat : n \in S => n + 1 \in S
  PROVE  Nat \subseteq S
<1> DEFINE T == Nat \ S
<1> SUFFICES ASSUME T # {} PROVE FALSE
  OBVIOUS
<1>1. PICK n \in T : \A m \in T : n <= m
  BY Least
<1> QED BY <1>1

\* A recursive sum exists, and is a number.
Sum(n, b, size) ==
  LET end[j \in 0..n] == IF j = 0 THEN b ELSE end[j - 1] + size[j]
  IN end[n]
LEMMA SumType ==
  ASSUME NEW n \in Nat, NEW b \in Int, NEW size, \A j \in 1..n : size[j] \in Int
  PROVE  Sum(n, b, size) \in Int
<1> DEFINE Is(g, k) == g = [j \in 0..k |-> IF j = 0 THEN b ELSE g[j - 1] + size[j]]
           sum == CHOOSE g : Is(g, n)
           S == {k \in Nat : k <= n => \E g \in [0..k -> Int] : Is(g, k)}
           V == {k \in Nat : k <= n => sum[k] \in Int}
<1>1. 0 \in S
  <2>1. Is([j \in 0..0 |-> b], 0)
    OBVIOUS
  <2> QED BY <2>1
<1>2. ASSUME NEW k \in Nat, k \in S PROVE k + 1 \in S
  <2> SUFFICES ASSUME k + 1 <= n PROVE \E g \in [0..k + 1 -> Int] : Is(g, k + 1)
    OBVIOUS
  <2>1. PICK g \in [0..k -> Int] : Is(g, k)
    BY <1>2
  <2> DEFINE h == [j \in 0..k + 1 |-> IF j = k + 1 THEN g[k] + size[k + 1] ELSE g[j]]
  <2>2. h \in [0..k + 1 -> Int]
    OBVIOUS
  <2>3. \A j \in 0..k + 1 : h[j] = IF j = 0 THEN b ELSE h[j - 1] + size[j]
    BY <2>1
  <2>4. Is(h, k + 1)
    BY <2>3
  <2> QED BY <2>2, <2>4
<1>3. n \in S
  <2> HIDE DEF S
  <2> QED BY <1>1, <1>2, Induction
<1>4. Is(sum, n)
  <2>1. PICK g : Is(g, n)
    BY <1>3
  <2> HIDE DEF Is
  <2> QED BY <2>1
<1>5. 0 \in V /\ \A k \in Nat : k \in V => k + 1 \in V
  <2> HIDE DEF sum
  <2>1. \A j \in 0..n : sum[j] = IF j = 0 THEN b ELSE sum[j - 1] + size[j]
    BY <1>4
  <2>2. 0 \in V
    BY <2>1
  <2>3. ASSUME NEW k \in Nat, k \in V, k + 1 <= n PROVE sum[k + 1] \in Int
    BY <2>1, <2>3
  <2> QED BY <2>2, <2>3
<1>6. n \in V
  <2> HIDE DEF V
  <2> QED BY <1>5, Induction
<1>7. Sum(n, b, size) = sum[n]
  BY DEF Sum
<1> QED BY <1>6, <1>7

LEMMA FunctionTypes ==
  ASSUME FileOK, NEW i \in DOMAIN file.functions
  PROVE  /\ i \in Nat \ {0} /\ file.functions[i] \in Functions
         /\ file.functions[i].body \in Bodies
         /\ file.functions[i].body.size \in Nat
         /\ file.functions[i].body.use \in Names \cup {None}
         /\ Header(file.functions[i]) \in Nat
<1>1. i \in Nat \ {0} /\ file.functions[i] \in Functions
  BY DEF FileOK
<1> QED BY <1>1, BodiesAssumption DEF Functions, Header

\* Where a function begins is a number.
LEMMA StartType ==
  ASSUME FileOK, NEW i \in DOMAIN file.functions
  PROVE  Start(i) \in Int /\ BodyStart(i) \in Int
<1>1. i - 1 \in Nat /\ file.blank \in Int /\ 1..(i - 1) \subseteq DOMAIN file.functions
  BY DEF FileOK
<1> DEFINE size == [j \in 1..(i - 1) |-> Header(file.functions[j]) + file.functions[j].body.size]
<1>2. \A j \in 1..(i - 1) : size[j] \in Int
  BY <1>1, FunctionTypes
<1>3. Start(i) = Sum(i - 1, file.blank, size)
  BY DEF Start, Sum
<1>4. Start(i) \in Int
  <2> HIDE DEF size
  <2> QED BY <1>1, <1>2, <1>3, SumType
<1> QED BY <1>4, FunctionTypes DEF BodyStart
----------------------------------------------------------------------------
(* Fresh checks, in the form of the invariant.                             *)

\* Functions with the same signature are told apart by their ordinal.
LEMMA IDsDiffer ==
  ASSUME FileOK, NEW i \in DOMAIN file.functions, NEW j \in DOMAIN file.functions,
         StableID(i) = StableID(j)
  PROVE  i = j
<1> DEFINE Before(k) == {h \in 1..(k - 1) : file.functions[h].name = file.functions[k].name}
<1>1. \A k \in DOMAIN file.functions :
        k \in Nat \ {0} /\ 1..(k - 1) \subseteq DOMAIN file.functions
  BY DEF FileOK
<1>2. /\ file.functions[i].name = file.functions[j].name
      /\ Cardinality(Before(i)) = Cardinality(Before(j))
  BY DEF StableID
<1>3. ASSUME NEW k \in DOMAIN file.functions, NEW l \in DOMAIN file.functions, k < l,
             file.functions[k].name = file.functions[l].name
      PROVE  Cardinality(Before(k)) # Cardinality(Before(l))
  <2>1. IsFiniteSet(Before(l))
    <3>1. 1 \in Int /\ l - 1 \in Int /\ Before(l) \in SUBSET (1..(l - 1))
      BY <1>1
    <3>2. IsFiniteSet(1..(l - 1))
      BY <3>1, FS_Interval, Zenon
    <3> HIDE DEF Before
    <3> QED BY <3>1, <3>2, FS_Subset
  <2>2. Before(k) \in SUBSET Before(l) /\ k \in Before(l) /\ k \notin Before(k)
    BY <1>1, <1>3
  <2> HIDE DEF Before
  <2> QED BY <2>1, <2>2, FS_Subset
<1> HIDE DEF Before
<1> QED BY <1>1, <1>2, <1>3

LEMMA MinIs ==
  ASSUME NEW S \in SUBSET Int, NEW m \in S, \A n \in S : m <= n
  PROVE  Min(S) = m
<1> DEFINE x == Min(S)
<1>1. x \in S /\ \A n \in S : x <= n
  BY DEF Min
<1> HIDE DEF x
<1>2. x \in Int /\ m \in Int /\ x <= m /\ m <= x
  BY <1>1
<1>3. x = m
  BY <1>2
<1> QED BY <1>3 DEF x

LEMMA ExportsType == FileOK => Exports # None /\ Exports.constants = Declared
<1> SUFFICES ASSUME FileOK PROVE Exports # None /\ Exports.constants = Declared
  OBVIOUS
<1> DEFINE Named(n) == {i \in DOMAIN file.functions : file.functions[i].name = n}
<1>1. ASSUME NEW n PROVE Cardinality(Named(n)) \in Nat
  <2>1. DOMAIN file.functions = 1..Len(file.functions) /\ Len(file.functions) \in Nat
    BY DEF FileOK
  <2>2. IsFiniteSet(DOMAIN file.functions)
    BY <2>1, FS_Interval
  <2>3. IsFiniteSet(Named(n))
    BY <2>2, FS_Subset
  <2> QED BY <2>3, FS_CardinalityType
<1>2. Declared \in SUBSET Names
  BY DEF Declared
<1> HIDE DEF Named
<1>3. Exports = [functions |-> [n \in FunctionNames |-> Cardinality(Named(n))],
                 constants |-> Declared]
  BY DEF Exports, Named
<1>4. Exports \in [functions : [FunctionNames -> Nat], constants : SUBSET Names]
  BY <1>1, <1>2, <1>3
<1> QED BY <1>3, <1>4, NoneAssumption

LEMMA CheckNamesIs == \A i : CheckNames(i) = NameAt(i, file.visible)
BY DEF CheckNames, NameAt, NameCheck, BodyStart, Sees, SeesIn

LEMMA CheckTagsIs == \A i : CheckTags(i) = TagAt(i, file.visible)
BY DEF CheckTags, TagAt, TagCheck, BodyStart, Sees, SeesIn

\* A body has the value of a constant in its condition exactly if the
\* function's parameter does not hide it.
LEMMA TruthIs ==
  ASSUME FileOK, NEW i \in DOMAIN file.functions
  PROVE  LET f == file.functions[i] IN Truth(f) = TruthIn(f.body, Hides(f), file.values)
<1> DEFINE f == file.functions[i]
           use == f.body.use
           views == <<{f.parameter}, Declared, file.visible, revision>>
           S == {v \in DOMAIN views : use \in views[v]} \cup {Nothing}
<1> HIDE DEF f
<1> SUFFICES Truth(f) = TruthIn(f.body, Hides(f), file.values)
  BY DEF f
<1>1. CASE use = None
  BY <1>1 DEF Truth, TruthIn
<1>2. CASE use # None
  <2>1. use \in Names
    BY <1>2, FunctionTypes DEF f
  <2>2. Sees(f) = Min(S) /\ DOMAIN views = 1..4
    BY DEF Sees
  <2>3. \A v : v \in S <=> \/ v = 1 /\ use = f.parameter
                           \/ v = 2 /\ use \in Declared
                           \/ v = 3 /\ use \in file.visible
                           \/ v = 4 /\ use \in revision
                           \/ v = 5
    BY <2>2 DEF Nothing
  <2> HIDE DEF S, views
  <2>4. S \in SUBSET Int
    BY <2>3
  <2>5. Min(S) = 2 <=> use # f.parameter /\ use \in Declared
    <3>1. CASE use = f.parameter
      BY <3>1, <2>3, <2>4, MinIs
    <3>2. CASE use # f.parameter /\ use \in Declared
      BY <3>2, <2>3, <2>4, MinIs
    <3>3. CASE use # f.parameter /\ use \notin Declared
      <4>1. Min(S) = 3 \/ Min(S) = 4 \/ Min(S) = 5
        <5>1. CASE 3 \in S
          BY <5>1, <3>3, <2>3, <2>4, MinIs
        <5>2. CASE 3 \notin S /\ 4 \in S
          BY <5>2, <3>3, <2>3, <2>4, MinIs
        <5>3. CASE 3 \notin S /\ 4 \notin S
          BY <5>3, <3>3, <2>3, <2>4, MinIs
        <5> QED BY <5>1, <5>2, <5>3
      <4> QED BY <4>1, <3>3
    <3> QED BY <3>1, <3>2, <3>3
  <2>6. use \in Declared <=> file.values[use] # None
    BY <2>1 DEF Declared
  <2> QED BY <1>2, <2>2, <2>5, <2>6 DEF Truth, TruthIn, Hides
<1> QED BY <1>1, <1>2

LEMMA BuildGraphIs ==
  ASSUME FileOK, NEW i \in DOMAIN file.functions
  PROVE  BuildGraph(i) = GraphAt(i, Hides(file.functions[i]))
BY TruthIs DEF BuildGraph, GraphAt, Graph, Fingerprint
----------------------------------------------------------------------------
(* What is kept, shifted, is a fresh check but for what the keys leave out. *)

LEMMA KeptName ==
  ASSUME FileOK, NamesKeyed(names), NEW i \in DOMAIN file.functions, NEW c \in Kept(names, i)
  PROVE  ShiftNames(c, i) = NameAt(i, c.under) /\ c.under \in SUBSET Names
<1>1. /\ c \in names.checks /\ c.id = StableID(i) /\ c.text = file.functions[i]
      /\ names.exports = Exports /\ names.revision = revision
  BY DEF Kept, Current
<1>2. /\ c.start \in Int /\ c.under \in SUBSET Names
      /\ c = NameCheck(StableID(i), file.functions[i], c.start, Declared, c.under, revision)
  BY <1>1, ExportsType DEF NamesKeyed
<1>3. Start(i) \in Int /\ Header(file.functions[i]) \in Int
  BY StartType, FunctionTypes
<1> DEFINE f == file.functions[i]
           seen == SeesIn(f, Declared, c.under, revision) = Nothing
           moved == {p + (Start(i) - c.start) : p \in c.reported}
<1>4. c.reported = IF seen THEN {c.start + Header(f)} ELSE {}
  BY <1>2 DEF NameCheck
<1>5. moved = IF seen THEN {Start(i) + Header(f)} ELSE {}
  <2> HIDE DEF seen
  <2> QED BY <1>2, <1>3, <1>4
<1>6. ShiftNames(c, i) = [c EXCEPT !.start = Start(i), !.reported = moved]
  BY DEF ShiftNames
<1> HIDE DEF moved
<1>7. ShiftNames(c, i) =
        [id |-> StableID(i), text |-> f, start |-> Start(i), under |-> c.under,
         reported |-> moved]
  <2>1. PICK start, under, old :
          c = [id |-> StableID(i), text |-> f, start |-> start, under |-> under, reported |-> old]
    BY <1>2 DEF NameCheck
  <2> HIDE DEF f
  <2>2. c.under = under
    BY <2>1
  <2> QED BY <1>6, <2>1, <2>2
<1> QED BY <1>2, <1>5, <1>7 DEF NameAt, NameCheck

LEMMA KeptTag ==
  ASSUME NEW cache, FileOK, TagsKeyed(cache),
         NEW i \in DOMAIN file.functions, NEW c \in Kept(cache, i)
  PROVE  ShiftTags(c, i) = TagAt(i, c.under) /\ c.under \in SUBSET Names
<1>1. /\ c \in cache.checks /\ c.id = StableID(i) /\ c.text = file.functions[i]
      /\ cache.exports = Exports /\ cache.revision = revision
  BY DEF Kept, Current
<1>2. /\ c.start \in Int /\ c.under \in SUBSET Names
      /\ c = TagCheck(StableID(i), file.functions[i], c.start, Declared, c.under, revision)
  BY <1>1, ExportsType DEF TagsKeyed
<1>3. Start(i) \in Int /\ Header(file.functions[i]) \in Int
  BY StartType, FunctionTypes
<1> DEFINE f == file.functions[i]
           seen == SeesIn(f, Declared, c.under, revision)
           moved == {<<p[1] + (Start(i) - c.start), p[2]>> : p \in c.found}
<1>4. c.found = IF f.body.use = None THEN {} ELSE {<<c.start + Header(f), seen>>}
  BY <1>2 DEF TagCheck
<1>5. moved = IF f.body.use = None THEN {} ELSE {<<Start(i) + Header(f), seen>>}
  <2> DEFINE x == c.start + Header(f)
  <2>1. x + (Start(i) - c.start) = Start(i) + Header(f)
    BY <1>2, <1>3
  <2> HIDE DEF x, seen
  <2>2. c.found = IF f.body.use = None THEN {} ELSE {<<x, seen>>}
    BY <1>4 DEF x
  <2>3. <<x, seen>>[1] = x /\ <<x, seen>>[2] = seen
    OBVIOUS
  <2>4. CASE f.body.use = None
    BY <2>2, <2>4
  <2>5. CASE f.body.use # None
    <3>1. moved = {<<<<x, seen>>[1] + (Start(i) - c.start), <<x, seen>>[2]>>}
      BY <2>2, <2>5, Zenon
    <3> QED BY <2>1, <2>3, <2>5, <3>1
  <2> QED BY <2>4, <2>5
<1>6. ShiftTags(c, i) = [c EXCEPT !.start = Start(i), !.found = moved]
  BY DEF ShiftTags
<1> HIDE DEF moved
<1>7. ShiftTags(c, i) =
        [id |-> StableID(i), text |-> f, start |-> Start(i), under |-> c.under,
         found |-> moved]
  <2>1. PICK start, under, old :
          c = [id |-> StableID(i), text |-> f, start |-> start, under |-> under, found |-> old]
    BY <1>2 DEF TagCheck
  <2> HIDE DEF f
  <2>2. c.under = under
    BY <2>1
  <2> QED BY <1>6, <2>1, <2>2
<1> QED BY <1>2, <1>5, <1>7 DEF TagAt, TagCheck

LEMMA KeptGraph ==
  ASSUME FileOK, FlowsKeyed(flows), NEW i \in DOMAIN file.functions, NEW g \in ReuseFlow(i)
  PROVE  ShiftGraph(g, i) = GraphAt(i, g.hides) /\ g.hides \in BOOLEAN
<1>1. /\ g \in flows /\ g.id = StableID(i) /\ g.body = file.functions[i].body
      /\ g.constants = file.values
  BY DEF ReuseFlow, Fingerprint
<1>2. /\ g.start \in Int /\ g.hides \in BOOLEAN
      /\ g = Graph(StableID(i), file.functions[i].body, file.values, g.start, g.hides)
  BY <1>1 DEF FlowsKeyed
<1>3. BodyStart(i) \in Int /\ file.functions[i].body.size \in Int
  BY StartType, FunctionTypes
<1> DEFINE body == file.functions[i].body
           at == g.at + (BodyStart(i) - g.start)
<1>4. g.at = g.start + body.size
  BY <1>2 DEF Graph
<1>5. at = BodyStart(i) + body.size
  BY <1>2, <1>3, <1>4
<1>6. ShiftGraph(g, i) = [g EXCEPT !.start = BodyStart(i), !.at = at]
  BY DEF ShiftGraph
<1> HIDE DEF at
<1>7. ShiftGraph(g, i) =
        [id |-> StableID(i), body |-> body, constants |-> file.values, start |-> BodyStart(i),
         hides |-> g.hides, truth |-> TruthIn(body, g.hides, file.values), at |-> at]
  <2>1. PICK start, hides, old :
          g = [id |-> StableID(i), body |-> body, constants |-> file.values, start |-> start,
               hides |-> hides, truth |-> TruthIn(body, hides, file.values), at |-> old]
    BY <1>2 DEF Graph
  <2> HIDE DEF body
  <2>2. g.hides = hides
    BY <2>1
  <2> QED BY <1>6, <2>1, <2>2
<1> QED BY <1>2, <1>5, <1>7 DEF GraphAt, Graph
----------------------------------------------------------------------------
(* What an analysis makes.                                                 *)

LEMMA UsingType == Using \subseteq DOMAIN file.functions
BY DEF Using

LEMMA NamesAfter ==
  ASSUME FileOK, NamesKeyed(names)
  PROVE  NamesMade(NameChecks(names).checks) /\ NamesMade({CheckNames(i) : i \in Using})
<1> DEFINE new(i) == LET kept == Kept(names, i)
                     IN IF kept = {} THEN CheckNames(i)
                        ELSE ShiftNames(CHOOSE c \in kept : TRUE, i)
<1>1. ASSUME NEW i \in Using
      PROVE  \E u \in SUBSET Names : new(i) = NameAt(i, u)
  <2>1. CASE Kept(names, i) = {}
    BY <2>1, CheckNamesIs DEF FileOK
  <2>2. CASE Kept(names, i) # {}
    <3>1. PICK c \in Kept(names, i) : new(i) = ShiftNames(c, i)
      BY <2>2
    <3> QED BY <3>1, <1>1, UsingType, KeptName
  <2> QED BY <2>1, <2>2
<1>2. NameChecks(names).checks = {new(i) : i \in Using}
  BY DEF NameChecks, Keyed
<1> HIDE DEF new
<1> DEFINE under == [i \in Using |-> CHOOSE u \in SUBSET Names : new(i) = NameAt(i, u)]
           fresh == [i \in Using |-> file.visible]
<1>3. under \in [Using -> SUBSET Names] /\ \A i \in Using : new(i) = NameAt(i, under[i])
  BY <1>1
<1>4. fresh \in [Using -> SUBSET Names] /\ \A i \in Using : CheckNames(i) = NameAt(i, fresh[i])
  BY CheckNamesIs DEF FileOK
<1> HIDE DEF under, fresh
<1> QED BY <1>2, <1>3, <1>4 DEF NamesMade

LEMMA TagsAfter ==
  ASSUME NEW cache, FileOK, TagsKeyed(cache)
  PROVE  TagsMade(TagChecks(cache).checks)
<1> DEFINE new(i) == LET kept == Kept(cache, i)
                     IN IF kept = {} THEN CheckTags(i)
                        ELSE ShiftTags(CHOOSE c \in kept : TRUE, i)
           All == DOMAIN file.functions
<1>1. ASSUME NEW i \in All
      PROVE  \E u \in SUBSET Names : new(i) = TagAt(i, u)
  <2>1. CASE Kept(cache, i) = {}
    BY <2>1, CheckTagsIs DEF FileOK
  <2>2. CASE Kept(cache, i) # {}
    <3>1. PICK c \in Kept(cache, i) : new(i) = ShiftTags(c, i)
      BY <2>2
    <3> QED BY <3>1, <1>1, KeptTag
  <2> QED BY <2>1, <2>2
<1>2. TagChecks(cache).checks = {new(i) : i \in All}
  BY DEF TagChecks, Keyed, NoCache
<1> HIDE DEF new
<1> DEFINE under == [i \in All |-> CHOOSE u \in SUBSET Names : new(i) = TagAt(i, u)]
<1>3. under \in [All -> SUBSET Names] /\ \A i \in All : new(i) = TagAt(i, under[i])
  BY <1>1
<1> HIDE DEF under
<1> QED BY <1>2, <1>3 DEF TagsMade

LEMMA FlowsAfter ==
  ASSUME FileOK, FlowsKeyed(flows), NEW reliable \in BOOLEAN
  PROVE  FlowsMade(Graphs(reliable))
<1> DEFINE new(i) == LET kept == IF reliable THEN ReuseFlow(i) ELSE {}
                     IN IF kept = {} THEN BuildGraph(i)
                        ELSE ShiftGraph(CHOOSE g \in kept : TRUE, i)
           All == DOMAIN file.functions
<1>1. ASSUME NEW i \in All
      PROVE  \E h \in BOOLEAN : new(i) = GraphAt(i, h)
  <2>1. CASE new(i) = BuildGraph(i)
    BY <2>1, BuildGraphIs DEF Hides
  <2>2. CASE new(i) # BuildGraph(i)
    <3>1. PICK g \in ReuseFlow(i) : new(i) = ShiftGraph(g, i)
      BY <2>2
    <3> QED BY <3>1, <1>1, KeptGraph
  <2> QED BY <2>1, <2>2
<1>2. Graphs(reliable) = {new(i) : i \in All}
  BY DEF Graphs
<1> HIDE DEF new
<1> DEFINE hides == [i \in All |-> CHOOSE h \in BOOLEAN : new(i) = GraphAt(i, h)]
<1>3. hides \in [All -> BOOLEAN] /\ \A i \in All : new(i) = GraphAt(i, hides[i])
  BY <1>1
<1> HIDE DEF hides
<1> QED BY <1>2, <1>3 DEF FlowsMade

\* What is made for the present file is right for the present key.
LEMMA MadeIsKeyed ==
  ASSUME FileOK, NEW cache,
         cache.exports = None \/ (cache.exports = Exports /\ cache.revision = revision)
  PROVE  /\ NamesMade(cache.checks) => NamesKeyed(cache)
         /\ TagsMade(cache.checks) => TagsKeyed(cache)
<1>1. ASSUME cache.exports # None, NamesMade(cache.checks), NEW c \in cache.checks
      PROVE  /\ c.start \in Int /\ c.under \in SUBSET Names
             /\ c = NameCheck(c.id, c.text, c.start, cache.exports.constants, c.under,
                              cache.revision)
  <2>1. PICK i \in DOMAIN file.functions, u \in SUBSET Names : c = NameAt(i, u)
    BY <1>1, UsingType DEF NamesMade
  <2>2. cache.revision = revision /\ cache.exports.constants = Declared
    BY <1>1, ExportsType
  <2>3. c.id = StableID(i) /\ c.text = file.functions[i] /\ c.start = Start(i) /\ c.under = u
    BY <2>1 DEF NameAt, NameCheck
  <2> QED BY <2>1, <2>2, <2>3, StartType DEF NameAt
<1>2. ASSUME cache.exports # None, TagsMade(cache.checks), NEW c \in cache.checks
      PROVE  /\ c.start \in Int /\ c.under \in SUBSET Names
             /\ c = TagCheck(c.id, c.text, c.start, cache.exports.constants, c.under,
                             cache.revision)
  <2>1. PICK i \in DOMAIN file.functions, u \in SUBSET Names : c = TagAt(i, u)
    BY <1>2 DEF TagsMade
  <2>2. cache.revision = revision /\ cache.exports.constants = Declared
    BY <1>2, ExportsType
  <2>3. c.id = StableID(i) /\ c.text = file.functions[i] /\ c.start = Start(i) /\ c.under = u
    BY <2>1 DEF TagAt, TagCheck
  <2> QED BY <2>1, <2>2, <2>3, StartType DEF TagAt
<1> QED BY <1>1, <1>2 DEF NamesKeyed, TagsKeyed

LEMMA MadeFlowsAreKeyed ==
  ASSUME FileOK, NEW graphs, FlowsMade(graphs)
  PROVE  FlowsKeyed(graphs)
<1>1. ASSUME NEW g \in graphs
      PROVE  /\ g.start \in Int /\ g.hides \in BOOLEAN
             /\ g = Graph(g.id, g.body, g.constants, g.start, g.hides)
  <2>1. PICK i \in DOMAIN file.functions, h \in BOOLEAN : g = GraphAt(i, h)
    BY <1>1 DEF FlowsMade
  <2>2. /\ g.id = StableID(i) /\ g.body = file.functions[i].body /\ g.constants = file.values
        /\ g.start = BodyStart(i) /\ g.hides = h
    BY <2>1 DEF GraphAt, Graph
  <2> QED BY <2>1, <2>2, StartType DEF GraphAt
<1> QED BY <1>1 DEF FlowsKeyed
----------------------------------------------------------------------------
(* The invariant.                                                          *)

LEMMA Keys ==
  /\ \A checks : /\ Keyed(checks).exports = Exports /\ Keyed(checks).revision = revision
                 /\ NoCache(checks).exports = None /\ NoCache(checks).checks = checks
  /\ \A cache : \E checks : NameChecks(cache) = Keyed(checks)
  /\ \A cache : \E checks : TagChecks(cache) = Keyed(checks) \/ TagChecks(cache) = NoCache(checks)
<1>1. \A cache : \E checks : NameChecks(cache) = Keyed(checks)
  BY DEF NameChecks
<1>2. \A cache : \E checks : TagChecks(cache) = Keyed(checks) \/ TagChecks(cache) = NoCache(checks)
  BY DEF TagChecks
<1>3. \A checks : /\ Keyed(checks).exports = Exports /\ Keyed(checks).revision = revision
                 /\ NoCache(checks).exports = None /\ NoCache(checks).checks = checks
  BY DEF Keyed, NoCache
<1> QED BY <1>1, <1>2, <1>3

\* A file that stays keeps its checks current.
LEMMA MadeStays ==
  ASSUME file' = file, revision' = revision
  PROVE  /\ NamesMade(names'.checks) => NamesMade(names.checks)'
         /\ TagsMade(tags'.checks) => TagsMade(tags.checks)'
         /\ FlowsMade(flows') => FlowsMade(flows)'
         /\ FileOK /\ edits' \in 0..MaxEdits => FileOK'
<1>1. \A i, v : NameAt(i, v)' = NameAt(i, v)
  BY DEF NameAt, NameCheck, StableID, Start, Declared, SeesIn, Header
<1>2. \A i, v : TagAt(i, v)' = TagAt(i, v)
  BY DEF TagAt, TagCheck, StableID, Start, Declared, SeesIn, Header
<1>3. \A i, h : GraphAt(i, h)' = GraphAt(i, h)
  BY DEF GraphAt, Graph, StableID, BodyStart, Start, Header, TruthIn
<1>4. Using' = Using
  BY DEF Using
<1> QED BY <1>1, <1>2, <1>3, <1>4 DEF NamesMade, TagsMade, FlowsMade, FileOK

LEMMA Initially == Init => Inv
<1> SUFFICES ASSUME Init PROVE Inv
  OBVIOUS
<1>1. FileOK
  <2>1. file \in Files /\ edits = MaxEdits /\ revision \in SUBSET Names
    BY DEF Init
  <2>2. PICK m \in 0..MaxFunctions : file.functions \in [1..m -> Functions]
    BY <2>1, BoundsAssumption DEF Files, SeqOf
  <2>3. file.functions \in Seq(Functions) /\ Len(file.functions) = m
    BY <2>2, BoundsAssumption
  <2> HIDE DEF Functions
  <2> QED BY <2>1, <2>3, BoundsAssumption DEF FileOK, Files
<1>2. NamesKeyed(names) /\ TagsKeyed(tags) /\ FlowsKeyed(flows)
  BY DEF Init, NoCache, NamesKeyed, TagsKeyed, FlowsKeyed
<1>3. edits # 0
  BY BoundsAssumption DEF Init
<1> QED BY <1>1, <1>2, <1>3 DEF Inv

LEMMA CompleteKeeps ==
  ASSUME Inv, NEW reliable \in BOOLEAN, Complete(reliable)
  PROVE  Inv'
<1>1. FileOK /\ NamesKeyed(names) /\ TagsKeyed(tags) /\ FlowsKeyed(flows)
  BY DEF Inv
<1>2. file' = file /\ revision' = revision /\ edits' = 0
  BY DEF Complete
<1>3. NamesMade(names'.checks) /\ NamesKeyed(names')
  <2>1. /\ NamesMade(names'.checks)
        /\ names'.exports = None \/ (names'.exports = Exports /\ names'.revision = revision)
    <3>1. CASE reliable
      BY <1>1, <3>1, NamesAfter, Keys DEF Complete
    <3>2. CASE ~reliable
      <4>1. names' = NoCache({CheckNames(i) : i \in Using})
        BY <3>2 DEF Complete
      <4>2. names'.exports = None /\ names'.checks = {CheckNames(i) : i \in Using}
        BY <4>1 DEF NoCache
      <4> QED BY <1>1, <4>2, NamesAfter
    <3> QED BY <3>1, <3>2
  <2> QED BY <1>1, <2>1, MadeIsKeyed
<1>4. TagsMade(tags'.checks) /\ TagsKeyed(tags')
  <2>1. TagsKeyed(NoCache({}))
    BY DEF TagsKeyed, NoCache
  <2>2. PICK cache : TagsKeyed(cache) /\ tags' = TagChecks(cache)
    BY <1>1, <2>1 DEF Complete
  <2>3. TagsMade(tags'.checks)
    BY <1>1, <2>2, TagsAfter
  <2>4. tags'.exports = None \/ (tags'.exports = Exports /\ tags'.revision = revision)
    <3>1. PICK checks : TagChecks(cache) = Keyed(checks) \/ TagChecks(cache) = NoCache(checks)
      BY Keys
    <3>2. CASE TagChecks(cache) = Keyed(checks)
      BY <2>2, <3>2 DEF Keyed
    <3>3. CASE TagChecks(cache) = NoCache(checks)
      BY <2>2, <3>3 DEF NoCache
    <3> QED BY <3>1, <3>2, <3>3
  <2> QED BY <1>1, <2>3, <2>4, MadeIsKeyed
<1>5. FlowsMade(flows') /\ FlowsKeyed(flows')
  BY <1>1, FlowsAfter, MadeFlowsAreKeyed DEF Complete
<1>6. edits' \in 0..MaxEdits
  BY <1>2, BoundsAssumption
<1>7. FileOK' /\ Made'
  BY <1>1, <1>2, <1>3, <1>4, <1>5, <1>6, MadeStays DEF Made
<1>8. NamesKeyed(names)' /\ TagsKeyed(tags)' /\ FlowsKeyed(flows)'
  BY <1>3, <1>4, <1>5 DEF NamesKeyed, TagsKeyed, FlowsKeyed
<1> QED BY <1>7, <1>8 DEF Inv

\* An edit changes the file and leaves what is kept.
LEMMA EditKeeps ==
  ASSUME Inv, Edit, FileOK'
  PROVE  Inv'
<1>1. NamesKeyed(names)' /\ TagsKeyed(tags)' /\ FlowsKeyed(flows)'
  BY DEF Inv, Edit, NamesKeyed, TagsKeyed, FlowsKeyed
<1>2. edits' # 0
  BY DEF Inv, FileOK, Edit
<1> QED BY <1>1, <1>2 DEF Inv

LEMMA Inductive ==
  ASSUME Inv, [Next]_vars
  PROVE  Inv'
<1>1. FileOK /\ file.functions \in Seq(Functions) /\ (Edit => edits' \in 0..MaxEdits)
  BY BoundsAssumption DEF Inv, FileOK, Edit
<1> HIDE DEF Functions
<1> DEFINE FileType == [functions : Seq(Functions), values : [Names -> Values \cup {None}],
                        visible : SUBSET Names, blank : {0, 1}]
<1>2. file \in FileType /\ Len(file.functions) <= MaxFunctions
  BY <1>1 DEF FileOK
<1>3. ASSUME NEW s \in Seq(Functions), Edit, Len(s) <= MaxFunctions,
             file' = [file EXCEPT !.functions = s], revision' = revision
      PROVE  Inv'
  <2>1. file' \in FileType /\ file'.functions = s
    BY <1>2, <1>3
  <2>2. FileOK'
    BY <1>1, <1>3, <2>1 DEF FileOK
  <2> QED BY <1>3, <2>2, EditKeeps
<1>4. ASSUME NEW reliable \in BOOLEAN, Complete(reliable) PROVE Inv'
  BY <1>4, CompleteKeeps
<1>5. ASSUME NEW i \in DOMAIN file.functions, NEW f \in Functions, EditFunction(i, f) PROVE Inv'
  <2> DEFINE s == [file.functions EXCEPT ![i] = f]
  <2>1. s \in Seq(Functions) /\ Len(s) = Len(file.functions)
    BY <1>1
  <2>2. file' = [file EXCEPT !.functions = s]
    BY <1>5 DEF EditFunction
  <2> HIDE DEF s
  <2> QED BY <1>2, <1>3, <1>5, <2>1, <2>2 DEF EditFunction
<1>6. ASSUME NEW i \in 1..(Len(file.functions) + 1), NEW f \in Functions, InsertFunction(i, f)
      PROVE  Inv'
  <2> DEFINE s == InsertAt(file.functions, i, f)
  <2>1. /\ SubSeq(file.functions, 1, i - 1) \in Seq(Functions)
        /\ SubSeq(file.functions, i, Len(file.functions)) \in Seq(Functions)
        /\ Len(SubSeq(file.functions, 1, i - 1)) = i - 1
        /\ Len(SubSeq(file.functions, i, Len(file.functions))) = Len(file.functions) - i + 1
    BY <1>1
  <2>2. s \in Seq(Functions) /\ Len(s) = Len(file.functions) + 1
    <3> DEFINE a == SubSeq(file.functions, 1, i - 1)
               b == SubSeq(file.functions, i, Len(file.functions))
    <3>1. s = (a \o <<f>>) \o b
      BY DEF InsertAt
    <3> HIDE DEF a, b, s
    <3>2. a \in Seq(Functions) /\ b \in Seq(Functions) /\ Len(a) + Len(b) = Len(file.functions)
      <4>1. /\ a \in Seq(Functions) /\ b \in Seq(Functions)
            /\ Len(a) = i - 1 /\ Len(b) = Len(file.functions) - i + 1
        BY <2>1, Zenon DEF a, b
      <4>2. Len(file.functions) \in Nat /\ i \in Int
        BY <1>1
      <4> QED BY <4>1, <4>2
    <3>3. <<f>> \in Seq(Functions) /\ Len(<<f>>) = 1
      OBVIOUS
    <3>4. a \o <<f>> \in Seq(Functions) /\ Len(a \o <<f>>) = Len(a) + 1
      BY <3>2, <3>3
    <3> QED BY <1>1, <3>1, <3>2, <3>4
  <2>3. file' = [file EXCEPT !.functions = s] /\ Len(file.functions) < MaxFunctions
    BY <1>6 DEF InsertFunction
  <2> HIDE DEF s
  <2> QED BY <1>1, <1>3, <1>6, <2>2, <2>3, BoundsAssumption DEF InsertFunction
<1>7. ASSUME NEW i \in DOMAIN file.functions, RemoveFunction(i) PROVE Inv'
  <2> DEFINE s == RemoveAt(file.functions, i)
  <2>1. /\ SubSeq(file.functions, 1, i - 1) \in Seq(Functions)
        /\ SubSeq(file.functions, i + 1, Len(file.functions)) \in Seq(Functions)
        /\ Len(SubSeq(file.functions, 1, i - 1)) = i - 1
        /\ Len(SubSeq(file.functions, i + 1, Len(file.functions))) = Len(file.functions) - i
    BY <1>1
  <2>2. s \in Seq(Functions) /\ Len(s) = Len(file.functions) - 1
    <3> DEFINE a == SubSeq(file.functions, 1, i - 1)
               b == SubSeq(file.functions, i + 1, Len(file.functions))
    <3>1. s = a \o b
      BY DEF RemoveAt
    <3> HIDE DEF a, b, s
    <3>2. /\ a \in Seq(Functions) /\ b \in Seq(Functions)
          /\ Len(a) + Len(b) = Len(file.functions) - 1
      <4>1. /\ a \in Seq(Functions) /\ b \in Seq(Functions)
            /\ Len(a) = i - 1 /\ Len(b) = Len(file.functions) - i
        BY <2>1, Zenon DEF a, b
      <4>2. Len(file.functions) \in Nat /\ i \in Int
        BY <1>1
      <4> QED BY <4>1, <4>2
    <3> QED BY <1>1, <3>1, <3>2
  <2>3. file' = [file EXCEPT !.functions = s]
    BY <1>7 DEF RemoveFunction
  <2> HIDE DEF s
  <2> QED BY <1>1, <1>2, <1>3, <1>7, <2>2, <2>3, BoundsAssumption DEF RemoveFunction
<1>8. ASSUME NEW v \in [Names -> Values \cup {None}], NEW d \in SUBSET Names, NEW b \in {0, 1},
             EditFile([file EXCEPT !.values = v, !.visible = d, !.blank = b])
      PROVE  Inv'
  <2>1. file' \in FileType /\ file'.functions = file.functions
    BY <1>2, <1>8 DEF EditFile
  <2>2. FileOK'
    BY <1>1, <1>2, <1>8, <2>1 DEF FileOK, EditFile
  <2> QED BY <1>8, <2>2, EditKeeps DEF EditFile
<1>9. ASSUME NEW r \in SUBSET Names, NewRevision(r) PROVE Inv'
  <2>1. FileOK'
    BY <1>1, <1>9 DEF FileOK, NewRevision
  <2> QED BY <1>9, <2>1, EditKeeps DEF NewRevision
<1>10. CASE UNCHANGED vars
  <2>1. NamesKeyed(names)' /\ TagsKeyed(tags)' /\ FlowsKeyed(flows)'
    BY <1>10 DEF vars, Inv, NamesKeyed, TagsKeyed, FlowsKeyed
  <2>2. FileOK'
    BY <1>1, <1>10 DEF vars, FileOK
  <2>3. file' = file /\ revision' = revision /\ edits' = edits
    BY <1>10 DEF vars
  <2>4. Made => Made'
    BY <1>10, <2>3, MadeStays DEF vars, Made
  <2> QED BY <2>1, <2>2, <2>3, <2>4 DEF Inv
<1> QED BY <1>4, <1>5, <1>6, <1>7, <1>8, <1>9, <1>10 DEF Next

THEOREM Invariance == Spec => []Inv
BY Initially, Inductive, PTL DEF Spec
----------------------------------------------------------------------------
(* The properties.                                                         *)

LEMMA NamesFollow == Inv => NamesAreClean
<1> SUFFICES ASSUME Inv, edits = 0, NEW c \in names.checks, c.under = file.visible
             PROVE  c \in {CheckNames(i) : i \in Using}
  BY DEF NamesAreClean
<1>1. PICK i \in Using, u \in SUBSET Names : c = NameAt(i, u)
  BY DEF Inv, Made, NamesMade
<1>2. u = file.visible
  BY <1>1 DEF NameAt, NameCheck
<1> QED BY <1>1, <1>2, CheckNamesIs

LEMMA TagsFollow == Inv => TagsAreClean
<1> SUFFICES ASSUME Inv, edits = 0, NEW c \in tags.checks, c.under = file.visible
             PROVE  c \in {CheckTags(i) : i \in DOMAIN file.functions}
  BY DEF TagsAreClean
<1>1. PICK i \in DOMAIN file.functions, u \in SUBSET Names : c = TagAt(i, u)
  BY DEF Inv, Made, TagsMade
<1>2. u = file.visible
  BY <1>1 DEF TagAt, TagCheck
<1> QED BY <1>1, <1>2, CheckTagsIs

LEMMA FlowsFollow == Inv => FlowsAreClean
<1> SUFFICES ASSUME Inv, edits = 0, NEW g \in flows, NEW j \in DOMAIN file.functions,
                    g.id = StableID(j), g.hides = Hides(file.functions[j])
             PROVE  g \in {BuildGraph(i) : i \in DOMAIN file.functions}
  BY DEF FlowsAreClean
<1>1. PICK i \in DOMAIN file.functions, h \in BOOLEAN : g = GraphAt(i, h)
  BY DEF Inv, Made, FlowsMade
<1>2. g.id = StableID(i) /\ g.hides = h
  BY <1>1 DEF GraphAt, Graph
<1>3. i = j
  BY <1>2, IDsDiffer DEF Inv
<1> QED BY <1>1, <1>2, <1>3, BuildGraphIs DEF Inv

\* Checks that are one for each function are as many as there are functions.
LEMMA OneEach ==
  ASSUME FileOK, NEW functions \in SUBSET DOMAIN file.functions, NEW check,
         \A i \in functions : check[i].id = StableID(i)
  PROVE  Cardinality({check[i] : i \in functions}) = Cardinality(functions)
<1> DEFINE checks == {check[i] : i \in functions}
           f == [i \in functions |-> check[i]]
<1>1. IsFiniteSet(functions)
  <2>1. DOMAIN file.functions = 1..Len(file.functions) /\ Len(file.functions) \in Int /\ 1 \in Int
    BY DEF FileOK
  <2>2. IsFiniteSet(DOMAIN file.functions)
    BY <2>1, FS_Interval
  <2> QED BY <2>2, FS_Subset
<1>2. f \in Bijection(functions, checks)
  <2>1. \A i, j \in functions : f[i] = f[j] => i = j
    BY IDsDiffer
  <2>2. f \in [functions -> checks] /\ \A c \in checks : \E i \in functions : f[i] = c
    OBVIOUS
  <2> QED BY <2>1, <2>2 DEF Bijection, Injection, Surjection, IsInjective
<1>3. ExistsBijection(functions, checks)
  BY <1>2 DEF ExistsBijection
<1> QED BY <1>1, <1>3, FS_Bijection

LEMMA TypesFollow == Inv => TypeOK
<1> SUFFICES ASSUME Inv PROVE TypeOK
  OBVIOUS
<1>1. FileOK /\ (edits = 0 => Made)
  BY DEF Inv
<1>2. Range(file.functions) \subseteq Functions
  BY <1>1 DEF FileOK, Range
<1>3. ASSUME NamesMade(names.checks) PROVE EachOnce(names.checks, Using)
  <2>1. PICK under : names.checks = {NameAt(i, under[i]) : i \in Using}
    BY <1>3 DEF NamesMade
  <2> DEFINE check == [i \in Using |-> NameAt(i, under[i])]
  <2>2. \A i \in Using : check[i].id = StableID(i) /\ check[i].start = Start(i)
    BY DEF NameAt, NameCheck
  <2>3. names.checks = {check[i] : i \in Using}
    BY <2>1
  <2> HIDE DEF check
  <2> QED BY <1>1, <2>2, <2>3, OneEach, UsingType DEF EachOnce
<1>4. ASSUME TagsMade(tags.checks) PROVE EachOnce(tags.checks, DOMAIN file.functions)
  <2>1. PICK under : tags.checks = {TagAt(i, under[i]) : i \in DOMAIN file.functions}
    BY <1>4 DEF TagsMade
  <2> DEFINE check == [i \in DOMAIN file.functions |-> TagAt(i, under[i])]
  <2>2. \A i \in DOMAIN file.functions :
          check[i].id = StableID(i) /\ check[i].start = Start(i)
    BY DEF TagAt, TagCheck
  <2>3. tags.checks = {check[i] : i \in DOMAIN file.functions}
    BY <2>1
  <2> HIDE DEF check
  <2> QED BY <1>1, <2>2, <2>3, OneEach DEF EachOnce
<1>5. ASSUME FlowsMade(flows) PROVE Cardinality(flows) = Len(file.functions)
  <2>1. PICK hides : flows = {GraphAt(i, hides[i]) : i \in DOMAIN file.functions}
    BY <1>5 DEF FlowsMade
  <2> DEFINE check == [i \in DOMAIN file.functions |-> GraphAt(i, hides[i])]
  <2>2. \A i \in DOMAIN file.functions : check[i].id = StableID(i)
    BY DEF GraphAt, Graph
  <2>3. flows = {check[i] : i \in DOMAIN file.functions}
    BY <2>1
  <2> HIDE DEF check
  <2>4. Cardinality(flows) = Cardinality(DOMAIN file.functions)
    BY <1>1, <2>2, <2>3, OneEach
  <2>5. DOMAIN file.functions = 1..Len(file.functions) /\ Len(file.functions) \in Nat
    BY <1>1 DEF FileOK
  <2> QED BY <2>4, <2>5, FS_Interval
<1> QED BY <1>1, <1>2, <1>3, <1>4, <1>5 DEF TypeOK, FileOK, Made

\* Functions, edits and revisions stay in their types, and after an analysis
\* every function has exactly one check of each kind, under its own ID.
THEOREM TypesCorrect == Spec => []TypeOK
BY Invariance, TypesFollow, PTL

\* Whatever was kept through how many edits and analyses, name checks are
\* those of a check made afresh (names.go:66), but for the file's directives.
THEOREM NamesStayClean == Spec => []NamesAreClean
BY Invariance, NamesFollow, PTL

\* The same of tag checks (tags.go:138).
THEOREM TagsStayClean == Spec => []TagsAreClean
BY Invariance, TagsFollow, PTL

\* A function's graph is the one that would be built now (controlflow.go:139),
\* unless its parameter has come to hide, or no longer hides, a name in use.
THEOREM FlowsStayClean == Spec => []FlowsAreClean
BY Invariance, FlowsFollow, PTL
=============================================================================
