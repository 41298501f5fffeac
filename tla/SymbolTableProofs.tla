------------------------- MODULE SymbolTableProofs -------------------------
(***************************************************************************)
(* Proofs about SymbolTable, for every value of its constants and texts of *)
(* any length: the builder's table is what the text means, position by     *)
(* position, and patches keep it so.                                       *)
(*                                                                         *)
(* The builder goes over the text once, so the argument is an induction    *)
(* over its events.  WalkedRight says what a builder has after the first k *)
(* of them: which scopes there are and where they begin (ScopesRight),     *)
(* what is being walked (StackRight), and that the symbols, the owners of  *)
(* names, the uses and the reports are those of the text up to k           *)
(* (ContentsRight).  The heart are ResolveIs, that looking up the chain of *)
(* scopes finds what the nesting of the text has, and TogetherNext, that   *)
(* declarations go together as long as none of them was reported.  What is *)
(* left unresolved is resolved with the whole file (ResolvedIs, BuiltIs).  *)
(*                                                                         *)
(* A patch is compared with a build of the edited text.  Two texts that    *)
(* differ in the name of one use have tables that differ in that use only  *)
(* (BuiltAlike).  Thus the inductive invariant, Inv, says that the table   *)
(* is the one a clean build gives with the patched uses resolved by their  *)
(* names alone; and for a settled name that is what it means               *)
(* (SettledMeaning).                                                       *)
(***************************************************************************)
EXTENDS SymbolTable, WellFoundedInduction, FiniteSetTheorems, TLAPS

Size == Len(text)
\* The place where the innermost function or block around k begins.
Inner(k) == Nearest(Around[k])

\* Functions are at file scope, blocks and ends inside of functions.
TextOK ==
  /\ text \in Seq(Events)
  /\ \A k \in 1..Size : /\ text[k].what = "function" => Around[k] = {}
                        /\ text[k].what \in {"block", "end"} => Around[k] # {}

Region(p) == {p, 0} \cup (IF p = 0 THEN {} ELSE Around[p])
Sig(k) == IF Function(k) THEN text[k].signature ELSE Variable
\* k is in a function whose details are not kept.
Hidden(m, k) == \E o \in Around[k] : Function(o) /\ ~KeepDetails(m, text[o].signature)
Declared(m, k) == text[k].what \in {"variable", "function"} /\ ~Hidden(m, k)
Used(m, k) == text[k].what = "use" /\ m # "declarations" /\ ~Hidden(m, k)
Placed(b, id) == IF id = 0 THEN 0 ELSE b.symbols[id].place

SymbolType == [name : Names, signature : Signatures \cup {Variable}, scope : Nat, place : Nat]
ScopeType == [parent : Nat, names : [Names -> Nat]]
ReferenceType ==
  [name : Names, args : Arguments \cup {NotACall}, scope : Nat, place : Nat, resolved : Nat]
BuilderType ==
  [symbols : Seq(SymbolType), scopes : Seq(ScopeType), references : Seq(ReferenceType),
   reported : SUBSET Nat, at : Seq(Nat)]

Increasing(f) == \A i, j \in DOMAIN f : i < j => f[i] < f[j]
InOrder(entries) == \A i, j \in DOMAIN entries : i < j => entries[i].place < entries[j].place

\* What a builder has after the first k events: its scopes begin at the
\* places of `begin'.
ScopesRight(m, b, k, begin) ==
  /\ begin \in Seq(Nat) /\ Len(begin) = Len(b.scopes) /\ Len(begin) >= 1
  /\ begin[1] = 0 /\ b.scopes[1].parent = 0 /\ Increasing(begin)
  /\ \A s \in 1..Len(begin) : begin[s] \in 0..k /\ ~Hidden(m, begin[s] + 1)
  /\ \A s \in 2..Len(begin) : /\ b.scopes[s].parent \in 1..s - 1
                              /\ begin[b.scopes[s].parent] = Inner(begin[s])
StackRight(m, b, k, begin, opens) ==
  /\ opens \in Seq(Nat) /\ Len(opens) = Len(b.at) /\ Len(opens) >= 1
  /\ opens[1] = 0 /\ Increasing(opens)
  /\ {opens[j] : j \in 1..Len(opens)} = Around[k + 1] \cup {0}
  /\ \A j \in 1..Len(opens) :
       /\ Hidden(m, opens[j] + 1) => b.at[j] = 0
       /\ ~Hidden(m, opens[j] + 1) => b.at[j] \in 1..Len(begin) /\ begin[b.at[j]] = opens[j]
SymbolsRight(m, b, k, begin) ==
  /\ InOrder(b.symbols)
  /\ \A id \in DOMAIN b.symbols :
       LET symbol == b.symbols[id]
           p == symbol.place
       IN /\ p \in 1..k /\ Declared(m, p)
          /\ symbol.name = text[p].name /\ symbol.signature = Sig(p)
          /\ symbol.scope \in 1..Len(begin) /\ begin[symbol.scope] = Inner(p)
  /\ \A p \in 1..k : Declared(m, p) => \E id \in DOMAIN b.symbols : b.symbols[id].place = p
NamesRight(b, k, begin) ==
  \A s \in 1..Len(begin), n \in Names :
    LET id == b.scopes[s].names[n]
    IN id \in 0..Len(b.symbols) /\ Placed(b, id) = Owner(Declarations(begin[s], n, k))
ReferencesRight(m, b, k, begin) ==
  /\ InOrder(b.references)
  /\ \A i \in DOMAIN b.references :
       LET use == b.references[i]
           p == use.place
       IN /\ p \in 1..k /\ Used(m, p)
          /\ use.name = text[p].name /\ use.args = text[p].args
          /\ use.scope \in 1..Len(begin) /\ begin[use.scope] = Inner(p)
          /\ use.resolved \in 0..Len(b.symbols)
          /\ Placed(b, use.resolved) = Or(Called(p, p - 1), Named(p, p - 1))
  /\ \A p \in 1..k : Used(m, p) => \E i \in DOMAIN b.references : b.references[i].place = p
ReportedRight(b, k, begin) ==
  /\ b.reported \subseteq DOMAIN b.symbols
  /\ \A s \in 1..Len(begin), n \in Names :
       LET places == Declarations(begin[s], n, k)
       IN Together(places) <=> \A id \in b.reported : b.symbols[id].place \notin places
ContentsRight(m, b, k, begin) ==
  /\ SymbolsRight(m, b, k, begin) /\ NamesRight(b, k, begin)
  /\ ReferencesRight(m, b, k, begin) /\ ReportedRight(b, k, begin)
WalkedRight(m, b, k) ==
  /\ b \in BuilderType
  /\ \E begin, opens : /\ ScopesRight(m, b, k, begin)
                       /\ StackRight(m, b, k, begin, opens)
                       /\ ContentsRight(m, b, k, begin)
----------------------------------------------------------------------------
(* Induction and sets of numbers.                                          *)

Less == {ss \in Nat \X Nat : ss[1] < ss[2]}

\* A set of numbers has a least one.
LEMMA Least ==
  ASSUME NEW T \in SUBSET Nat, T # {}
  PROVE  \E n \in T : \A m \in T : n <= m
<1>1. IsWellFoundedOn(Less, Nat)
  BY NatLessThanWellFounded DEF OpToRel, Less
<1>2. PICK n \in T : \A m \in T : <<m, n>> \notin Less
  BY <1>1, WFMin, Zenon
<1>3. ASSUME NEW m \in T PROVE n <= m
  <2>1. ~(m < n)
    BY <1>2 DEF Less
  <2> QED BY <2>1
<1> QED BY <1>2, <1>3

\* Induction, for a set.
LEMMA Induction ==
  ASSUME NEW S, 0 \in S, \A n \in Nat : n \in S => n + 1 \in S
  PROVE  Nat \subseteq S
<1> DEFINE T == Nat \ S
<1> SUFFICES ASSUME T # {} PROVE FALSE
  OBVIOUS
<1>1. PICK n \in T : \A m \in T : n <= m
  BY Least
<1> QED BY <1>1

\* A set of numbers has a least element, which Min is.
LEMMA MinOf ==
  ASSUME NEW T \in SUBSET Nat, T # {}
  PROVE  Min(T) \in T /\ \A m \in T : Min(T) <= m
BY Least DEF Min

\* A set of numbers with a bound has a greatest one.
LEMMA MaxOf ==
  ASSUME NEW n \in Nat, NEW T \in SUBSET (0..n), T # {}
  PROVE  Max(T) \in T /\ \A m \in T : m <= Max(T)
<1> DEFINE U == {n - m : m \in T}
<1>1. U \in SUBSET Nat /\ U # {}
  <2>1. \A m \in T : m \in Nat /\ n - m \in Nat
    OBVIOUS
  <2> QED BY <2>1
<1>2. PICK u \in U : \A v \in U : u <= v
  BY <1>1, Least
<1>3. PICK m \in T : u = n - m
  OBVIOUS
<1>4. ASSUME NEW k \in T PROVE k <= m
  <2>1. n - k \in U
    OBVIOUS
  <2>2. n - m <= n - k
    BY <1>2, <1>3, <2>1
  <2> HIDE DEF U
  <2>3. k \in Nat /\ m \in Nat
    OBVIOUS
  <2> QED BY <2>2, <2>3
<1>5. \E x \in T : \A y \in T : x >= y
  BY <1>4
<1> QED BY <1>5 DEF Max

\* What Max and Min are is known if a candidate is.
LEMMA MaxIs ==
  ASSUME NEW T \in SUBSET Nat, NEW m \in T, \A k \in T : k <= m
  PROVE  Max(T) = m
<1>1. \E x \in T : \A k \in T : x >= k
  OBVIOUS
<1>2. Max(T) \in T /\ \A k \in T : Max(T) >= k
  BY <1>1 DEF Max
<1>3. Max(T) \in Nat /\ Max(T) >= m /\ Max(T) <= m /\ m \in Nat
  BY <1>2
<1> QED BY <1>3

\* And so for Min.
LEMMA MinIs ==
  ASSUME NEW T \in SUBSET Nat, NEW m \in T, \A k \in T : m <= k
  PROVE  Min(T) = m
<1>1. Min(T) \in T /\ \A k \in T : Min(T) <= k
  BY MinOf
<1>2. Min(T) \in Nat /\ Min(T) >= m /\ Min(T) <= m /\ m \in Nat
  BY <1>1
<1> QED BY <1>2
----------------------------------------------------------------------------
(* What is around a position.                                              *)

AroundStep(f, k) ==
  IF k = 1 THEN {}
  ELSE IF Opens(k - 1) THEN f[k - 1] \cup {k - 1}
  ELSE IF text[k - 1].what = "end" THEN f[k - 1] \ {Max(f[k - 1])}
  ELSE f[k - 1]

\* Around obeys its recursion at every position of the text.
LEMMA AroundIs ==
  ASSUME Size \in Nat
  PROVE  \A k \in 1..Size + 1 : Around[k] = AroundStep(Around, k)
<1> DEFINE Is(g, k) == g = [i \in 1..k |-> AroundStep(g, i)]
           S == {k \in Nat : \E g : Is(g, k)}
<1>1. 0 \in S
  <2>1. Is([i \in 1..0 |-> {}], 0)
    OBVIOUS
  <2> HIDE DEF Is
  <2> QED BY <2>1
<1>2. ASSUME NEW k \in Nat, k \in S PROVE k + 1 \in S
  <2> HIDE DEF Is
  <2>1. PICK g : Is(g, k)
    BY <1>2
  <2> DEFINE last == AroundStep(g, k + 1)
             h == [i \in 1..k + 1 |-> IF i = k + 1 THEN last ELSE g[i]]
  <2>2. ASSUME NEW i \in 1..k + 1 PROVE h[i] = AroundStep(h, i)
    <3>1. i # 1 => i - 1 \in 1..k /\ h[i - 1] = g[i - 1]
      <4> HIDE DEF last
      <4>1. i # 1 => i - 1 \in 1..k + 1 /\ i - 1 # k + 1 /\ i - 1 \in 1..k
        OBVIOUS
      <4> QED BY <4>1
    <3>2. h[i] = AroundStep(g, i)
      <4>1. CASE i = k + 1
        BY <4>1
      <4>2. CASE i # k + 1
        <5>1. i \in 1..k /\ h[i] = g[i]
          BY <4>2
        <5> QED BY <2>1, <5>1 DEF Is
      <4> QED BY <4>1, <4>2
    <3> HIDE DEF h
    <3> QED BY <3>1, <3>2 DEF AroundStep
  <2>3. Is(h, k + 1)
    <3>1. h = [i \in 1..k + 1 |-> h[i]]
      OBVIOUS
    <3> HIDE DEF h
    <3> QED BY <2>2, <3>1 DEF Is
  <2> QED BY <2>3
<1>3. Size + 1 \in S
  <2> HIDE DEF S
  <2> QED BY <1>1, <1>2, Induction
<1>4. Around = CHOOSE g : Is(g, Size + 1)
  BY DEF Around, AroundStep, Size
<1>5. Is(Around, Size + 1)
  <2> HIDE DEF Is
  <2> QED BY <1>3, <1>4
<1> HIDE DEF Is
<1>6. Around = [i \in 1..Size + 1 |-> AroundStep(Around, i)]
  BY <1>5 DEF Is
<1> QED BY <1>6

\* What an event does to what is around: it opens, it ends, or neither.
LEMMA AroundNext ==
  ASSUME Size \in Nat, NEW k \in 1..Size
  PROVE  /\ Opens(k) => Around[k + 1] = Around[k] \cup {k}
         /\ ~Opens(k) /\ text[k].what = "end" => Around[k + 1] = Around[k] \ {Max(Around[k])}
         /\ ~Opens(k) /\ text[k].what # "end" => Around[k + 1] = Around[k]
<1>1. k + 1 \in 1..Size + 1 /\ (k + 1) - 1 = k /\ k + 1 # 1
  OBVIOUS
<1>2. Around[k + 1] = AroundStep(Around, k + 1)
  BY <1>1, AroundIs
<1> QED BY <1>1, <1>2 DEF AroundStep

\* Nothing is around the first event.
LEMMA AroundFirst ==
  ASSUME Size \in Nat
  PROVE  Around[1] = {}
<1>1. 1 \in 1..Size + 1
  OBVIOUS
<1> QED BY <1>1, AroundIs DEF AroundStep

\* What is open at a place begins before it.
LEMMA AroundType ==
  ASSUME Size \in Nat, NEW j \in 1..Size + 1
  PROVE  Around[j] \in SUBSET (1..j - 1) /\ \A o \in Around[j] : Opens(o)
<1> DEFINE P(k) == Around[k] \in SUBSET (1..k - 1) /\ \A o \in Around[k] : Opens(o)
           S == {k \in Nat : k <= Size => P(k + 1)}
<1>1. 0 \in S
  BY AroundFirst
<1>2. ASSUME NEW k \in Nat, k \in S PROVE k + 1 \in S
  <2> SUFFICES ASSUME k + 1 <= Size PROVE P(k + 1 + 1)
    OBVIOUS
  <2>1. k + 1 \in 1..Size /\ P(k + 1)
    BY <1>2
  <2>2. \/ Around[k + 1 + 1] = Around[k + 1] \cup {k + 1} /\ Opens(k + 1)
        \/ Around[k + 1 + 1] \subseteq Around[k + 1]
    BY <2>1, AroundNext
  <2> QED BY <2>1, <2>2
<1>3. j - 1 \in S
  <2> HIDE DEF S
  <2>1. j - 1 \in Nat
    OBVIOUS
  <2> QED BY <1>1, <1>2, <2>1, Induction
<1>4. P((j - 1) + 1)
  BY <1>3
<1>5. (j - 1) + 1 = j
  OBVIOUS
<1> HIDE DEF P
<1>6. P(j)
  BY <1>4, <1>5
<1> QED BY <1>6 DEF P

\* What is around something open is what else is open and begins before it.
LEMMA AroundNested ==
  ASSUME Size \in Nat, NEW j \in 1..Size + 1, NEW o \in Around[j]
  PROVE  {x \in Around[j] : x < o} = Around[o]
<1> DEFINE P(k) == \A p \in Around[k] : {x \in Around[k] : x < p} = Around[p]
           S == {k \in Nat : k <= Size => P(k + 1)}
<1>1. 0 \in S
  BY AroundFirst
<1>2. ASSUME NEW k \in Nat, k \in S PROVE k + 1 \in S
  <2> SUFFICES ASSUME k + 1 <= Size PROVE P(k + 1 + 1)
    OBVIOUS
  <2>1. k + 1 \in 1..Size /\ k + 1 \in 1..Size + 1 /\ P(k + 1)
    BY <1>2
  <2>2. Around[k + 1] \in SUBSET (1..k)
    <3>1. (k + 1) - 1 = k
      OBVIOUS
    <3> QED BY <2>1, <3>1, AroundType
  <2>3. CASE Opens(k + 1)
    <3>1. Around[k + 1 + 1] = Around[k + 1] \cup {k + 1}
      BY <2>1, <2>3, AroundNext
    <3>2. ASSUME NEW p \in Around[k + 1]
          PROVE  {x \in Around[k + 1 + 1] : x < p} = Around[p]
      <4>1. {x \in Around[k + 1 + 1] : x < p} = {x \in Around[k + 1] : x < p}
        BY <2>2, <3>1
      <4> QED BY <2>1, <4>1
    <3>3. {x \in Around[k + 1 + 1] : x < k + 1} = Around[k + 1]
      BY <2>2, <3>1
    <3> QED BY <3>1, <3>2, <3>3
  <2>4. CASE ~Opens(k + 1) /\ text[k + 1].what = "end"
    <3>1. Around[k + 1 + 1] = Around[k + 1] \ {Max(Around[k + 1])}
      BY <2>1, <2>4, AroundNext
    <3>2. ASSUME NEW p \in Around[k + 1 + 1]
          PROVE  {x \in Around[k + 1 + 1] : x < p} = Around[p]
      <4>1. p \in Around[k + 1] /\ Around[k + 1] # {} /\ Around[k + 1] \in SUBSET (0..k)
        BY <2>2, <3>1
      <4>2. p <= Max(Around[k + 1]) /\ Max(Around[k + 1]) \in Nat /\ p \in Nat
        <5>1. k \in Nat
          OBVIOUS
        <5>2. Max(Around[k + 1]) \in Around[k + 1]
                /\ \A m \in Around[k + 1] : m <= Max(Around[k + 1])
          BY <4>1, <5>1, MaxOf
        <5> QED BY <4>1, <5>2
      <4>3. {x \in Around[k + 1 + 1] : x < p} = {x \in Around[k + 1] : x < p}
        BY <3>1, <4>1, <4>2
      <4> QED BY <2>1, <4>1, <4>3
    <3> QED BY <3>2
  <2>5. CASE ~Opens(k + 1) /\ text[k + 1].what # "end"
    <3>1. Around[k + 1 + 1] = Around[k + 1]
      BY <2>1, <2>5, AroundNext
    <3> QED BY <2>1, <3>1
  <2> QED BY <2>3, <2>4, <2>5
<1>3. j - 1 \in S
  <2> HIDE DEF S
  <2>1. j - 1 \in Nat
    OBVIOUS
  <2> QED BY <1>1, <1>2, <2>1, Induction
<1>4. P((j - 1) + 1)
  BY <1>3
<1>5. (j - 1) + 1 = j
  OBVIOUS
<1> HIDE DEF P
<1>6. P(j)
  BY <1>4, <1>5
<1> QED BY <1>6 DEF P

\* Inner(k) is 0, or open at k; what is around both is around the inside of it.
LEMMA InnerAround ==
  ASSUME Size \in Nat, NEW k \in 1..Size + 1
  PROVE  /\ Inner(k) \in 0..k - 1
         /\ Around[k] = {} => Inner(k) = 0
         /\ Around[k] # {} => Inner(k) \in Around[k]
         /\ Around[k] = IF Inner(k) = 0 THEN {} ELSE Around[Inner(k)] \cup {Inner(k)}
         /\ Around[Inner(k) + 1] = Around[k]
<1>1. Around[k] \in SUBSET (1..k - 1) /\ \A o \in Around[k] : Opens(o)
  BY AroundType
<1>2. CASE Around[k] = {}
  <2>1. Inner(k) = 0
    <3>1. Around[k] \cup {0} \in SUBSET Nat /\ 0 \in Around[k] \cup {0}
            /\ \A x \in Around[k] \cup {0} : x <= 0
      BY <1>2
    <3> QED BY <3>1, MaxIs DEF Inner, Nearest
  <2> QED BY <1>2, <2>1, AroundFirst
<1>3. CASE Around[k] # {}
  <2>1. Around[k] \cup {0} \in SUBSET (0..k - 1) /\ k - 1 \in Nat
    BY <1>1
  <2>2. Inner(k) \in Around[k] \cup {0} /\ \A x \in Around[k] : x <= Inner(k)
    BY <2>1, MaxOf DEF Inner, Nearest
  <2>3. Inner(k) \in Around[k]
    BY <1>1, <1>3, <2>2
  <2>4. {x \in Around[k] : x < Inner(k)} = Around[Inner(k)]
    BY <2>3, AroundNested
  <2>5. Around[k] = Around[Inner(k)] \cup {Inner(k)}
    BY <1>1, <2>2, <2>3, <2>4
  <2>6. Inner(k) \in 1..Size /\ Opens(Inner(k))
    BY <1>1, <2>3
  <2>7. Around[Inner(k) + 1] = Around[Inner(k)] \cup {Inner(k)}
    BY <2>6, AroundNext
  <2> QED BY <1>1, <1>3, <2>3, <2>5, <2>6, <2>7
<1> QED BY <1>2, <1>3
----------------------------------------------------------------------------
(* Declarations and their owners.                                          *)

\* Declarations are positions up to the last.
LEMMA DeclarationsType ==
  ASSUME NEW p, NEW n, NEW k \in Nat
  PROVE  Declarations(p, n, k) \in SUBSET (1..k)
BY DEF Declarations

\* One event more adds itself to the declarations of its name and scope, if it
\* declares, and leaves the others.
LEMMA DeclarationsNext ==
  ASSUME NEW p, NEW n, NEW k \in Nat
  PROVE  /\ Declares(k + 1) /\ text[k + 1].name = n /\ Inner(k + 1) = p
              => Declarations(p, n, k + 1) = Declarations(p, n, k) \cup {k + 1}
         /\ ~(Declares(k + 1) /\ text[k + 1].name = n /\ Inner(k + 1) = p)
              => Declarations(p, n, k + 1) = Declarations(p, n, k)
<1> DEFINE P(j) == Declares(j) /\ text[j].name = n /\ Nearest(Around[j]) = p
<1>1. Declarations(p, n, k) = {j \in 1..k : P(j)}
        /\ Declarations(p, n, k + 1) = {j \in 1..k + 1 : P(j)}
  BY DEF Declarations
<1>2. \A j : j \in 1..k + 1 <=> j \in 1..k \/ j = k + 1
  OBVIOUS
<1>3. P(k + 1) <=> Declares(k + 1) /\ text[k + 1].name = n /\ Inner(k + 1) = p
  BY DEF Inner
<1> HIDE DEF P
<1>4. P(k + 1) => Declarations(p, n, k + 1) = Declarations(p, n, k) \cup {k + 1}
  BY <1>1, <1>2
<1>5. ~P(k + 1) => Declarations(p, n, k + 1) = Declarations(p, n, k)
  BY <1>1, <1>2
<1> QED BY <1>3, <1>4, <1>5

\* The owner is one of the declarations, and 0 only if there is none.
LEMMA OwnerType ==
  ASSUME NEW D \in SUBSET (Nat \ {0})
  PROVE  /\ D = {} => Owner(D) = 0
         /\ D # {} => Owner(D) \in D
<1> DEFINE defs == {k \in D : Function(k) /\ ~Forward(k)}
<1>1. defs \in SUBSET Nat /\ defs \subseteq D /\ D \in SUBSET Nat
  OBVIOUS
<1>2. Owner(D) = IF D # {} /\ Forward(Min(D)) /\ defs # {} THEN Min(defs) ELSE First(D)
  BY DEF Owner
<1> HIDE DEF defs
<1>3. D # {} => Min(D) \in D
  BY <1>1, MinOf
<1>4. defs # {} => Min(defs) \in defs
  BY <1>1, MinOf
<1> QED BY <1>1, <1>2, <1>3, <1>4 DEF First

\* The owner with one more declaration, as declare has it.
LEMMA OwnerNext ==
  ASSUME NEW D \in SUBSET (Nat \ {0}), NEW q \in Nat \ {0}, \A k \in D : k < q
  PROVE  Owner(D \cup {q}) =
           IF D # {} /\ ~(Forward(Owner(D)) /\ Function(q) /\ ~Forward(q)) THEN Owner(D) ELSE q
<1> DEFINE Defs(E) == {k \in E : Function(k) /\ ~Forward(k)}
           E == D \cup {q}
<1>1. \A S : Owner(S) = IF S # {} /\ Forward(Min(S)) /\ Defs(S) # {}
                         THEN Min(Defs(S)) ELSE First(S)
  BY DEF Owner
<1>2. Defs(D) \in SUBSET Nat
        /\ Defs(E) = Defs(D) \cup (IF Function(q) /\ ~Forward(q) THEN {q} ELSE {})
  OBVIOUS
<1>3. D # {} => Min(D) \in D /\ Min(E) = Min(D)
  <2> SUFFICES ASSUME D # {} PROVE Min(D) \in D /\ Min(E) = Min(D)
    OBVIOUS
  <2>1. Min(D) \in D /\ \A k \in D : Min(D) <= k
    BY MinOf
  <2>2. E \in SUBSET Nat /\ Min(D) \in E /\ \A k \in E : Min(D) <= k
    <3>1. Min(D) < q /\ Min(D) \in Nat
      BY <2>1
    <3> HIDE DEF E
    <3>2. \A k \in E : k \in D \/ k = q
      BY DEF E
    <3>3. E \in SUBSET Nat /\ Min(D) \in E
      BY <2>1 DEF E
    <3>4. Min(D) <= q
      BY <3>1
    <3> QED BY <2>1, <3>2, <3>3, <3>4
  <2> HIDE DEF E
  <2> QED BY <2>1, <2>2, MinIs
<1>4. D = {} => Min(E) = q
  <2> SUFFICES ASSUME D = {} PROVE Min(E) = q
    OBVIOUS
  <2>1. E \in SUBSET Nat /\ q \in E /\ \A k \in E : q <= k
    OBVIOUS
  <2> HIDE DEF E
  <2> QED BY <2>1, MinIs
<1>5. Defs(D) # {} => Min(Defs(D)) \in Defs(D) /\ Min(Defs(E)) = Min(Defs(D))
  <2> SUFFICES ASSUME Defs(D) # {} PROVE Min(Defs(D)) \in Defs(D) /\ Min(Defs(E)) = Min(Defs(D))
    OBVIOUS
  <2>1. Min(Defs(D)) \in Defs(D) /\ \A k \in Defs(D) : Min(Defs(D)) <= k
    BY <1>2, MinOf
  <2>2. Defs(D) \subseteq D
    OBVIOUS
  <2> HIDE DEF Defs
  <2>3. Defs(E) \in SUBSET Nat /\ Min(Defs(D)) \in Defs(E)
          /\ \A k \in Defs(E) : Min(Defs(D)) <= k
    BY <1>2, <2>1, <2>2
  <2> QED BY <2>1, <2>3, MinIs
<1>6. Defs(D) = {} => Defs(E) = {} \/ (Function(q) /\ ~Forward(q) /\ Min(Defs(E)) = q)
  <2> SUFFICES ASSUME Defs(D) = {}, Function(q) /\ ~Forward(q) PROVE Min(Defs(E)) = q
    BY <1>2
  <2> HIDE DEF Defs
  <2>1. Defs(E) = {q}
    BY <1>2
  <2>2. Defs(E) \in SUBSET Nat /\ q \in Defs(E) /\ \A k \in Defs(E) : q <= k
    BY <2>1
  <2> QED BY <2>2, MinIs
<1>7. \A k \in Defs(D) : ~Forward(k)
  OBVIOUS
<1>8. \A k : Forward(k) => Function(k)
  BY DEF Forward
<1>9. E # {} /\ (Defs(E) # {} => (Defs(D) # {} \/ (Function(q) /\ ~Forward(q))))
        /\ (Defs(D) # {} => Defs(E) # {}) /\ (Function(q) /\ ~Forward(q) => Defs(E) # {})
  BY <1>2
<1>15. D = {} => Defs(D) = {}
  OBVIOUS
<1> HIDE DEF Defs, E
<1>10. E = D \cup {q}
  BY DEF E
<1> SUFFICES Owner(E) =
           IF D # {} /\ ~(Forward(Owner(D)) /\ Function(q) /\ ~Forward(q)) THEN Owner(D) ELSE q
  BY <1>10
<1>11. CASE D = {}
  <2>1. Min(E) = q /\ (Defs(E) # {} => ~Forward(q))
    BY <1>4, <1>6, <1>9, <1>11, <1>15
  <2>2. Owner(E) = q
    BY <1>1, <1>9, <2>1, Zenon DEF First
  <2> QED BY <1>11, <2>2
<1>12. CASE D # {} /\ Forward(Min(D)) /\ Defs(D) # {}
  <2>1. Owner(D) = Min(Defs(D)) /\ Owner(E) = Min(Defs(D))
    BY <1>1, <1>3, <1>5, <1>9, <1>12, Zenon
  <2> QED BY <1>5, <1>7, <1>12, <2>1
<1>13. CASE D # {} /\ Forward(Min(D)) /\ Defs(D) = {}
  <2>1. Owner(D) = Min(D)
    BY <1>1, <1>13, Zenon DEF First
  <2>2. Owner(E) = IF Defs(E) # {} THEN q ELSE Min(D)
    BY <1>1, <1>3, <1>6, <1>9, <1>13 DEF First
  <2>3. Defs(E) # {} <=> Function(q) /\ ~Forward(q)
    BY <1>9, <1>13
  <2> QED BY <1>13, <2>1, <2>2, <2>3
<1>14. CASE D # {} /\ ~Forward(Min(D))
  <2>1. Owner(D) = Min(D) /\ Owner(E) = Min(D)
    BY <1>1, <1>3, <1>9, <1>14 DEF First
  <2> QED BY <1>14, <2>1
<1> QED BY <1>11, <1>12, <1>13, <1>14

----------------------------------------------------------------------------
(* Redeclarations.                                                         *)

\* The fields an event of each kind has.
LEMMA EventTypes ==
  ASSUME text \in Seq(Events), NEW k \in 1..Size
  PROVE  /\ text[k].what \in {"variable", "function", "use", "block", "end"}
         /\ text[k].what \in {"variable", "function", "use"} => text[k].name \in Names
         /\ Function(k) => text[k].signature \in Signatures
         /\ text[k].what = "use" => text[k].args \in Arguments \cup {NotACall}
<1>1. text[k] \in Events
  BY DEF Size
<1> QED BY <1>1 DEF Events, Function

\* The signature a declaration is entered with.
LEMMA SigIs ==
  ASSUME text \in Seq(Events), NEW k \in 1..Size, text[k].what \in {"variable", "function"}
  PROVE  /\ Sig(k) \in Signatures \cup {Variable}
         /\ Callable(Sig(k)) <=> Function(k)
         /\ Sig(k).kind = "forward" <=> Forward(k)
         /\ Sig(k).state \in BOOLEAN /\ (Sig(k).state => Function(k))
         /\ Function(k) => Sig(k) = text[k].signature
         /\ IsTestEntryPoint(Sig(k)) <=> ~Declares(k)
<1>1. CASE Function(k)
  <2>1. text[k].signature \in Signatures
    BY <1>1, EventTypes
  <2>2. /\ text[k].signature.kind \in {"function", "forward"}
        /\ text[k].signature.state \in BOOLEAN /\ text[k].signature.test \in BOOLEAN
    BY <2>1, SignaturesAssumption
  <2> QED BY <1>1, <2>1, <2>2 DEF Sig, Function, Forward, Callable, IsTestEntryPoint, Declares
<1>2. CASE ~Function(k)
  BY <1>2 DEF Sig, Variable, Function, Forward, Callable, IsTestEntryPoint, Declares
<1> QED BY <1>1, <1>2

\* What declare reports of a declaration at q.
Clash(D, q) ==
  /\ D # {} /\ ~ForwardPair(Sig(Owner(D)), Sig(q))
  /\ ~(Sig(Owner(D)).state /\ Sig(q).state)

\* Declarations go together with one more if they did and it is not reported.
LEMMA TogetherNext ==
  ASSUME text \in Seq(Events), NEW D \in SUBSET (1..Size), NEW q \in 1..Size,
         \A k \in D : k < q /\ Declares(k), Declares(q)
  PROVE  Together(D \cup {q}) <=> Together(D) /\ ~Clash(D, q)
<1> DEFINE E == D \cup {q}
           Defs(S) == {k \in S : ~Forward(k)}
           Early(S) == {k \in S : \A d \in Defs(S) : k < d}
           Single(S) == \A j, k \in S : j = k
           Functions(S) == \A k \in S : Function(k)
           States(S) == \A k \in S : Function(k) /\ Sig(k).state
           o == Owner(D)
<1>1. \A k \in E : k \in 1..Size /\ Declares(k) /\ text[k].what \in {"variable", "function"}
  BY DEF Declares
<1>2. \A k \in E : /\ Callable(Sig(k)) <=> Function(k)
                   /\ Sig(k).kind = "forward" <=> Forward(k)
                   /\ Sig(k).state => Function(k)
                   /\ Forward(k) => Function(k)
                   /\ Function(k) => Sig(k) = text[k].signature
  BY <1>1, SigIs DEF Forward
<1>3. \A S : S \subseteq E => (Alike(S) <=> Single(S) \/ States(S))
  BY <1>2 DEF Alike
<1>4. ASSUME NEW S \in SUBSET E
      PROVE  Together(S) <=> Single(S) \/ (Functions(S) /\ Alike(Defs(S)) /\ Alike(Early(S)))
  BY DEF Together
<1>5. ASSUME D # {}
      PROVE  /\ o \in D
             /\ Forward(o) => \A k \in D : Function(k) => Forward(k)
  <2>1. D \in SUBSET (Nat \ {0})
    OBVIOUS
  <2>2. o \in D
    BY <1>5, <2>1, OwnerType
  <2> DEFINE defs == {k \in D : Function(k) /\ ~Forward(k)}
  <2>3. defs # {} /\ Forward(Min(D)) => o = Min(defs)
    BY <1>5 DEF Owner
  <2>4. ~Forward(Min(D)) => o = Min(D)
    BY <1>5 DEF Owner, First
  <2>5. defs # {} => Min(defs) \in defs
    <3>1. defs \in SUBSET Nat
      BY <2>1
    <3> HIDE DEF defs
    <3> QED BY <3>1, MinOf
  <2>6. Forward(o) => defs = {}
    BY <2>3, <2>4, <2>5
  <2> QED BY <2>2, <2>6
<1>6. D # {} => (Clash(D, q) <=> /\ ~(Function(o) /\ Function(q) /\ (Forward(o) <=> ~Forward(q)))
                                 /\ ~(Sig(o).state /\ Sig(q).state))
  <2> SUFFICES ASSUME D # {}
               PROVE  ForwardPair(Sig(o), Sig(q))
                        <=> Function(o) /\ Function(q) /\ (Forward(o) <=> ~Forward(q))
    BY DEF Clash
  <2>1. o \in E /\ q \in E
    BY <1>5
  <2> QED BY <1>2, <2>1 DEF ForwardPair
<1>11. D # {} => ~Single(E)
  <2> SUFFICES ASSUME D # {} PROVE \E j, k \in E : j # k
    OBVIOUS
  <2>0. o \in D
    BY <1>5
  <2> HIDE DEF o, E
  <2>1. o \in D /\ o < q /\ q \in Int
    BY <2>0
  <2>2. o # q /\ o \in E /\ q \in E
    BY <2>1 DEF E
  <2> QED BY <2>2
<1>7. CASE D = {}
  <2>1. Single(E) /\ Single(D) /\ ~Clash(D, q)
    BY <1>7 DEF Clash
  <2>2. Together(E) /\ Together(D)
    BY <2>1 DEF Together
  <2> QED BY <2>1, <2>2
<1>8. CASE D # {} /\ ~Function(q)
  <2>1. ~Functions(E) /\ ~Single(E)
    BY <1>8, <1>11
  <2>2. ~Sig(q).state
    BY <1>2, <1>8
  <2>3. ~Together(E) /\ Clash(D, q)
    BY <1>4, <1>6, <1>8, <2>1, <2>2
  <2> QED BY <2>3
<1>9. CASE D # {} /\ Forward(q)
  <2>1. ~Single(E) /\ (Functions(E) <=> Functions(D)) /\ Defs(E) = Defs(D)
    BY <1>2, <1>9, <1>11
  <2>2. CASE Defs(D) = {}
    <3>1. Early(D) = D /\ Early(E) = E /\ Forward(o)
      BY <1>5, <2>1, <2>2
    <3>2. Alike(Defs(D)) /\ Alike(Defs(E)) /\ Functions(D)
      BY <1>2, <2>1, <2>2 DEF Alike
    <3>3. Together(E) <=> Alike(E)
      BY <1>4, <2>1, <3>1, <3>2
    <3>4. Together(D) <=> Single(D) \/ Alike(D)
      BY <1>4, <3>1, <3>2
    <3>5. Together(E) <=> States(E)
      BY <1>3, <2>1, <3>3
    <3>6. Together(D) <=> Single(D) \/ States(D)
      BY <1>3, <3>4
    <3>7. Clash(D, q) <=> ~(Sig(o).state /\ Sig(q).state)
      BY <1>6, <1>9, <3>1
    <3> QED BY <1>2, <1>5, <1>9, <3>5, <3>6, <3>7
  <2>3. CASE Defs(D) # {}
    <3>1. Early(E) = Early(D)
      <4>1. q \notin Early(E)
        <5>1. PICK d \in Defs(D) : TRUE
          BY <2>3
        <5>2. d \in Defs(E) /\ d < q /\ d \in Int /\ q \in Int
          BY <2>1, <5>1
        <5>3. ~(q < d)
          BY <5>2
        <5> QED BY <5>2, <5>3
      <4> QED BY <2>1, <4>1
    <3>2. Together(E) <=> Functions(D) /\ Alike(Defs(D)) /\ Alike(Early(D))
      BY <1>4, <2>1, <3>1
    <3>3. Together(D) <=> Single(D) \/ (Functions(D) /\ Alike(Defs(D)) /\ Alike(Early(D)))
      BY <1>4
    <3>4. Functions(D) => Function(o) /\ ~Forward(o)
      BY <1>5, <1>9, <2>3
    <3>5. Functions(D) => ~Clash(D, q)
      BY <1>6, <1>9, <3>4, <1>2
    <3>6. Single(D) /\ Functions(D) => Alike(Defs(D)) /\ Alike(Early(D))
      BY DEF Alike
    <3>7. Single(D) /\ ~Functions(D) => Clash(D, q)
      <4> SUFFICES ASSUME Single(D), ~Functions(D) PROVE Clash(D, q)
        OBVIOUS
      <4>1. ~Function(o) /\ ~Sig(o).state
        BY <1>2, <1>5, <1>9
      <4> QED BY <1>6, <1>9, <4>1
    <3> QED BY <3>2, <3>3, <3>5, <3>6, <3>7
  <2> QED BY <2>2, <2>3
<1>10. CASE D # {} /\ Function(q) /\ ~Forward(q)
  <2>1. ~Single(E) /\ (Functions(E) <=> Functions(D)) /\ Defs(E) = Defs(D) \cup {q}
    BY <1>10, <1>11
  <2>2. CASE Defs(D) = {}
    <3>1. Early(D) = D /\ Early(E) = D /\ Forward(o)
      <4>1. \A k \in D : k < q
        OBVIOUS
      <4>2. ~(q < q)
        OBVIOUS
      <4> QED BY <1>5, <2>1, <2>2, <4>1, <4>2
    <3>2. Functions(D) /\ Alike(Defs(D)) /\ Alike(Defs(E)) /\ ~Clash(D, q)
      <4>1. Functions(D) /\ Function(o)
        BY <1>2, <1>5, <1>10, <2>2
      <4>2. Alike(Defs(D)) /\ Alike(Defs(E))
        BY <2>1, <2>2 DEF Alike
      <4>3. ~Clash(D, q)
        BY <1>6, <1>10, <3>1, <4>1
      <4> QED BY <4>1, <4>2, <4>3
    <3>3. Together(E) <=> Alike(D)
      BY <1>4, <2>1, <3>1, <3>2
    <3>4. Together(D) <=> Single(D) \/ Alike(D)
      BY <1>4, <3>1, <3>2
    <3> QED BY <3>2, <3>3, <3>4 DEF Alike
  <2>3. CASE Defs(D) # {}
    <3>1. Early(E) = Early(D)
      <4>1. PICK d \in Defs(D) : TRUE
        BY <2>3
      <4>2. d \in Defs(E) /\ ~(q < d)
        BY <2>1
      <4>3. \A k \in D : k < q
        OBVIOUS
      <4> QED BY <2>1, <4>2, <4>3
    <3>2. Together(E) <=> Functions(D) /\ Alike(Defs(E)) /\ Alike(Early(D))
      BY <1>4, <2>1, <3>1
    <3>3. Together(D) <=> Single(D) \/ (Functions(D) /\ Alike(Defs(D)) /\ Alike(Early(D)))
      BY <1>4
    <3>4. Functions(D) => o \in Defs(D)
      BY <1>5, <2>3
    <3>5. Alike(Defs(E)) <=> States(Defs(E))
      <4>1. ~Single(Defs(E))
        <5>1. PICK d \in Defs(D) : TRUE
          BY <2>3
        <5>2. d \in Defs(E) /\ q \in Defs(E) /\ d < q /\ d \in Int
          BY <2>1, <5>1
        <5>3. d # q
          BY <5>2
        <5> QED BY <5>2, <5>3
      <4> QED BY <1>3, <4>1
    <3>6. Clash(D, q) <=> /\ ~(Function(o) /\ Forward(o)) /\ ~(Sig(o).state /\ Sig(q).state)
      BY <1>6, <1>10
    <3>7. Together(E) => Together(D) /\ ~Clash(D, q)
      <4> SUFFICES ASSUME Together(E) PROVE Together(D) /\ ~Clash(D, q)
        OBVIOUS
      <4>1. States(Defs(E)) /\ Functions(D)
        BY <3>2, <3>5
      <4>2. Sig(o).state /\ Sig(q).state
        BY <2>1, <3>4, <4>1
      <4>3. Alike(Defs(D))
        BY <1>3, <2>1, <4>1
      <4> QED BY <3>2, <3>3, <3>6, <4>1, <4>2, <4>3
    <3>8. Together(D) /\ ~Clash(D, q) => Together(E)
      <4> SUFFICES ASSUME Together(D), ~Clash(D, q) PROVE Together(E)
        OBVIOUS
      <4>1. CASE Single(D)
        <5>1. o \in Defs(D) /\ D = {o}
          BY <1>5, <1>10, <2>3, <4>1
        <5>2. Sig(o).state /\ Sig(q).state
          BY <3>6, <5>1
        <5>3. Functions(D) /\ Alike(Early(D)) /\ States(Defs(E))
          BY <1>2, <1>10, <2>1, <4>1, <5>1, <5>2 DEF Alike
        <5> QED BY <3>2, <3>5, <5>3
      <4>2. CASE ~Single(D)
        <5>1. Functions(D) /\ Alike(Defs(D)) /\ Alike(Early(D))
          BY <3>3, <4>2
        <5>2. o \in Defs(D) /\ Sig(o).state /\ Sig(q).state
          BY <3>4, <3>6, <5>1
        <5>3. States(Defs(D))
          BY <1>2, <1>3, <5>1, <5>2
        <5> QED BY <1>10, <2>1, <3>2, <3>5, <5>1, <5>2, <5>3
      <4> QED BY <4>1, <4>2
    <3> QED BY <3>7, <3>8
  <2> QED BY <2>2, <2>3
<1> QED BY <1>2, <1>7, <1>8, <1>9, <1>10

----------------------------------------------------------------------------
(* Scopes and what is looked up in them.                                   *)

\* The region of a place is the place and the region of what it is in.
LEMMA RegionNext ==
  ASSUME Size \in Nat, NEW p \in 1..Size
  PROVE  Region(p) = {p} \cup Region(Inner(p))
<1>1. /\ Inner(p) \in Nat
      /\ Around[p] = IF Inner(p) = 0 THEN {} ELSE Around[Inner(p)] \cup {Inner(p)}
  <2>1. p \in 1..Size + 1
    OBVIOUS
  <2>2. Inner(p) \in 0..p - 1
    BY <2>1, InnerAround
  <2>3. Inner(p) \in Nat
    BY <2>2
  <2> QED BY <2>1, <2>3, InnerAround
<1> QED BY <1>1 DEF Region

\* The scopes of a chain are those that begin in a region.
LEMMA ChainIs ==
  ASSUME Size \in Nat, NEW m, NEW b, NEW k \in 0..Size, NEW begin,
         ScopesRight(m, b, k, begin), b.scopes \in Seq(ScopeType),
         NEW scope \in 1..Len(begin)
  PROVE  Chain(b, scope) = {u \in 1..Len(begin) : begin[u] \in Region(begin[scope])}
<1> DEFINE n == Len(begin)
           Of(s) == {u \in 1..n : begin[u] \in Region(begin[s])}
           Step(f, i) == {i} \cup (IF b.scopes[i].parent = 0 THEN {} ELSE f[b.scopes[i].parent])
           Is(f) == f = [i \in DOMAIN b.scopes |-> Step(f, i)]
           outwards == CHOOSE f : Is(f)
           w == [i \in 1..n |-> Of(i)]
           S == {i \in Nat : \A j \in 1..n : j <= i => outwards[j] = Of(j)}
<1>1. Chain(b, scope) = outwards[scope]
  BY DEF Chain
<1>2. /\ n \in Nat /\ n >= 1 /\ DOMAIN b.scopes = 1..n /\ begin \in Seq(Nat)
      /\ begin[1] = 0 /\ b.scopes[1].parent = 0
  BY DEF ScopesRight
<1>3. \A i, j \in 1..n : begin[i] \in Nat /\ (i < j => begin[i] < begin[j])
  <2>1. Increasing(begin) /\ DOMAIN begin = 1..n
    BY <1>2 DEF ScopesRight
  <2>2. \A i \in 1..n : begin[i] \in Nat
    BY <1>2
  <2> QED BY <2>1, <2>2 DEF Increasing
<1>4. ASSUME NEW i \in 1..n, NEW j \in 1..n, begin[i] = begin[j]
      PROVE  i = j
  <2>1. ~(i < j) /\ ~(j < i)
    BY <1>3, <1>4
  <2> QED BY <2>1
<1>5. ASSUME NEW i \in 2..n
      PROVE  /\ b.scopes[i].parent \in 1..i - 1
             /\ Region(begin[i]) = {begin[i]} \cup Region(begin[b.scopes[i].parent])
  <2>1. begin[i] \in 0..k /\ begin[i] > 0
    <3>1. i \in 1..n /\ 1 \in 1..n /\ 1 < i
      OBVIOUS
    <3>2. begin[1] < begin[i] /\ begin[i] \in Nat
      BY <1>3, <3>1
    <3> QED BY <1>2, <3>1, <3>2 DEF ScopesRight
  <2>2. begin[i] \in 1..Size
    BY <2>1
  <2> QED BY <2>2, RegionNext DEF ScopesRight
<1>6. ASSUME NEW i \in 1..n PROVE Of(i) = Step(w, i)
  <2>1. CASE i = 1
    <3>1. Region(begin[1]) = {0}
      BY <1>2 DEF Region
    <3>2. Of(1) = {1}
      BY <1>2, <1>4, <3>1
    <3> QED BY <1>2, <2>1, <3>2
  <2>2. CASE i # 1
    <3> DEFINE p == b.scopes[i].parent
    <3>1. p \in 1..i - 1 /\ Region(begin[i]) = {begin[i]} \cup Region(begin[p])
      <4>1. i \in 2..n
        BY <1>2, <2>2
      <4> HIDE DEF n
      <4> QED BY <1>5, <4>1
    <3>2. p \in 1..n /\ p # 0
      BY <1>2, <3>1
    <3>3. {u \in 1..n : begin[u] = begin[i]} = {i}
      BY <1>4
    <3>4. Of(i) = {u \in 1..n : begin[u] = begin[i]} \cup Of(p)
      BY <3>1
    <3>5. w[p] = Of(p)
      BY <3>2
    <3> HIDE DEF Of, w
    <3> QED BY <3>2, <3>3, <3>4, <3>5
  <2> QED BY <2>1, <2>2
<1>7. Is(w)
  <2> HIDE DEF Of
  <2>1. \A i \in 1..n : w[i] = Step(w, i)
    BY <1>6
  <2>2. w = [i \in 1..n |-> w[i]]
    OBVIOUS
  <2> HIDE DEF w, Step
  <2> QED BY <1>2, <2>1, <2>2
<1>8. Is(outwards)
  <2> HIDE DEF Is, w
  <2> QED BY <1>7
<1>9. \A i \in 1..n : outwards[i] = Step(outwards, i)
  <2> HIDE DEF outwards, Step
  <2> QED BY <1>2, <1>8
<1>10. \A i \in 1..n : Of(i)
         = {i} \cup (IF b.scopes[i].parent = 0 THEN {} ELSE Of(b.scopes[i].parent))
  <2> SUFFICES ASSUME NEW i \in 1..n
               PROVE  Of(i) = {i} \cup (IF b.scopes[i].parent = 0 THEN {} ELSE Of(b.scopes[i].parent))
    OBVIOUS
  <2>1. b.scopes[i].parent # 0 => b.scopes[i].parent \in 1..n
    BY <1>2, <1>5
  <2>2. \A j \in 1..n : w[j] = Of(j)
    OBVIOUS
  <2> HIDE DEF Of, w
  <2> QED BY <1>6, <2>1, <2>2
<1> HIDE DEF outwards, Of
<1>11. 0 \in S
  OBVIOUS
<1>12. ASSUME NEW i \in Nat, i \in S PROVE i + 1 \in S
  <2> SUFFICES ASSUME NEW j \in 1..n, j = i + 1 PROVE outwards[j] = Of(j)
    BY <1>12
  <2>1. j # 1 => b.scopes[j].parent \in 1..j - 1
    BY <1>5
  <2>2. b.scopes[j].parent # 0 => /\ b.scopes[j].parent \in 1..n
                                  /\ outwards[b.scopes[j].parent] = Of(b.scopes[j].parent)
    BY <1>2, <1>12, <2>1
  <2> QED BY <1>9, <1>10, <2>2
<1>13. scope \in S
  <2> HIDE DEF S
  <2> QED BY <1>11, <1>12, Induction
<1> QED BY <1>1, <1>13 DEF Of

\* The scopes of a builder begin at different places, outer ones first, and
\* there is one for each place of a region.
LEMMA ScopePlaces ==
  ASSUME Size \in Nat, NEW m, NEW b, NEW k \in 0..Size, NEW begin, ScopesRight(m, b, k, begin)
  PROVE  /\ Len(begin) \in Nat /\ 1 \in 1..Len(begin) /\ begin[1] = 0
         /\ \A i \in 1..Len(begin) : begin[i] \in 0..Size /\ begin[i] \in Nat
         /\ \A i, j \in 1..Len(begin) : i < j <=> begin[i] < begin[j]
         /\ \A i, j \in 1..Len(begin) : begin[i] = begin[j] => i = j
<1> DEFINE n == Len(begin)
<1>1. n \in Nat /\ n >= 1 /\ DOMAIN begin = 1..n /\ begin[1] = 0 /\ begin \in Seq(Nat)
  BY DEF ScopesRight
<1>2. \A i \in 1..n : begin[i] \in 0..Size /\ begin[i] \in Nat
  BY <1>1 DEF ScopesRight
<1>3. \A i, j \in 1..n : i < j => begin[i] < begin[j]
  <2>1. Increasing(begin)
    BY DEF ScopesRight
  <2> QED BY <1>1, <2>1 DEF Increasing
<1>4. ASSUME NEW i \in 1..n, NEW j \in 1..n
      PROVE  (i < j <=> begin[i] < begin[j]) /\ (begin[i] = begin[j] => i = j)
  <2>1. i < j \/ j < i \/ i = j
    OBVIOUS
  <2>2. (i < j => begin[i] < begin[j]) /\ (j < i => begin[j] < begin[i])
    BY <1>3
  <2>3. begin[i] \in Nat /\ begin[j] \in Nat
    BY <1>2
  <2> HIDE DEF n
  <2> QED BY <2>1, <2>2, <2>3
<1>8. 1 \in 1..n
  BY <1>1
<1> HIDE DEF n
<1>9. /\ \A i, j \in 1..n : i < j <=> begin[i] < begin[j]
      /\ \A i, j \in 1..n : begin[i] = begin[j] => i = j
  BY <1>4
<1> QED BY <1>1, <1>2, <1>8, <1>9 DEF n

\* Every place of the region of a scope is where a scope of the table begins.
LEMMA RegionScopes ==
  ASSUME Size \in Nat, NEW m, NEW b, NEW k \in 0..Size, NEW begin, ScopesRight(m, b, k, begin),
         NEW s \in 1..Len(begin)
  PROVE  Region(begin[s]) \subseteq Range(begin)
<1> DEFINE n == Len(begin)
           S == {i \in Nat : \A j \in 1..n : j <= i => \A p \in Region(begin[j]) : \E u \in 1..n : begin[u] = p}
<1>1. n \in Nat /\ 1 \in 1..n /\ begin[1] = 0
  BY ScopePlaces
<1>2. \A i \in 1..n : begin[i] \in 0..Size
  BY ScopePlaces
<1>3. \A i, j \in 1..n : i < j => begin[i] < begin[j]
  BY ScopePlaces
<1>5. 0 \in S
  OBVIOUS
<1>6. ASSUME NEW i \in Nat, i \in S PROVE i + 1 \in S
  <2> DEFINE Has(p) == \E u \in 1..n : begin[u] = p
  <2> SUFFICES ASSUME NEW j \in 1..n, j = i + 1, NEW p \in Region(begin[j])
               PROVE  Has(p)
    <3>1. \A j \in 1..n : j <= i => \A p \in Region(begin[j]) : Has(p)
      BY <1>6
    <3> HIDE DEF n, Has
    <3>2. \A j \in 1..n : j <= i + 1 => j <= i \/ j = i + 1
      OBVIOUS
    <3>3. \A j \in 1..n : j <= i + 1 => \A p \in Region(begin[j]) : Has(p)
      BY <3>1, <3>2
    <3> QED BY <3>3 DEF Has
  <2>1. CASE p = begin[j]
    BY <2>1
  <2>2. CASE j = 1
    BY <1>1, <2>2 DEF Region
  <2>3. CASE j # 1 /\ p # begin[j]
    <3>1. begin[j] \in 1..Size
      <4>1. 1 < j /\ 1 \in 1..n
        BY <1>1, <2>3
      <4>2. begin[1] < begin[j]
        BY <1>3, <4>1
      <4> QED BY <1>1, <1>2, <4>2
    <3>2. b.scopes[j].parent \in 1..j - 1 /\ begin[b.scopes[j].parent] = Inner(begin[j])
      <4>1. j \in 2..Len(begin)
        BY <1>1, <2>3
      <4> QED BY <4>1 DEF ScopesRight
    <3>3. p \in Region(begin[b.scopes[j].parent])
      BY <2>3, <3>1, <3>2, RegionNext
    <3>4. b.scopes[j].parent \in 1..n /\ b.scopes[j].parent <= i
      BY <3>2
    <3> QED BY <1>6, <3>3, <3>4
  <2> QED BY <2>1, <2>2, <2>3
<1>7. s \in S
  <2> HIDE DEF S
  <2> QED BY <1>1, <1>5, <1>6, Induction
<1>8. DOMAIN begin = 1..n
  BY DEF ScopesRight
<1> QED BY <1>7, <1>8 DEF Range

\* The declaration of a name that is the nearest in some scopes.
NamedIn(region, n, k) ==
  Owner(Declarations(Nearest({p \in region : Declarations(p, n, k) # {}}), n, k))

\* The types of the parts of a builder.
LEMMA BuilderIs ==
  ASSUME NEW b \in BuilderType
  PROVE  /\ b.symbols \in Seq(SymbolType) /\ b.scopes \in Seq(ScopeType)
         /\ b.references \in Seq(ReferenceType) /\ b.reported \in SUBSET Nat
         /\ b.at \in Seq(Nat)
         /\ Len(b.symbols) \in Nat /\ DOMAIN b.symbols = 1..Len(b.symbols)
         /\ Len(b.references) \in Nat /\ DOMAIN b.references = 1..Len(b.references)
<1>1. /\ b.symbols \in Seq(SymbolType) /\ b.scopes \in Seq(ScopeType)
      /\ b.references \in Seq(ReferenceType) /\ b.reported \in SUBSET Nat /\ b.at \in Seq(Nat)
  BY DEF BuilderType
<1> QED BY <1>1

\* Lookup finds the owner of the name in the nearest scope of the region that
\* declares it.
LEMMA LookupIs ==
  ASSUME Size \in Nat, NEW m, NEW b \in BuilderType, NEW k \in 0..Size, NEW begin,
         ScopesRight(m, b, k, begin), SymbolsRight(m, b, k, begin), NamesRight(b, k, begin),
         NEW s \in 1..Len(begin), NEW n \in Names
  PROVE  /\ Lookup(b, s, n) \in 0..Len(b.symbols)
         /\ Placed(b, Lookup(b, s, n)) = NamedIn(Region(begin[s]), n, k)
<1> DEFINE N == Len(begin)
           D(p) == Declarations(p, n, k)
           id(u) == b.scopes[u].names[n]
           chain == {u \in 1..N : begin[u] \in Region(begin[s])}
           owning == {u \in chain : id(u) # 0}
           scopes == {p \in Region(begin[s]) : D(p) # {}}
<1>1. Chain(b, s) = chain
  BY ChainIs, BuilderIs
<1>2. Lookup(b, s, n) = IF owning = {} THEN 0 ELSE id(Max(owning))
  BY <1>1 DEF Lookup
<1>3. \A u \in 1..N : id(u) \in 0..Len(b.symbols) /\ Placed(b, id(u)) = Owner(D(begin[u]))
  BY DEF NamesRight
<1>4. \A p : D(p) \in SUBSET (Nat \ {0})
  BY DeclarationsType
<1>5. ASSUME NEW u \in 1..N PROVE id(u) # 0 <=> D(begin[u]) # {}
  <2>1. id(u) # 0 => Placed(b, id(u)) # 0
    <3> SUFFICES ASSUME id(u) # 0 PROVE b.symbols[id(u)].place # 0
      BY DEF Placed
    <3>1. id(u) \in DOMAIN b.symbols
      BY <1>3, BuilderIs
    <3>2. b.symbols[id(u)].place \in 1..k
      BY <3>1 DEF SymbolsRight
    <3> QED BY <3>2
  <2>2. id(u) = 0 => Placed(b, id(u)) = 0
    BY DEF Placed
  <2>3. Owner(D(begin[u])) # 0 <=> D(begin[u]) # {}
    BY <1>4, OwnerType
  <2> HIDE DEF D, id
  <2> QED BY <1>3, <2>1, <2>2, <2>3
<1>6. scopes = {begin[u] : u \in owning}
  <2>1. \A p \in Region(begin[s]) : \E u \in 1..N : begin[u] = p
    <3>1. Region(begin[s]) \subseteq Range(begin)
      BY RegionScopes
    <3>2. DOMAIN begin = 1..N
      BY DEF ScopesRight
    <3> QED BY <3>1, <3>2 DEF Range
  <2> HIDE DEF D, id, N
  <2> QED BY <1>5, <2>1
<1>7. N \in Nat /\ begin[1] = 0 /\ \A i, j \in 1..N : begin[i] \in Nat
        /\ (i < j <=> begin[i] < begin[j])
  BY ScopePlaces
<1>8. NamedIn(Region(begin[s]), n, k) = Owner(D(Nearest(scopes)))
  BY DEF NamedIn
<1>9. CASE owning = {}
  <2>1. scopes = {}
    BY <1>6, <1>9
  <2>2. Nearest(scopes) = 0
    <3> HIDE DEF scopes
    <3>1. scopes \cup {0} \in SUBSET Nat /\ 0 \in scopes \cup {0}
            /\ \A p \in scopes \cup {0} : p <= 0
      BY <2>1
    <3> QED BY <3>1, MaxIs DEF Nearest
  <2>3. D(0) = {}
    <3>1. 0 \in Region(begin[s])
      BY DEF Region
    <3> HIDE DEF D
    <3> QED BY <2>1, <3>1
  <2>4. Lookup(b, s, n) = 0 /\ Owner(D(Nearest(scopes))) = 0
    <3>1. Owner(D(0)) = 0
      BY <1>4, <2>3, OwnerType
    <3> HIDE DEF D, scopes
    <3> QED BY <1>2, <1>9, <2>2, <3>1
  <2>5. 0 \in 0..Len(b.symbols)
    BY BuilderIs
  <2> QED BY <1>8, <2>4, <2>5 DEF Placed
<1>10. CASE owning # {}
  <2> DEFINE u == Max(owning)
  <2>1. u \in owning /\ \A v \in owning : v <= u
    <3>1. owning \in SUBSET (0..N)
      OBVIOUS
    <3> HIDE DEF owning
    <3> QED BY <1>7, <1>10, <3>1, MaxOf
  <2>2. u \in 1..N
    BY <2>1
  <2>3. Nearest(scopes) = begin[u]
    <3> DEFINE T == scopes \cup {0}
    <3>1. owning \subseteq 1..N
      OBVIOUS
    <3> HIDE DEF owning, scopes, u
    <3>2. T \in SUBSET Nat /\ begin[u] \in T
      BY <1>6, <1>7, <2>1, <3>1
    <3>3. \A v \in owning : begin[v] <= begin[u]
      <4> SUFFICES ASSUME NEW v \in owning PROVE begin[v] <= begin[u]
        OBVIOUS
      <4>1. v \in 1..N /\ v <= u
        BY <2>1, <3>1
      <4>2. ~(begin[u] < begin[v]) /\ begin[u] \in Nat /\ begin[v] \in Nat
        BY <1>7, <2>2, <4>1
      <4> QED BY <4>2
    <3>4. \A p \in T : p <= begin[u]
      BY <1>6, <1>7, <2>2, <3>3
    <3> HIDE DEF T
    <3>5. Max(T) = begin[u]
      BY <3>2, <3>4, MaxIs
    <3> QED BY <3>5 DEF Nearest, T
  <2> HIDE DEF owning, scopes, u, D, id
  <2>4. Lookup(b, s, n) = id(u)
    BY <1>2, <1>10 DEF u
  <2> QED BY <1>3, <1>8, <2>2, <2>3, <2>4
<1> QED BY <1>9, <1>10

\* The first function that takes the arguments, or the first one.
CalleeIn(n, args, k) ==
  LET functions == {j \in Declarations(0, n, k) : Function(j)}
      fitting == {j \in functions : Accepts(text[j].signature, args)}
  IN First(IF fitting = {} THEN functions ELSE fitting)

\* The first of some symbols is the one with the first place.
LEMMA FirstPlace ==
  ASSUME NEW b \in BuilderType, InOrder(b.symbols), NEW ids \in SUBSET (DOMAIN b.symbols),
           ids # {}
  PROVE  /\ Min(ids) \in ids
         /\ b.symbols[Min(ids)].place = Min({b.symbols[id].place : id \in ids})
<1> DEFINE place(id) == b.symbols[id].place
           P == {place(id) : id \in ids}
<1>1. DOMAIN b.symbols = 1..Len(b.symbols) /\ \A id \in DOMAIN b.symbols : place(id) \in Nat
  <2>1. DOMAIN b.symbols = 1..Len(b.symbols) /\ b.symbols \in Seq(SymbolType)
    BY BuilderIs
  <2>2. \A id \in DOMAIN b.symbols : b.symbols[id] \in SymbolType
    BY <2>1
  <2> QED BY <2>1, <2>2 DEF SymbolType
<1>2. Min(ids) \in ids /\ \A id \in ids : Min(ids) <= id
  <2>1. ids \in SUBSET Nat
    BY <1>1
  <2> QED BY <2>1, MinOf
<1>3. ASSUME NEW id \in ids PROVE place(Min(ids)) <= place(id)
  <2>1. Min(ids) = id \/ Min(ids) < id
    BY <1>1, <1>2
  <2>2. Min(ids) < id => place(Min(ids)) < place(id)
    BY <1>2 DEF InOrder
  <2> QED BY <1>1, <1>2, <2>1, <2>2
<1>4. P \in SUBSET Nat /\ place(Min(ids)) \in P /\ \A p \in P : place(Min(ids)) <= p
  BY <1>1, <1>2, <1>3
<1>5. Min(P) = place(Min(ids))
  <2> HIDE DEF P, place
  <2> QED BY <1>4, MinIs
<1> QED BY <1>2, <1>5

\* LookupCallable finds the first function of the file that takes the arguments,
\* or else the first: functions are declared in the scope of the file only.
LEMMA LookupCallableIs ==
  ASSUME TextOK, NEW m, NEW b \in BuilderType, NEW k \in 0..Size, NEW begin,
         ScopesRight(m, b, k, begin), SymbolsRight(m, b, k, begin),
         NEW s \in 1..Len(begin), NEW n \in Names, NEW args
  PROVE  /\ LookupCallable(b, s, n, args) \in 0..Len(b.symbols)
         /\ Placed(b, LookupCallable(b, s, n, args)) = CalleeIn(n, args, k)
<1> DEFINE N == Len(begin)
           C(u) == Callables(b, u, n)
           chain == {u \in 1..N : begin[u] \in Region(begin[s])}
           having == {u \in chain : C(u) # {}}
           all == C(Max(having))
           fitting == {id \in all : Accepts(b.symbols[id].signature, args)}
           F == {j \in Declarations(0, n, k) : Function(j)}
           Fits2 == {j \in F : Accepts(text[j].signature, args)}
           place(id) == b.symbols[id].place
<1>0. Size \in Nat /\ text \in Seq(Events)
  BY DEF TextOK, Size
<1>1. LookupCallable(b, s, n, args) =
        IF having = {} THEN 0 ELSE Min(IF fitting = {} THEN all ELSE fitting)
  <2>1. Chain(b, s) = chain
    BY <1>0, ChainIs, BuilderIs
  <2> QED BY <2>1 DEF LookupCallable
<1>2. ASSUME NEW id \in DOMAIN b.symbols
      PROVE  /\ place(id) \in 1..k /\ place(id) \in 1..Size
             /\ b.symbols[id].name = text[place(id)].name
             /\ Callable(b.symbols[id].signature) <=> Function(place(id))
             /\ IsTestEntryPoint(b.symbols[id].signature) <=> ~Declares(place(id))
             /\ Function(place(id)) => /\ b.symbols[id].scope = 1 /\ Inner(place(id)) = 0
                                       /\ b.symbols[id].signature = text[place(id)].signature
  <2>1. /\ place(id) \in 1..k /\ text[place(id)].what \in {"variable", "function"}
        /\ b.symbols[id].name = text[place(id)].name
        /\ b.symbols[id].signature = Sig(place(id))
        /\ b.symbols[id].scope \in 1..N /\ begin[b.symbols[id].scope] = Inner(place(id))
    BY DEF SymbolsRight, Declared
  <2>2. place(id) \in 1..Size
    BY <1>0, <2>1
  <2>3. Function(place(id)) => Inner(place(id)) = 0
    <3> SUFFICES ASSUME Function(place(id)) PROVE Inner(place(id)) = 0
      OBVIOUS
    <3>1. Around[place(id)] = {}
      BY <2>2 DEF TextOK, Function
    <3>2. place(id) \in 1..Size + 1
      BY <1>0, <2>2
    <3> QED BY <1>0, <3>1, <3>2, InnerAround
  <2>4. Inner(place(id)) = 0 => b.symbols[id].scope = 1
    <3>1. 1 \in 1..N /\ begin[1] = 0 /\ \A i, j \in 1..N : begin[i] = begin[j] => i = j
      BY <1>0, ScopePlaces
    <3> HIDE DEF N, place
    <3> QED BY <2>1, <3>1
  <2> HIDE DEF place
  <2> QED BY <1>0, <2>1, <2>2, <2>3, <2>4, SigIs
<1>3. ASSUME NEW u, NEW id
      PROVE  id \in C(u) <=> /\ id \in DOMAIN b.symbols /\ u = 1 /\ text[place(id)].name = n
                             /\ Function(place(id)) /\ Declares(place(id))
  <2>1. id \in C(u) <=> /\ id \in DOMAIN b.symbols /\ b.symbols[id].scope = u
                         /\ b.symbols[id].name = n /\ Callable(b.symbols[id].signature)
                         /\ ~IsTestEntryPoint(b.symbols[id].signature)
    BY DEF Callables
  <2> HIDE DEF C, place
  <2> QED BY <1>2, <2>1
<1>4. F = {place(id) : id \in C(1)}
  <2>1. ASSUME NEW id \in C(1) PROVE place(id) \in F
    <3>1. /\ id \in DOMAIN b.symbols /\ text[place(id)].name = n
          /\ Function(place(id)) /\ Declares(place(id))
      BY <1>3
    <3>2. place(id) \in 1..k /\ Nearest(Around[place(id)]) = 0
      BY <1>2, <3>1 DEF Inner
    <3> HIDE DEF place
    <3> QED BY <3>1, <3>2 DEF Declarations
  <2>2. ASSUME NEW j \in F PROVE \E id \in C(1) : place(id) = j
    <3>1. j \in 1..k /\ Declares(j) /\ Function(j) /\ text[j].name = n
      BY DEF Declarations
    <3>2. Declared(m, j)
      <4>1. j \in 1..Size
        BY <1>0, <3>1
      <4>2. Around[j] = {}
        BY <3>1, <4>1 DEF TextOK, Function
      <4> QED BY <3>1, <4>2 DEF Declared, Hidden, Function
    <3>3. PICK id \in DOMAIN b.symbols : place(id) = j
      BY <3>1, <3>2 DEF SymbolsRight
    <3>4. id \in C(1)
      <4> HIDE DEF C, place
      <4> QED BY <1>3, <3>1, <3>3
    <3> QED BY <3>3, <3>4
  <2> HIDE DEF C, place, F
  <2> QED BY <2>1, <2>2
<1>5. C(1) \in SUBSET (DOMAIN b.symbols)
        /\ \A id \in C(1) : b.symbols[id].signature = text[place(id)].signature
  <2> HIDE DEF C, place
  <2> QED BY <1>2, <1>3
<1>6. having = IF C(1) = {} THEN {} ELSE {1}
  <2>1. 1 \in chain
    <3>1. 1 \in 1..N /\ begin[1] = 0
      BY <1>0, ScopePlaces
    <3> QED BY <3>1 DEF Region
  <2>2. \A u : C(u) # {} => u = 1
    <3> HIDE DEF C
    <3> QED BY <1>3
  <2> HIDE DEF C, chain
  <2> QED BY <2>1, <2>2
<1>7. CalleeIn(n, args, k) = First(IF Fits2 = {} THEN F ELSE Fits2)
  BY DEF CalleeIn
<1>8. CASE C(1) = {}
  <2>1. F = {} /\ Fits2 = {} /\ having = {}
    <3>1. F = {} /\ having = {}
      BY <1>4, <1>6, <1>8
    <3> HIDE DEF F
    <3> QED BY <3>1
  <2> HIDE DEF having, F, Fits2
  <2>2. LookupCallable(b, s, n, args) = 0 /\ CalleeIn(n, args, k) = 0
    BY <1>1, <1>7, <2>1 DEF First
  <2>3. 0 \in 0..Len(b.symbols)
    BY BuilderIs
  <2> QED BY <2>2, <2>3 DEF Placed
<1>9. CASE C(1) # {}
  <2>1. Max(having) = 1
    <3>1. {1} \in SUBSET Nat /\ 1 \in {1} /\ \A x \in {1} : x <= 1
      OBVIOUS
    <3> QED BY <1>6, <1>9, <3>1, MaxIs
  <2> DEFINE fit == {id \in C(1) : Accepts(b.symbols[id].signature, args)}
             X == IF fit = {} THEN C(1) ELSE fit
             Y == IF Fits2 = {} THEN F ELSE Fits2
  <2>2. LookupCallable(b, s, n, args) = Min(X)
    <3>1. having # {} /\ fitting = fit /\ all = C(1)
      BY <1>6, <1>9, <2>1
    <3> HIDE DEF having, fitting, all, fit, C
    <3> QED BY <1>1, <3>1
  <2>3. Fits2 = {place(id) : id \in fit}
    <3> HIDE DEF F, place, C
    <3> QED BY <1>4, <1>5
  <2>4. X # {} /\ X \in SUBSET (DOMAIN b.symbols)
    <3> HIDE DEF C
    <3> QED BY <1>5, <1>9
  <2>5. Y = {place(id) : id \in X}
    <3>1. Fits2 = {} <=> fit = {}
      BY <2>3
    <3> HIDE DEF fit, Fits2, F, C, place
    <3> QED BY <1>4, <2>3, <3>1
  <2>6. Min(X) \in X /\ place(Min(X)) = Min(Y)
    <3> HIDE DEF X, Y
    <3> QED BY <2>4, <2>5, FirstPlace DEF SymbolsRight
  <2>7. Y # {}
    <3> HIDE DEF X, Y
    <3> QED BY <2>4, <2>5
  <2>8. CalleeIn(n, args, k) = Min(Y)
    <3> HIDE DEF Y
    <3>1. CalleeIn(n, args, k) = First(Y)
      BY <1>7 DEF Y
    <3> QED BY <2>7, <3>1 DEF First
  <2> HIDE DEF X, Y
  <2>9. Min(X) \in 1..Len(b.symbols)
    BY <2>4, <2>6, BuilderIs
  <2>10. Placed(b, Min(X)) = place(Min(X)) /\ Min(X) \in 0..Len(b.symbols)
    BY <2>9 DEF Placed
  <2> HIDE DEF place
  <2> QED BY <2>2, <2>6, <2>8, <2>10
<1> QED BY <1>8, <1>9

\* The place of the first of two symbols that there is.
LEMMA PlacedOr ==
  ASSUME NEW m, NEW b \in BuilderType, NEW k \in Nat, NEW begin, SymbolsRight(m, b, k, begin),
         NEW x \in 0..Len(b.symbols), NEW y \in 0..Len(b.symbols)
  PROVE  Or(x, y) \in 0..Len(b.symbols) /\ Placed(b, Or(x, y)) = Or(Placed(b, x), Placed(b, y))
<1>1. x # 0 => b.symbols[x].place # 0
  <2> SUFFICES ASSUME x # 0 PROVE b.symbols[x].place # 0
    OBVIOUS
  <2>1. x \in DOMAIN b.symbols
    BY BuilderIs
  <2>2. b.symbols[x].place \in 1..k
    BY <2>1 DEF SymbolsRight
  <2> QED BY <2>2
<1> QED BY <1>1 DEF Or, Placed

\* Resolve finds what the text has up to k.
LEMMA ResolveIs ==
  ASSUME TextOK, NEW m, NEW b \in BuilderType, NEW k \in 0..Size, NEW begin,
         ScopesRight(m, b, k, begin), SymbolsRight(m, b, k, begin), NamesRight(b, k, begin),
         NEW i \in 1..Size, text[i].what = "use", NEW s \in 1..Len(begin), begin[s] = Inner(i)
  PROVE  /\ Lookup(b, s, text[i].name) \in 0..Len(b.symbols)
         /\ Placed(b, Lookup(b, s, text[i].name)) = Named(i, k)
         /\ Resolve(b, s, text[i].name, text[i].args) \in 0..Len(b.symbols)
         /\ Placed(b, Resolve(b, s, text[i].name, text[i].args)) = Or(Called(i, k), Named(i, k))
<1> DEFINE n == text[i].name
           args == text[i].args
           call == IF args = NotACall THEN 0 ELSE LookupCallable(b, s, n, args)
<1>1. Size \in Nat /\ n \in Names /\ i \in 1..Size + 1
  <2>1. Size \in Nat /\ text \in Seq(Events)
    BY DEF TextOK, Size
  <2> QED BY <2>1, EventTypes
<1>2. Region(Inner(i)) = Around[i] \cup {0}
  BY <1>1, InnerAround DEF Region
<1>3. NamedIn(Region(begin[s]), n, k) = Named(i, k)
  BY <1>2 DEF NamedIn, Named
<1>4. Lookup(b, s, n) \in 0..Len(b.symbols) /\ Placed(b, Lookup(b, s, n)) = Named(i, k)
  <2> HIDE DEF n
  <2> QED BY <1>1, <1>3, LookupIs
<1>5. call \in 0..Len(b.symbols) /\ Placed(b, call) = Called(i, k)
  <2>1. CASE args = NotACall
    <3>1. Called(i, k) = 0 /\ call = 0 /\ 0 \in 0..Len(b.symbols)
      BY <2>1, BuilderIs DEF Called
    <3> QED BY <3>1 DEF Placed
  <2>2. CASE args # NotACall
    <3>1. Called(i, k) = CalleeIn(n, args, k)
      BY <2>2 DEF Called, CalleeIn
    <3> HIDE DEF n, args
    <3> QED BY <1>1, <2>2, <3>1, LookupCallableIs DEF call
  <2> QED BY <2>1, <2>2
<1>6. Resolve(b, s, n, args) = Or(call, Lookup(b, s, n))
  BY DEF Resolve
<1>7. k \in Nat
  BY <1>1
<1> HIDE DEF call, n, args
<1>8. /\ Resolve(b, s, n, args) \in 0..Len(b.symbols)
      /\ Placed(b, Resolve(b, s, n, args)) = Or(Called(i, k), Named(i, k))
  BY <1>4, <1>5, <1>6, <1>7, PlacedOr
<1> QED BY <1>4, <1>8 DEF n, args

----------------------------------------------------------------------------
(* One event more.                                                         *)

\* Nothing more is declared in the scopes, and used.
LEMMA NothingNew ==
  ASSUME TextOK, NEW m, NEW b, NEW k \in Nat, k < Size, NEW begin,
         ScopesRight(m, b, k, begin), ContentsRight(m, b, k, begin),
         ~Declared(m, k + 1)
  PROVE  /\ ScopesRight(m, b, k + 1, begin) /\ SymbolsRight(m, b, k + 1, begin)
         /\ NamesRight(b, k + 1, begin) /\ ReportedRight(b, k + 1, begin)
         /\ ~Used(m, k + 1) => ContentsRight(m, b, k + 1, begin)
<1>0. Size \in Nat /\ k + 1 \in 1..Size /\ k + 1 \in 1..Size + 1 /\ k \in 0..Size
  BY DEF TextOK, Size
<1>1. \A p : p \in 1..k + 1 <=> p \in 1..k \/ p = k + 1
  OBVIOUS
<1>2. ASSUME NEW s \in 1..Len(begin), NEW n
      PROVE  Declarations(begin[s], n, k + 1) = Declarations(begin[s], n, k)
  <2>1. Declares(k + 1) => Inner(k + 1) # begin[s]
    <3> SUFFICES ASSUME Declares(k + 1), Inner(k + 1) = begin[s] PROVE FALSE
      OBVIOUS
    <3>1. Hidden(m, k + 1)
      BY DEF Declared, Declares
    <3>2. Around[begin[s] + 1] = Around[k + 1]
      <4>1. Around[Inner(k + 1) + 1] = Around[k + 1]
        BY <1>0, InnerAround
      <4> QED BY <4>1
    <3>3. Hidden(m, begin[s] + 1)
      BY <3>1, <3>2 DEF Hidden
    <3> QED BY <3>3 DEF ScopesRight
  <2> QED BY <2>1, DeclarationsNext
<1>3. ScopesRight(m, b, k + 1, begin)
  <2>1. \A x : x \in 0..k => x \in 0..k + 1
    OBVIOUS
  <2> QED BY <2>1 DEF ScopesRight
<1>4. SymbolsRight(m, b, k + 1, begin)
  BY <1>1 DEF SymbolsRight, ContentsRight
<1>5. NamesRight(b, k + 1, begin)
  BY <1>2 DEF NamesRight, ContentsRight
<1>6. ~Used(m, k + 1) => ReferencesRight(m, b, k + 1, begin)
  BY <1>1 DEF ReferencesRight, ContentsRight
<1>7. ReportedRight(b, k + 1, begin)
  BY <1>2 DEF ReportedRight, ContentsRight
<1> QED BY <1>3, <1>4, <1>5, <1>6, <1>7 DEF ContentsRight

\* All of it is about symbols, scopes, references and reports.
LEMMA SameParts ==
  ASSUME NEW m, NEW b, NEW c, NEW k, NEW begin, b.symbols = c.symbols, b.scopes = c.scopes
  PROVE  /\ ScopesRight(m, b, k, begin) => ScopesRight(m, c, k, begin)
         /\ SymbolsRight(m, b, k, begin) => SymbolsRight(m, c, k, begin)
         /\ NamesRight(b, k, begin) => NamesRight(c, k, begin)
<1>1. \A id : Placed(b, id) = Placed(c, id)
  BY DEF Placed
<1>2. NamesRight(b, k, begin) => NamesRight(c, k, begin)
  BY <1>1 DEF NamesRight
<1>3. SymbolsRight(m, b, k, begin) => SymbolsRight(m, c, k, begin)
  BY DEF SymbolsRight
<1>4. ScopesRight(m, b, k, begin) => ScopesRight(m, c, k, begin)
  BY DEF ScopesRight
<1> QED BY <1>2, <1>3, <1>4

\* The stack does not matter either.
LEMMA SameContents ==
  ASSUME NEW m, NEW b, NEW c, NEW k, NEW begin,
         b.symbols = c.symbols, b.scopes = c.scopes, b.references = c.references,
         b.reported = c.reported
  PROVE  /\ ScopesRight(m, b, k, begin) => ScopesRight(m, c, k, begin)
         /\ ContentsRight(m, b, k, begin) => ContentsRight(m, c, k, begin)
<1>1. \A id : Placed(b, id) = Placed(c, id)
  BY DEF Placed
<1>2. NamesRight(b, k, begin) => NamesRight(c, k, begin)
  BY <1>1 DEF NamesRight
<1>3. ReferencesRight(m, b, k, begin) => ReferencesRight(m, c, k, begin)
  BY <1>1 DEF ReferencesRight
<1>4. SymbolsRight(m, b, k, begin) => SymbolsRight(m, c, k, begin)
  BY DEF SymbolsRight
<1>5. ReportedRight(b, k, begin) => ReportedRight(c, k, begin)
  BY DEF ReportedRight
<1>6. ScopesRight(m, b, k, begin) => ScopesRight(m, c, k, begin)
  BY DEF ScopesRight
<1> QED BY <1>2, <1>3, <1>4, <1>5, <1>6 DEF ContentsRight

\* A scope more, for what begins at q.
LEMMA ScopeNew ==
  ASSUME TextOK, NEW m, NEW b \in BuilderType, NEW q \in 1..Size, NEW begin,
         ScopesRight(m, b, q, begin), ContentsRight(m, b, q, begin),
         \A s \in 1..Len(begin) : begin[s] < q, ~Hidden(m, q + 1),
         NEW parent \in 1..Len(begin), begin[parent] = Inner(q)
  PROVE  /\ NewScope(b, parent) \in BuilderType
         /\ ScopesRight(m, NewScope(b, parent), q, Append(begin, q))
         /\ ContentsRight(m, NewScope(b, parent), q, Append(begin, q))
<1> DEFINE L == Len(begin)
           scope == [parent |-> parent, names |-> [n \in Names |-> 0]]
           c == NewScope(b, parent)
           more == Append(begin, q)
<1>0. Size \in Nat
  BY DEF TextOK, Size
<1>1. /\ begin \in Seq(Nat) /\ L \in Nat /\ L >= 1 /\ Len(b.scopes) = L /\ q \in Nat /\ q >= 1
      /\ b.scopes \in Seq(ScopeType) /\ parent \in Nat
  BY <1>0, BuilderIs DEF ScopesRight
<1>2. scope \in ScopeType
  BY <1>1 DEF ScopeType
<1>3. /\ c.scopes = Append(b.scopes, scope) /\ c.symbols = b.symbols
      /\ c.references = b.references /\ c.reported = b.reported /\ c.at = b.at
      /\ c \in BuilderType
  <2> HIDE DEF scope
  <2>1. c = [b EXCEPT !.scopes = Append(@, scope)]
    BY DEF NewScope, scope
  <2>2. Append(b.scopes, scope) \in Seq(ScopeType)
    BY <1>1, <1>2
  <2> HIDE DEF c
  <2> QED BY <2>1, <2>2 DEF BuilderType
<1>4. /\ more \in Seq(Nat) /\ Len(more) = L + 1 /\ Len(c.scopes) = L + 1
      /\ \A s \in 1..L : more[s] = begin[s] /\ c.scopes[s] = b.scopes[s]
      /\ more[L + 1] = q /\ c.scopes[L + 1] = scope
  <2> HIDE DEF scope, c
  <2> QED BY <1>1, <1>2, <1>3
<1>5. \A s : s \in 1..L + 1 <=> s \in 1..L \/ s = L + 1
  BY <1>1
<1>6. \A id : Placed(c, id) = Placed(b, id)
  BY <1>3 DEF Placed
<1>7. ASSUME NEW n PROVE Declarations(q, n, q) = {}
  <2> SUFFICES ASSUME NEW j \in Declarations(q, n, q) PROVE FALSE
    OBVIOUS
  <2>1. j \in 1..q /\ Inner(j) = q
    BY DEF Declarations, Inner
  <2>2. j \in 1..Size + 1
    BY <1>0, <2>1
  <2>3. Inner(j) \in 0..j - 1
    BY <1>0, <2>2, InnerAround
  <2> QED BY <2>1, <2>3
<1>8. \A s \in 1..L : begin[s] \in Nat
  BY <1>1
<1> HIDE DEF c, more, scope, L
<1>9. ScopesRight(m, c, q, more)
  <2>1. begin[1] = 0 /\ b.scopes[1].parent = 0 /\ 1 \in 1..L /\ L + 1 >= 1
    BY <1>1 DEF ScopesRight
  <2>2. Increasing(more)
    <3>1. \A i, j \in 1..L : i < j => begin[i] < begin[j]
      <4>1. Increasing(begin) /\ DOMAIN begin = 1..L
        BY <1>1 DEF ScopesRight, L
      <4> QED BY <4>1 DEF Increasing
    <3>2. DOMAIN more = 1..L + 1
      BY <1>4
    <3>3. ASSUME NEW i \in 1..L + 1, NEW j \in 1..L + 1, i < j PROVE more[i] < more[j]
      <4>1. i \in 1..L
        BY <1>1, <3>3
      <4>2. CASE j = L + 1
        BY <1>4, <4>1, <4>2 DEF L
      <4>3. CASE j \in 1..L
        BY <1>4, <3>1, <3>3, <4>1, <4>3
      <4> QED BY <1>5, <4>2, <4>3
    <3> QED BY <3>2, <3>3 DEF Increasing
  <2>3. ASSUME NEW s \in 1..L + 1 PROVE more[s] \in 0..q /\ ~Hidden(m, more[s] + 1)
    <3>1. CASE s = L + 1
      BY <1>1, <1>4, <3>1
    <3>2. CASE s \in 1..L
      BY <1>4, <3>2 DEF ScopesRight, L
    <3> QED BY <1>5, <3>1, <3>2
  <2>4. ASSUME NEW s \in 2..L + 1
        PROVE  c.scopes[s].parent \in 1..s - 1 /\ more[c.scopes[s].parent] = Inner(more[s])
    <3>1. CASE s = L + 1
      <4>1. c.scopes[s].parent = parent /\ more[s] = q
        BY <1>4, <3>1 DEF scope
      <4>2. parent \in 1..L
        BY DEF L
      <4>3. s - 1 = L
        BY <1>1, <3>1
      <4> QED BY <1>4, <4>1, <4>2, <4>3
    <3>2. CASE s \in 2..L
      <4>1. b.scopes[s].parent \in 1..s - 1 /\ begin[b.scopes[s].parent] = Inner(begin[s])
        BY <3>2 DEF ScopesRight, L
      <4>2. b.scopes[s].parent \in 1..L /\ s \in 1..L
        <5> DEFINE p == b.scopes[s].parent
        <5>1. L \in Nat
          BY <1>1
        <5>2. p \in 1..s - 1
          BY <4>1
        <5> HIDE DEF p
        <5>3. p \in 1..L /\ s \in 1..L
          BY <3>2, <5>1, <5>2
        <5> QED BY <5>3 DEF p
      <4> QED BY <1>4, <4>1, <4>2
    <3>3. s = L + 1 \/ s \in 2..L
      BY <1>1
    <3> QED BY <3>1, <3>2, <3>3
  <2> QED BY <1>4, <2>1, <2>2, <2>3, <2>4 DEF ScopesRight
<1>10. SymbolsRight(m, c, q, more)
  <2>1. SymbolsRight(m, b, q, begin)
    BY DEF ContentsRight
  <2>2. ASSUME NEW id \in DOMAIN b.symbols
        PROVE  b.symbols[id].scope \in 1..L + 1
                 /\ more[b.symbols[id].scope] = begin[b.symbols[id].scope]
    <3>1. b.symbols[id].scope \in 1..L
      BY <2>1 DEF SymbolsRight, L
    <3> QED BY <1>4, <1>5, <3>1
  <2>3. DOMAIN c.symbols = DOMAIN b.symbols
    BY <1>3
  <2> QED BY <1>3, <1>4, <2>1, <2>2, <2>3 DEF SymbolsRight
<1>11. NamesRight(c, q, more)
  <2> SUFFICES ASSUME NEW s \in 1..L + 1, NEW n \in Names
               PROVE  LET id == c.scopes[s].names[n]
                      IN /\ id \in 0..Len(c.symbols)
                         /\ Placed(c, id) = Owner(Declarations(more[s], n, q))
    BY <1>4 DEF NamesRight
  <2>1. CASE s \in 1..L
    <3>1. NamesRight(b, q, begin)
      BY DEF ContentsRight
    <3> QED BY <1>3, <1>4, <1>6, <2>1, <3>1 DEF NamesRight, L
  <2>2. CASE s = L + 1
    <3>1. c.scopes[s].names[n] = 0
      BY <1>4, <2>2 DEF scope
    <3>2. Owner(Declarations(more[s], n, q)) = 0
      <4>1. Owner({}) = 0
        BY OwnerType
      <4> QED BY <1>4, <1>7, <2>2, <4>1
    <3>3. 0 \in 0..Len(c.symbols)
      BY <1>3, BuilderIs
    <3> QED BY <3>1, <3>2, <3>3 DEF Placed
  <2> QED BY <1>5, <2>1, <2>2
<1>12. ReferencesRight(m, c, q, more)
  <2>1. ReferencesRight(m, b, q, begin)
    BY DEF ContentsRight
  <2>2. ASSUME NEW i \in DOMAIN b.references
        PROVE  /\ b.references[i].scope \in 1..L + 1
               /\ more[b.references[i].scope] = begin[b.references[i].scope]
    <3>1. b.references[i].scope \in 1..L
      BY <2>1 DEF ReferencesRight, L
    <3> QED BY <1>4, <1>5, <3>1
  <2>3. DOMAIN c.references = DOMAIN b.references
    BY <1>3
  <2> QED BY <1>3, <1>4, <1>6, <2>1, <2>2, <2>3 DEF ReferencesRight
<1>13. ReportedRight(c, q, more)
  <2>1. ReportedRight(b, q, begin)
    BY DEF ContentsRight
  <2>2. ASSUME NEW s \in 1..L + 1, NEW n \in Names
        PROVE  LET places == Declarations(more[s], n, q)
               IN Together(places) <=> \A id \in c.reported : c.symbols[id].place \notin places
    <3>1. CASE s \in 1..L
      BY <1>3, <1>4, <2>1, <3>1 DEF ReportedRight, L
    <3>2. CASE s = L + 1
      <4>1. Declarations(more[s], n, q) = {}
        BY <1>4, <1>7, <3>2
      <4> QED BY <4>1 DEF Together
    <3> QED BY <1>5, <3>1, <3>2
  <2>3. c.reported \subseteq DOMAIN c.symbols
    BY <1>3, <2>1 DEF ReportedRight
  <2> QED BY <1>4, <2>2, <2>3 DEF ReportedRight
<1> QED BY <1>3, <1>9, <1>10, <1>11, <1>12, <1>13 DEF ContentsRight, c, more

\* What Append gives.
LEMMA AppendIs ==
  ASSUME NEW T, NEW f \in Seq(T), NEW e \in T
  PROVE  /\ Append(f, e) \in Seq(T) /\ Len(Append(f, e)) = Len(f) + 1
         /\ DOMAIN Append(f, e) = 1..Len(f) + 1 /\ Append(f, e)[Len(f) + 1] = e
         /\ \A i \in 1..Len(f) : Append(f, e)[i] = f[i]
         /\ \A i : i \in 1..Len(f) + 1 <=> i \in 1..Len(f) \/ i = Len(f) + 1
OBVIOUS

\* A declaration more.
LEMMA DeclareRight ==
  ASSUME TextOK, NEW m, NEW b \in BuilderType, NEW k \in Nat, k < Size, NEW begin,
         ScopesRight(m, b, k, begin), ContentsRight(m, b, k, begin), Declared(m, k + 1),
         NEW s \in 1..Len(begin), begin[s] = Inner(k + 1),
         NEW c, c = Declare(b, Symbol(text[k + 1].name, Sig(k + 1), s, k + 1))
  PROVE  /\ c \in BuilderType /\ c.at = b.at /\ c.references = b.references
         /\ Len(c.scopes) = Len(b.scopes)
         /\ ScopesRight(m, c, k + 1, begin) /\ ContentsRight(m, c, k + 1, begin)
<1> DEFINE q == k + 1
           n == text[q].name
           symbol == Symbol(n, Sig(q), s, q)
           L == Len(begin)
           M == Len(b.symbols)
           old == b.scopes[s].names[n]
           former == b.symbols[old].signature
           test == IsTestEntryPoint(Sig(q))
           pair == ForwardPair(former, Sig(q))
           owns == ~test /\ (old # 0 => pair /\ former.kind = "forward")
           clashes == ~test /\ old # 0 /\ ~pair /\ ~(former.state /\ Sig(q).state)
           D(t, x) == Declarations(begin[t], x, k)
           E(t, x) == Declarations(begin[t], x, q)
           new(t, x) == t = s /\ x = n /\ Declares(q)
<1>0. /\ Size \in Nat /\ text \in Seq(Events) /\ q \in 1..Size /\ q \in Nat /\ k < q
      /\ k \in 0..Size /\ text[q].what \in {"variable", "function"}
  BY DEF TextOK, Size, Declared
<1>1. /\ n \in Names /\ Sig(q) \in Signatures \cup {Variable}
      /\ Callable(Sig(q)) <=> Function(q)
      /\ Sig(q).kind = "forward" <=> Forward(q)
      /\ test <=> ~Declares(q)
  BY <1>0, EventTypes, SigIs
<1>2. /\ L \in Nat /\ Len(b.scopes) = L /\ b.scopes \in Seq(ScopeType)
      /\ b.symbols \in Seq(SymbolType) /\ M \in Nat /\ DOMAIN b.symbols = 1..M
  BY BuilderIs, <1>0, ScopePlaces DEF ScopesRight
<1>3. \A t \in 1..L : b.scopes[t] \in ScopeType
  BY <1>2
<1>4. symbol \in SymbolType /\ symbol.place = q /\ symbol.name = n /\ symbol.signature = Sig(q)
        /\ symbol.scope = s
  <2>1. s \in Nat
    BY <1>2
  <2> HIDE DEF q, n, L
  <2> QED BY <1>0, <1>1, <2>1 DEF SymbolType, Symbol
<1> HIDE DEF D, E, q, n, symbol, L, M
<1>5. /\ c.symbols = Append(b.symbols, symbol) /\ c.at = b.at /\ c.references = b.references
      /\ c.scopes = [b.scopes EXCEPT ![s].names[n] = IF owns THEN M + 1 ELSE @]
      /\ c.reported = b.reported \cup (IF clashes THEN {M + 1} ELSE {})
      /\ c = [symbols |-> c.symbols, scopes |-> c.scopes, references |-> c.references,
               reported |-> c.reported, at |-> c.at]
  <2>1. c = [b EXCEPT !.symbols = Append(@, symbol),
                      !.scopes[s].names[n] = IF owns THEN M + 1 ELSE @,
                      !.reported = @ \cup (IF clashes THEN {M + 1} ELSE {})]
    <3>1. c = Declaring(b, symbol, M + 1)
      BY DEF Declare, symbol, n, q, M
    <3> HIDE DEF owns, clashes
    <3> QED BY <1>4, <3>1 DEF Declaring, owns, clashes, M
  <2> HIDE DEF owns, clashes
  <2>2. b = [symbols |-> b.symbols, scopes |-> b.scopes, references |-> b.references,
             reported |-> b.reported, at |-> b.at]
    BY DEF BuilderType
  <2> QED BY <2>1, <2>2
<1> DEFINE named == IF owns THEN M + 1 ELSE b.scopes[s].names[n]
           inner == [b.scopes[s] EXCEPT !.names[n] = named]
<1>25. s \in 1..L /\ c.scopes = [b.scopes EXCEPT ![s] = inner]
  <2> HIDE DEF owns, clashes
  <2>1. s \in 1..L
    BY DEF L
  <2>2. c.scopes = [b.scopes EXCEPT ![s].names[n] = IF owns THEN M + 1 ELSE @]
    BY <1>5
  <2> QED BY <2>1, <2>2, Zenon
<1>6. ASSUME NEW t \in 1..L
      PROVE  /\ c.scopes[t] \in ScopeType /\ c.scopes[t].parent = b.scopes[t].parent
             /\ \A x \in Names : c.scopes[t].names[x] =
                   IF t = s /\ x = n /\ owns THEN M + 1 ELSE b.scopes[t].names[x]
  <2> HIDE DEF owns, clashes
  <2>1. b.scopes[t] \in ScopeType /\ b.scopes[t].names \in [Names -> Nat]
    BY <1>3 DEF ScopeType
  <2>2. CASE t = s
    <3> DEFINE w == IF owns THEN M + 1 ELSE b.scopes[s].names[n]
    <3>1. w \in Nat
      BY <1>1, <1>2, <2>1, <2>2
    <3>2. c.scopes[t] = [b.scopes[t] EXCEPT !.names[n] = w]
      <4>1. inner = [b.scopes[s] EXCEPT !.names[n] = w]
        OBVIOUS
      <4> HIDE DEF inner, w
      <4>2. c.scopes[s] = inner
        BY <1>2, <1>25
      <4> QED BY <2>2, <4>1, <4>2
    <3> HIDE DEF w
    <3>3. /\ c.scopes[t].parent = b.scopes[t].parent
          /\ c.scopes[t].names = [b.scopes[t].names EXCEPT ![n] = w]
          /\ c.scopes[t] \in ScopeType
      BY <2>1, <3>1, <3>2 DEF ScopeType
    <3>4. \A x \in Names : c.scopes[t].names[x] = IF x = n THEN w ELSE b.scopes[t].names[x]
      BY <1>1, <2>1, <3>3
    <3> QED BY <2>2, <3>3, <3>4 DEF w
  <2>3. CASE t # s
    <3>1. c.scopes[t] = b.scopes[t]
      BY <1>2, <1>5, <2>3
    <3> QED BY <2>1, <2>3, <3>1
  <2> QED BY <2>2, <2>3
<1>7. Len(c.scopes) = L /\ c.scopes \in Seq(ScopeType)
  <2> HIDE DEF owns, clashes
  <2>1. DOMAIN c.scopes = 1..L
    BY <1>2, <1>5
  <2>2. c.scopes = [t \in 1..L |-> c.scopes[t]]
    <3> HIDE DEF inner
    <3> QED BY <1>2, <1>25
  <2>3. c.scopes \in [1..L -> ScopeType]
    BY <1>6, <2>2
  <2> QED BY <1>2, <2>3
<1>8. /\ c.symbols \in Seq(SymbolType) /\ Len(c.symbols) = M + 1 /\ DOMAIN c.symbols = 1..M + 1
      /\ c.symbols[M + 1] = symbol /\ \A id \in 1..M : c.symbols[id] = b.symbols[id]
      /\ \A id : id \in 1..M + 1 <=> id \in 1..M \/ id = M + 1
  <2>1. b.symbols \in Seq(SymbolType) /\ symbol \in SymbolType
          /\ c.symbols = Append(b.symbols, symbol)
    BY <1>2, <1>4, <1>5
  <2>2. M = Len(b.symbols)
    BY DEF M
  <2>3. /\ Append(b.symbols, symbol) \in Seq(SymbolType)
        /\ Len(Append(b.symbols, symbol)) = M + 1
        /\ DOMAIN Append(b.symbols, symbol) = 1..M + 1
        /\ Append(b.symbols, symbol)[M + 1] = symbol
        /\ \A i \in 1..M : Append(b.symbols, symbol)[i] = b.symbols[i]
        /\ \A i : i \in 1..M + 1 <=> i \in 1..M \/ i = M + 1
    BY <2>1, <2>2, AppendIs
  <2> QED BY <2>1, <2>3
<1>9. c \in BuilderType
  <2> HIDE DEF owns, clashes
  <2>1. b.reported \in SUBSET Nat /\ b.references \in Seq(ReferenceType) /\ b.at \in Seq(Nat)
    BY BuilderIs
  <2>2. c.reported \in SUBSET Nat
    BY <1>2, <1>5, <2>1
  <2> QED BY <1>5, <1>7, <1>8, <2>1, <2>2 DEF BuilderType
<1>10. ASSUME NEW id \in 0..M PROVE Placed(c, id) = Placed(b, id)
                /\ (id # 0 => Placed(b, id) \in 1..k)
  <2>1. id # 0 => id \in 1..M
    BY <1>2
  <2>2. id # 0 => b.symbols[id].place \in 1..k
    BY <1>2, <2>1 DEF ContentsRight, SymbolsRight
  <2> QED BY <1>8, <2>1, <2>2 DEF Placed
<1>11. Placed(c, M + 1) = q
  BY <1>2, <1>4, <1>8 DEF Placed
<1>12. ASSUME NEW t \in 1..L, NEW x
       PROVE  E(t, x) = IF new(t, x) THEN D(t, x) \cup {q} ELSE D(t, x)
  <2>1. begin[t] = Inner(q) <=> t = s
    <3>1. \A i, j \in 1..L : begin[i] = begin[j] => i = j
      BY <1>0, ScopePlaces DEF L
    <3> QED BY <3>1 DEF L, q
  <2>2. /\ Declares(q) /\ n = x /\ Inner(q) = begin[t] => E(t, x) = D(t, x) \cup {q}
        /\ ~(Declares(q) /\ n = x /\ Inner(q) = begin[t]) => E(t, x) = D(t, x)
    BY DeclarationsNext DEF D, E, q, n
  <2> QED BY <2>1, <2>2
<1>13. ASSUME NEW t, NEW x
       PROVE D(t, x) \in SUBSET (Nat \ {0}) /\ \A j \in D(t, x) : j \in 1..k /\ j < q
               /\ Declares(j)
  <2>1. D(t, x) \in SUBSET (1..k) /\ \A j \in D(t, x) : Declares(j)
    BY DEF Declarations, D
  <2>2. \A j \in 1..k : j < q /\ j \in Nat /\ j # 0
    BY DEF q
  <2> QED BY <2>1, <2>2
<1>14. ASSUME NEW t \in 1..L, NEW x \in Names
       PROVE  b.scopes[t].names[x] \in 0..M /\ Placed(b, b.scopes[t].names[x]) = Owner(D(t, x))
  BY DEF ContentsRight, NamesRight, D, L, M
<1>15. /\ old # 0 <=> D(s, n) # {}
       /\ old # 0 => former = Sig(Owner(D(s, n)))
  <2>1. old \in 0..M /\ Placed(b, old) = Owner(D(s, n))
    BY <1>1, <1>14 DEF L
  <2>2. old # 0 => Placed(b, old) # 0
    BY <1>10, <2>1
  <2>3. old = 0 => Placed(b, old) = 0
    BY DEF Placed
  <2>4. Owner(D(s, n)) # 0 <=> D(s, n) # {}
    BY <1>13, OwnerType
  <2>5. old # 0 => former = Sig(b.symbols[old].place)
    <3> SUFFICES ASSUME old # 0 PROVE former = Sig(b.symbols[old].place)
      OBVIOUS
    <3>1. old \in DOMAIN b.symbols
      BY <1>2, <2>1
    <3> QED BY <3>1 DEF ContentsRight, SymbolsRight
  <2> HIDE DEF former, old
  <2> QED BY <2>1, <2>2, <2>3, <2>4, <2>5 DEF Placed, former
<1>16. ASSUME Declares(q), D(s, n) # {}
       PROVE  pair /\ former.kind = "forward"
                <=> Forward(Owner(D(s, n))) /\ Function(q) /\ ~Forward(q)
  <2> DEFINE o == Owner(D(s, n))
  <2>1. o \in D(s, n)
    BY <1>13, <1>16, OwnerType
  <2>2. o \in 1..Size /\ text[o].what \in {"variable", "function"}
    <3>1. o \in 1..k /\ Declares(o)
      BY <1>13, <2>1
    <3> HIDE DEF o
    <3> QED BY <1>0, <3>1 DEF Declares
  <2>3. former = Sig(o)
    BY <1>15, <1>16
  <2> HIDE DEF o, former
  <2>4. /\ Callable(Sig(o)) <=> Function(o)
        /\ Sig(o).kind = "forward" <=> Forward(o)
        /\ Forward(o) => Function(o)
    BY <1>0, <2>2, SigIs DEF Forward
  <2> QED BY <1>1, <2>3, <2>4 DEF ForwardPair, o
<1>17. ASSUME Declares(q)
       PROVE  Owner(D(s, n) \cup {q}) = IF owns THEN q ELSE Owner(D(s, n))
  <2>1. Owner(D(s, n) \cup {q}) =
          IF D(s, n) # {} /\ ~(Forward(Owner(D(s, n))) /\ Function(q) /\ ~Forward(q))
          THEN Owner(D(s, n)) ELSE q
    <3>1. D(s, n) \in SUBSET (Nat \ {0}) /\ q \in Nat \ {0} /\ \A j \in D(s, n) : j < q
      BY <1>0, <1>13
    <3> QED BY <3>1, OwnerNext
  <2>2. owns <=> (D(s, n) # {} => Forward(Owner(D(s, n))) /\ Function(q) /\ ~Forward(q))
    <3> HIDE DEF former, old, pair, test
    <3> QED BY <1>1, <1>15, <1>16, <1>17
  <2> HIDE DEF owns
  <2> QED BY <2>1, <2>2
<1>18. ASSUME Declares(q) PROVE clashes <=> Clash(D(s, n), q)
  <2> HIDE DEF former, old, test
  <2> QED BY <1>1, <1>15, <1>18 DEF Clash
<1>19. ~Declares(q) => ~owns /\ ~clashes
  BY <1>1
<1> HIDE DEF owns, clashes, new
<1>20. ScopesRight(m, c, q, begin)
  <2>1. \A x : x \in 0..k => x \in 0..q
    BY <1>0
  <2>2. \A t \in 1..L : c.scopes[t].parent = b.scopes[t].parent
    BY <1>6
  <2>3. 1 \in 1..L /\ \A t \in 2..L : t \in 1..L
    BY <1>2 DEF ScopesRight, L
  <2> QED BY <1>2, <1>7, <2>1, <2>2, <2>3 DEF ScopesRight, L
<1>21. SymbolsRight(m, c, q, begin)
  <2>1. SymbolsRight(m, b, k, begin)
    BY DEF ContentsRight
  <2>2. \A p : p \in 1..q <=> p \in 1..k \/ p = q
    BY DEF q
  <2>3. InOrder(c.symbols)
    <3>1. InOrder(b.symbols)
      BY <2>1 DEF SymbolsRight
    <3>2. \A id \in 1..M : b.symbols[id].place < q
      <4>1. \A id \in 1..M : b.symbols[id].place \in 1..k
        BY <1>2, <2>1 DEF SymbolsRight
      <4> QED BY <4>1 DEF q
    <3>3. ASSUME NEW i \in 1..M + 1, NEW j \in 1..M + 1, i < j
          PROVE c.symbols[i].place < c.symbols[j].place
      <4>1. i \in 1..M
        BY <1>2, <3>3
      <4>2. CASE j = M + 1
        BY <1>4, <1>8, <3>2, <4>1, <4>2
      <4>3. CASE j \in 1..M
        BY <1>2, <1>8, <3>1, <3>3, <4>1, <4>3 DEF InOrder
      <4> QED BY <1>8, <4>2, <4>3
    <3> QED BY <1>8, <3>3 DEF InOrder
  <2>4. ASSUME NEW id \in 1..M + 1
        PROVE  LET y == c.symbols[id]
                   p == y.place
               IN /\ p \in 1..q /\ Declared(m, p)
                  /\ y.name = text[p].name /\ y.signature = Sig(p)
                  /\ y.scope \in 1..L /\ begin[y.scope] = Inner(p)
    <3>1. CASE id \in 1..M
      BY <1>2, <1>8, <2>1, <2>2, <3>1 DEF SymbolsRight, L
    <3>2. CASE id = M + 1
      <4>1. s \in 1..L /\ begin[s] = Inner(q) /\ Declared(m, q)
        BY DEF L, q
      <4> QED BY <1>4, <1>8, <2>2, <3>2, <4>1 DEF n
    <3> QED BY <1>8, <3>1, <3>2
  <2>5. ASSUME NEW p \in 1..q, Declared(m, p) PROVE \E id \in 1..M + 1 : c.symbols[id].place = p
    <3>1. CASE p \in 1..k
      <4>1. PICK id \in 1..M : b.symbols[id].place = p
        BY <1>2, <2>1, <2>5, <3>1 DEF SymbolsRight
      <4> QED BY <1>8, <4>1
    <3>2. CASE p = q
      BY <1>4, <1>8, <3>2
    <3> QED BY <2>2, <3>1, <3>2
  <2> QED BY <1>8, <2>3, <2>4, <2>5 DEF SymbolsRight, L
<1>22. NamesRight(c, q, begin)
  <2> SUFFICES ASSUME NEW t \in 1..L, NEW x \in Names
               PROVE  LET id == c.scopes[t].names[x]
                      IN id \in 0..M + 1 /\ Placed(c, id) = Owner(E(t, x))
    BY <1>8 DEF NamesRight, E, L
  <2>1. CASE new(t, x)
    <3>1. /\ c.scopes[t].names[x] = IF owns THEN M + 1 ELSE b.scopes[t].names[x]
          /\ E(t, x) = D(s, n) \cup {q} /\ t = s /\ x = n /\ Declares(q)
      BY <1>6, <1>12, <2>1 DEF new
    <3>2. CASE owns
      <4>1. c.scopes[t].names[x] = M + 1 /\ M + 1 \in 0..M + 1
        BY <1>2, <3>1, <3>2
      <4> QED BY <1>11, <1>17, <3>1, <3>2, <4>1
    <3>3. CASE ~owns
      <4>1. c.scopes[t].names[x] \in 0..M /\ c.scopes[t].names[x] = b.scopes[t].names[x]
        BY <1>14, <3>1, <3>3
      <4>2. c.scopes[t].names[x] \in 0..M + 1
        BY <1>2, <4>1
      <4> QED BY <1>10, <1>14, <1>17, <3>1, <3>3, <4>1, <4>2
    <3> QED BY <3>2, <3>3
  <2>2. CASE ~new(t, x)
    <3>1. c.scopes[t].names[x] = b.scopes[t].names[x]
      BY <1>6, <1>19, <2>2 DEF new
    <3>2. b.scopes[t].names[x] \in 0..M /\ b.scopes[t].names[x] \in 0..M + 1
      BY <1>2, <1>14
    <3> QED BY <1>10, <1>12, <1>14, <2>2, <3>1, <3>2
  <2> QED BY <2>1, <2>2
<1>23. ReferencesRight(m, c, q, begin)
  <2>1. ReferencesRight(m, b, k, begin)
    BY DEF ContentsRight
  <2>2. \A p : p \in 1..q <=> p \in 1..k \/ p = q
    BY DEF q
  <2>3. ~Used(m, q)
    BY <1>0 DEF Used
  <2>4. ASSUME NEW i \in DOMAIN b.references
        PROVE  /\ b.references[i].resolved \in 0..M + 1
               /\ Placed(c, b.references[i].resolved) = Placed(b, b.references[i].resolved)
    <3>1. b.references[i].resolved \in 0..M
      BY <2>1 DEF ReferencesRight, M
    <3>2. b.references[i].resolved \in 0..M + 1
      BY <1>2, <3>1
    <3> QED BY <1>10, <3>1, <3>2
  <2>5. c.references = b.references /\ Len(c.symbols) = M + 1
    BY <1>5, <1>8
  <2>6. \A i \in DOMAIN b.references : b.references[i].place \in 1..q
    BY <2>1, <2>2 DEF ReferencesRight
  <2>7. \A p \in 1..q : Used(m, p) => p \in 1..k
    BY <2>2, <2>3
  <2>8. ASSUME NEW i \in DOMAIN b.references
        PROVE  LET use == b.references[i]
                   p == use.place
               IN /\ p \in 1..q /\ Used(m, p)
                  /\ use.name = text[p].name /\ use.args = text[p].args
                  /\ use.scope \in 1..L /\ begin[use.scope] = Inner(p)
                  /\ use.resolved \in 0..M + 1
                  /\ Placed(c, use.resolved) = Or(Called(p, p - 1), Named(p, p - 1))
    BY <2>1, <2>4, <2>6 DEF ReferencesRight, L
  <2>9. InOrder(c.references)
    BY <2>1, <2>5 DEF ReferencesRight
  <2>10. \A p \in 1..q : Used(m, p) => \E i \in DOMAIN c.references : c.references[i].place = p
    BY <2>1, <2>5, <2>7 DEF ReferencesRight
  <2>11. \A i \in DOMAIN c.references :
           LET use == c.references[i]
               p == use.place
           IN /\ p \in 1..q /\ Used(m, p)
              /\ use.name = text[p].name /\ use.args = text[p].args
              /\ use.scope \in 1..Len(begin) /\ begin[use.scope] = Inner(p)
              /\ use.resolved \in 0..Len(c.symbols)
              /\ Placed(c, use.resolved) = Or(Called(p, p - 1), Named(p, p - 1))
    BY <2>5, <2>8 DEF L
  <2> QED BY <2>9, <2>10, <2>11, Zenon DEF ReferencesRight
<1>24. ReportedRight(c, q, begin)
  <2>1. ReportedRight(b, k, begin)
    BY DEF ContentsRight
  <2>2. c.reported \subseteq DOMAIN c.symbols
    BY <1>2, <1>5, <1>8, <2>1 DEF ReportedRight
  <2>3. \A id \in b.reported : id \in 1..M /\ c.symbols[id] = b.symbols[id]
          /\ b.symbols[id].place \in 1..k
    BY <1>2, <1>8, <2>1 DEF ReportedRight, ContentsRight, SymbolsRight
  <2>4. \A j \in 1..k : j # q
    BY DEF q
  <2>5. c.symbols[M + 1].place = q
    BY <1>4, <1>8
  <2>6. ASSUME NEW t \in 1..L, NEW x \in Names
        PROVE  Together(E(t, x)) <=> \A id \in c.reported : c.symbols[id].place \notin E(t, x)
    <3>1. Together(D(t, x)) <=> \A id \in b.reported : b.symbols[id].place \notin D(t, x)
      BY <2>1 DEF ReportedRight, D, L
    <3>2. CASE new(t, x)
      <4>1. E(t, x) = D(t, x) \cup {q} /\ t = s /\ x = n /\ Declares(q)
        BY <1>12, <3>2 DEF new
      <4>2. Together(E(t, x)) <=> Together(D(t, x)) /\ ~clashes
        <5>1. D(t, x) \in SUBSET (1..Size)
          BY <1>0, <1>13
        <5>2. Together(D(t, x) \cup {q}) <=> Together(D(t, x)) /\ ~Clash(D(t, x), q)
          BY <1>0, <1>13, <4>1, <5>1, TogetherNext
        <5> QED BY <1>18, <4>1, <5>2
      <4>3. (\A id \in b.reported : c.symbols[id].place \notin E(t, x)) <=> Together(D(t, x))
        BY <2>3, <2>4, <3>1, <4>1
      <4>4. c.reported = IF clashes THEN b.reported \cup {M + 1} ELSE b.reported
        BY <1>5
      <4>5. c.symbols[M + 1].place \in E(t, x)
        BY <2>5, <4>1
      <4> QED BY <4>2, <4>3, <4>4, <4>5
    <3>3. CASE ~new(t, x)
      <4>1. E(t, x) = D(t, x) /\ q \notin D(t, x)
        BY <1>12, <1>13, <2>4, <3>3
      <4>2. \A id \in c.reported : id \in b.reported \/ id = M + 1
        BY <1>5
      <4>3. b.reported \subseteq c.reported
        BY <1>5
      <4> QED BY <2>3, <2>5, <3>1, <4>1, <4>2, <4>3
    <3> QED BY <3>2, <3>3
  <2> QED BY <2>2, <2>6 DEF ReportedRight, E, L
<1> QED BY <1>2, <1>5, <1>7, <1>9, <1>20, <1>21, <1>22, <1>23, <1>24 DEF ContentsRight, q

\* A use more.
LEMMA UseRight ==
  ASSUME TextOK, NEW m, NEW b \in BuilderType, NEW k \in Nat, k < Size, NEW begin,
         ScopesRight(m, b, k, begin), ContentsRight(m, b, k, begin), Used(m, k + 1),
         Last(b.at) \in 1..Len(begin), begin[Last(b.at)] = Inner(k + 1),
         NEW c, c = WalkUse(m, b, text[k + 1].name, text[k + 1].args, k + 1)
  PROVE  /\ c \in BuilderType /\ c.at = b.at
         /\ ScopesRight(m, c, k + 1, begin) /\ ContentsRight(m, c, k + 1, begin)
<1> DEFINE q == k + 1
           s == Last(b.at)
           found == Resolve(b, s, text[q].name, text[q].args)
           ref == [name |-> text[q].name, args |-> text[q].args, scope |-> s, place |-> q,
                   resolved |-> found]
           L == Len(begin)
           M == Len(b.symbols)
           R == Len(b.references)
<1>0. /\ Size \in Nat /\ text \in Seq(Events) /\ q \in 1..Size /\ q \in Nat /\ k < q
      /\ q - 1 = k
      /\ k \in 0..Size /\ text[q].what = "use" /\ m # "declarations" /\ s \in 1..L
      /\ begin[s] = Inner(q)
  BY DEF TextOK, Size, Used
<1>1. text[q].name \in Names /\ text[q].args \in Arguments \cup {NotACall}
  BY <1>0, EventTypes
<1>2. /\ SymbolsRight(m, b, k, begin) /\ NamesRight(b, k, begin)
      /\ ReferencesRight(m, b, k, begin)
      /\ L \in Nat /\ M \in Nat /\ R \in Nat /\ DOMAIN b.references = 1..R
      /\ b.references \in Seq(ReferenceType)
  BY <1>0, BuilderIs, ScopePlaces DEF ContentsRight
<1>3. found \in 0..M /\ Placed(b, found) = Or(Called(q, q - 1), Named(q, q - 1))
  <2> HIDE DEF q, s
  <2>1. found \in 0..M /\ Placed(b, found) = Or(Called(q, k), Named(q, k))
    <3>1. /\ q \in 1..Size /\ text[q].what = "use" /\ s \in 1..Len(begin) /\ begin[s] = Inner(q)
          /\ k \in 0..Size
      BY <1>0
    <3>2. SymbolsRight(m, b, k, begin) /\ NamesRight(b, k, begin)
      BY <1>2
    <3> HIDE DEF M, L, R
    <3>3. /\ Resolve(b, s, text[q].name, text[q].args) \in 0..Len(b.symbols)
          /\ Placed(b, Resolve(b, s, text[q].name, text[q].args))
               = Or(Called(q, k), Named(q, k))
      BY <3>1, <3>2, ResolveIs
    <3> QED BY <3>3 DEF found, M
  <2> QED BY <1>0, <2>1
<1> HIDE DEF found, q, s, L, M, R
<1>4. ref \in ReferenceType
  <2>1. s \in Nat /\ found \in Nat
    BY <1>0, <1>2, <1>3
  <2> QED BY <1>0, <1>1, <2>1 DEF ReferenceType
<1>5. /\ ref.name = text[q].name /\ ref.args = text[q].args /\ ref.scope = s /\ ref.place = q
      /\ ref.resolved = found
  OBVIOUS
<1> HIDE DEF ref
<1>6. c = [b EXCEPT !.references = Append(@, ref)]
  BY <1>0 DEF WalkUse, ref, q, s, found
<1>7. /\ c.symbols = b.symbols /\ c.scopes = b.scopes /\ c.reported = b.reported /\ c.at = b.at
      /\ c.references = Append(b.references, ref) /\ c \in BuilderType
  <2>1. Append(b.references, ref) \in Seq(ReferenceType)
    BY <1>2, <1>4
  <2> QED BY <1>6, <2>1 DEF BuilderType
<1>8. /\ DOMAIN c.references = 1..R + 1 /\ c.references[R + 1] = ref
      /\ \A i \in 1..R : c.references[i] = b.references[i]
      /\ \A i : i \in 1..R + 1 <=> i \in 1..R \/ i = R + 1
  BY <1>2, <1>4, <1>7, AppendIs DEF R
<1>9. ~Declared(m, q)
  BY <1>0 DEF Declared
<1>10. /\ ScopesRight(m, b, q, begin) /\ SymbolsRight(m, b, q, begin)
       /\ NamesRight(b, q, begin) /\ ReportedRight(b, q, begin)
  BY <1>9, NothingNew DEF q
<1>11. \A id : Placed(c, id) = Placed(b, id)
  BY <1>7 DEF Placed
<1>12. /\ ScopesRight(m, c, q, begin) /\ SymbolsRight(m, c, q, begin)
       /\ NamesRight(c, q, begin) /\ ReportedRight(c, q, begin)
  <2>1. ScopesRight(m, c, q, begin)
    BY <1>7, <1>10, SameParts
  <2>2. SymbolsRight(m, c, q, begin)
    BY <1>7, <1>10, SameParts
  <2>3. NamesRight(c, q, begin)
    BY <1>7, <1>10, <1>11 DEF NamesRight
  <2>4. ReportedRight(c, q, begin)
    BY <1>7, <1>10 DEF ReportedRight
  <2> QED BY <2>1, <2>2, <2>3, <2>4
<1>13. ReferencesRight(m, c, q, begin)
  <2>1. \A p : p \in 1..q <=> p \in 1..k \/ p = q
    BY DEF q
  <2>2. \A i \in 1..R : b.references[i].place \in 1..k /\ b.references[i].place < q
    <3>1. \A i \in 1..R : b.references[i].place \in 1..k
      BY <1>2 DEF ReferencesRight
    <3> QED BY <3>1 DEF q
  <2>3. InOrder(c.references)
    <3>1. ASSUME NEW i \in 1..R + 1, NEW j \in 1..R + 1, i < j
          PROVE  c.references[i].place < c.references[j].place
      <4>1. i \in 1..R
        BY <1>2, <3>1
      <4>2. CASE j = R + 1
        BY <1>5, <1>8, <2>2, <4>1, <4>2
      <4>3. CASE j \in 1..R
        BY <1>2, <1>8, <3>1, <4>1, <4>3 DEF ReferencesRight, InOrder
      <4> QED BY <1>8, <4>2, <4>3
    <3> QED BY <1>8, <3>1 DEF InOrder
  <2>4. ASSUME NEW i \in 1..R + 1
        PROVE  LET use == c.references[i]
                   p == use.place
               IN /\ p \in 1..q /\ Used(m, p)
                  /\ use.name = text[p].name /\ use.args = text[p].args
                  /\ use.scope \in 1..L /\ begin[use.scope] = Inner(p)
                  /\ use.resolved \in 0..M
                  /\ Placed(c, use.resolved) = Or(Called(p, p - 1), Named(p, p - 1))
    <3>1. CASE i \in 1..R
      <4> DEFINE use == b.references[i]
                 p == use.place
      <4>1. /\ p \in 1..k /\ Used(m, p)
            /\ use.name = text[p].name /\ use.args = text[p].args
            /\ use.scope \in 1..L /\ begin[use.scope] = Inner(p)
            /\ use.resolved \in 0..M
            /\ Placed(b, use.resolved) = Or(Called(p, p - 1), Named(p, p - 1))
        BY <1>2, <3>1 DEF ReferencesRight, L, M
      <4>2. c.references[i] = use /\ p \in 1..q
        BY <1>8, <2>1, <3>1, <4>1
      <4> HIDE DEF use
      <4> QED BY <1>11, <4>1, <4>2
    <3>2. CASE i = R + 1
      <4>1. Used(m, q)
        BY DEF q
      <4>2. c.references[i] = ref /\ q \in 1..q
        BY <1>8, <2>1, <3>2
      <4>3. Placed(c, found) = Or(Called(q, q - 1), Named(q, q - 1))
        BY <1>3, <1>11
      <4> QED BY <1>0, <1>3, <1>5, <4>1, <4>2, <4>3
    <3> QED BY <1>8, <3>1, <3>2
  <2>5. ASSUME NEW p \in 1..q, Used(m, p) PROVE \E i \in 1..R + 1 : c.references[i].place = p
    <3>1. CASE p \in 1..k
      <4>1. PICK i \in 1..R : b.references[i].place = p
        BY <1>2, <2>5, <3>1 DEF ReferencesRight
      <4> QED BY <1>8, <4>1
    <3>2. CASE p = q
      BY <1>5, <1>8, <3>2
    <3> QED BY <2>1, <3>1, <3>2
  <2>6. Len(c.symbols) = M
    BY <1>7 DEF M
  <2>7. \A i \in DOMAIN c.references :
           LET use == c.references[i]
               p == use.place
           IN /\ p \in 1..q /\ Used(m, p)
              /\ use.name = text[p].name /\ use.args = text[p].args
              /\ use.scope \in 1..Len(begin) /\ begin[use.scope] = Inner(p)
              /\ use.resolved \in 0..Len(c.symbols)
              /\ Placed(c, use.resolved) = Or(Called(p, p - 1), Named(p, p - 1))
    BY <1>8, <2>4, <2>6 DEF L
  <2>8. \A p \in 1..q : Used(m, p) => \E i \in DOMAIN c.references : c.references[i].place = p
    BY <1>8, <2>5
  <2> QED BY <2>3, <2>7, <2>8, Zenon DEF ReferencesRight
<1> QED BY <1>7, <1>12, <1>13 DEF ContentsRight, q

----------------------------------------------------------------------------
(* The stack of scopes.                                                    *)

Extends(more, begin) == \A j \in 1..Len(begin) : j \in 1..Len(more) /\ more[j] = begin[j]

\* The last of the stack is for the innermost scope.
LEMMA LastRight ==
  ASSUME TextOK, NEW m, NEW b \in BuilderType, NEW k \in Nat, k < Size, NEW begin, NEW opens,
         StackRight(m, b, k, begin, opens)
  PROVE  /\ Len(opens) \in Nat /\ opens[Len(opens)] = Inner(k + 1)
         /\ Last(b.at) = b.at[Len(opens)]
         /\ Hidden(m, k + 1) => Last(b.at) = 0
         /\ ~Hidden(m, k + 1) => /\ Last(b.at) \in 1..Len(begin) /\ Last(b.at) # 0
                                 /\ begin[Last(b.at)] = Inner(k + 1)
<1> DEFINE J == Len(opens)
           T == {opens[j] : j \in 1..J}
<1>1. /\ J \in Nat /\ J >= 1 /\ opens \in Seq(Nat) /\ DOMAIN opens = 1..J /\ Len(b.at) = J
      /\ T = Around[k + 1] \cup {0} /\ Increasing(opens) /\ J \in 1..J
  BY DEF StackRight
<1>2. ASSUME NEW j \in 1..J PROVE opens[j] <= opens[J] /\ opens[j] \in Nat
  <2>1. j = J \/ j < J
    <3>1. J \in Nat
      BY <1>1
    <3> HIDE DEF J
    <3> QED BY <3>1
  <2>2. j < J => opens[j] < opens[J]
    BY <1>1 DEF Increasing
  <2>3. opens[j] \in Nat /\ opens[J] \in Nat
    BY <1>1
  <2> QED BY <2>1, <2>2, <2>3
<1>3. opens[J] = Inner(k + 1)
  <2>1. T \in SUBSET Nat /\ opens[J] \in T /\ \A x \in T : x <= opens[J]
    BY <1>1, <1>2
  <2>2. Inner(k + 1) = Max(T)
    BY <1>1 DEF Inner, Nearest
  <2> HIDE DEF T, J
  <2> QED BY <2>1, <2>2, MaxIs
<1>4. Last(b.at) = b.at[J]
  BY <1>1 DEF Last
<1>5. Hidden(m, opens[J] + 1) <=> Hidden(m, k + 1)
  <2>1. k + 1 \in 1..Size + 1 /\ Size \in Nat
    BY DEF TextOK, Size
  <2>2. Around[Inner(k + 1) + 1] = Around[k + 1]
    BY <2>1, InnerAround
  <2> QED BY <1>3, <2>2 DEF Hidden
<1>6. /\ Hidden(m, opens[J] + 1) => b.at[J] = 0
      /\ ~Hidden(m, opens[J] + 1) => b.at[J] \in 1..Len(begin) /\ begin[b.at[J]] = opens[J]
  BY <1>1 DEF StackRight
<1>7. \A x \in 1..Len(begin) : x # 0
  OBVIOUS
<1> QED BY <1>1, <1>3, <1>4, <1>5, <1>6, <1>7

\* An event that neither opens nor ends leaves the stack right.
LEMMA StackStays ==
  ASSUME NEW m, NEW b, NEW c, NEW k, NEW begin, NEW more, NEW opens,
         StackRight(m, b, k, begin, opens), c.at = b.at, Extends(more, begin),
         Around[k + 2] = Around[k + 1], k + 1 + 1 = k + 2
  PROVE  StackRight(m, c, k + 1, more, opens)
BY DEF StackRight, Extends

\* Append, where provers need not know what it is.
Pushed(stack, v) == Append(stack, v)

\* An event that opens puts its scope, or 0 if its details are not kept, on top.
LEMMA StackPushed ==
  ASSUME TextOK, NEW m, NEW b \in BuilderType, NEW k \in Nat, k < Size, NEW begin, NEW more,
           NEW opens,
         StackRight(m, b, k, begin, opens), Extends(more, begin), Opens(k + 1),
         NEW v \in Nat, NEW c, c.at = Pushed(b.at, v),
         Hidden(m, k + 2) => v = 0,
         ~Hidden(m, k + 2) => v \in 1..Len(more) /\ more[v] = k + 1
  PROVE  StackRight(m, c, k + 1, more, Append(opens, k + 1))
<1> DEFINE J == Len(opens)
           q == k + 1
           wide == Append(opens, q)
<1>0. Size \in Nat /\ q \in 1..Size /\ q \in 1..Size + 1 /\ q \in Nat /\ q + 1 = k + 2
  BY DEF TextOK, Size
<1>1. /\ J \in Nat /\ J >= 1 /\ opens \in Seq(Nat) /\ DOMAIN opens = 1..J /\ Len(b.at) = J
      /\ b.at \in Seq(Nat) /\ opens[1] = 0
      /\ {opens[j] : j \in 1..J} = Around[q] \cup {0} /\ Increasing(opens)
  BY BuilderIs DEF StackRight
<1>2. /\ wide \in Seq(Nat) /\ Len(wide) = J + 1 /\ DOMAIN wide = 1..J + 1 /\ wide[J + 1] = q
      /\ \A j \in 1..J : wide[j] = opens[j]
      /\ \A j : j \in 1..J + 1 <=> j \in 1..J \/ j = J + 1
  <2> HIDE DEF q
  <2> QED BY <1>0, <1>1, AppendIs
<1>3. Len(c.at) = J + 1 /\ c.at[J + 1] = v /\ \A j \in 1..J : c.at[j] = b.at[j]
  BY <1>1, AppendIs DEF Pushed
<1>4. Around[q + 1] = Around[q] \cup {q}
  BY <1>0, AroundNext
<1>5. {wide[j] : j \in 1..J + 1} = Around[q + 1] \cup {0}
  <2> HIDE DEF wide, q, J
  <2>1. {wide[j] : j \in 1..J + 1} = {opens[j] : j \in 1..J} \cup {q}
    BY <1>2
  <2> QED BY <1>1, <1>4, <2>1
<1>6. Increasing(wide)
  <2>1. \A j \in 1..J : opens[j] < q
    <3>1. \A j \in 1..J : opens[j] \in Around[q] \cup {0}
      BY <1>1
    <3>2. Around[q] \in SUBSET (1..q - 1)
      BY <1>0, AroundType
    <3>3. \A x \in Around[q] \cup {0} : x < q
      BY <1>0, <3>2
    <3> QED BY <3>1, <3>3
  <2>2. ASSUME NEW i \in 1..J + 1, NEW j \in 1..J + 1, i < j PROVE wide[i] < wide[j]
    <3>1. i \in 1..J
      BY <1>1, <2>2
    <3> HIDE DEF wide, J, q
    <3>2. CASE j = J + 1
      BY <1>2, <2>1, <3>1, <3>2
    <3>3. CASE j \in 1..J
      BY <1>1, <1>2, <2>2, <3>1, <3>3 DEF Increasing
    <3> QED BY <1>2, <3>2, <3>3
  <2> HIDE DEF wide
  <2> QED BY <1>2, <2>2 DEF Increasing
<1>7. ASSUME NEW j \in 1..J + 1
      PROVE  /\ Hidden(m, wide[j] + 1) => c.at[j] = 0
             /\ ~Hidden(m, wide[j] + 1) => c.at[j] \in 1..Len(more) /\ more[c.at[j]] = wide[j]
  <2> HIDE DEF wide, J
  <2>1. CASE j = J + 1
    BY <1>0, <1>2, <1>3, <2>1
  <2>2. CASE j \in 1..J
    <3>1. /\ Hidden(m, opens[j] + 1) => b.at[j] = 0
          /\ ~Hidden(m, opens[j] + 1) => b.at[j] \in 1..Len(begin) /\ begin[b.at[j]] = opens[j]
      BY <2>2 DEF StackRight, J
    <3> QED BY <1>2, <1>3, <2>2, <3>1 DEF Extends
  <2> QED BY <1>2, <2>1, <2>2
<1>8. wide[1] = 0 /\ J + 1 >= 1
  BY <1>1, <1>2
<1> HIDE DEF wide, J, q
<1>9. StackRight(m, c, q, more, wide)
  BY <1>2, <1>3, <1>5, <1>6, <1>7, <1>8 DEF StackRight
<1> QED BY <1>9 DEF wide, q

\* What Front gives.
LEMMA FrontIs ==
  ASSUME NEW s \in Seq(Nat), NEW n \in Nat, Len(s) = n + 1
  PROVE  /\ Front(s) \in Seq(Nat) /\ Len(Front(s)) = n /\ DOMAIN Front(s) = 1..n
         /\ \A j \in 1..n : Front(s)[j] = s[j]
<1> DEFINE f == SubSeq(s, 1, n)
<1>1. Front(s) = f
  <2>1. Len(s) - 1 = n
    OBVIOUS
  <2> QED BY <2>1 DEF Front
<1>2. \A j \in 1..n : j \in 1..n + 1
  OBVIOUS
<1>3. \A j \in 1..n : s[j] \in Nat
  BY <1>2
<1>4. Len(f) = n /\ \A j \in 1..n : f[j] = s[j]
  BY <1>2
<1>5. f \in Seq(Nat)
  OBVIOUS
<1>6. DOMAIN f = 1..n
  BY <1>4, <1>5
<1> QED BY <1>1, <1>4, <1>5, <1>6

\* An end takes off what the innermost open event has put there.
LEMMA StackPopped ==
  ASSUME TextOK, NEW m, NEW b \in BuilderType, NEW k \in Nat, k < Size, NEW begin, NEW opens,
         StackRight(m, b, k, begin, opens), text[k + 1].what = "end",
         NEW c, c.at = Front(b.at)
  PROVE  StackRight(m, c, k + 1, begin, Front(opens)) /\ Front(b.at) \in Seq(Nat)
<1> DEFINE J == Len(opens)
           q == k + 1
           less == Front(opens)
<1>0. /\ Size \in Nat /\ q \in 1..Size /\ q \in 1..Size + 1 /\ q \in Nat
      /\ Around[q] # {}
  BY DEF TextOK, Size
<1>1. /\ J \in Nat /\ J >= 1 /\ opens \in Seq(Nat) /\ DOMAIN opens = 1..J /\ Len(b.at) = J
      /\ b.at \in Seq(Nat) /\ opens[1] = 0
      /\ {opens[j] : j \in 1..J} = Around[q] \cup {0} /\ Increasing(opens)
  BY BuilderIs DEF StackRight
<1>2. opens[J] = Inner(q) /\ Inner(q) \in Around[q] /\ Inner(q) # 0
  <2>1. opens[J] = Inner(q) /\ Inner(q) \in Around[q]
    <3>1. opens[J] = Inner(q)
      BY LastRight
    <3>2. Inner(q) \in Around[q]
      BY <1>0, InnerAround
    <3> QED BY <3>1, <3>2
  <2>2. Around[q] \in SUBSET (1..q - 1)
    BY <1>0, AroundType
  <2> QED BY <2>1, <2>2
<1>3. J # 1
  BY <1>1, <1>2
<1>4. /\ less \in Seq(Nat) /\ Len(less) = J - 1 /\ DOMAIN less = 1..J - 1
      /\ \A j \in 1..J - 1 : less[j] = opens[j]
  <2>1. J - 1 \in Nat /\ J = (J - 1) + 1
    BY <1>1, <1>3
  <2> HIDE DEF J
  <2> DEFINE n == J - 1
  <2>2. n \in Nat /\ Len(opens) = n + 1
    BY <2>1 DEF J
  <2> HIDE DEF n
  <2>3. /\ less \in Seq(Nat) /\ Len(less) = n /\ DOMAIN less = 1..n
        /\ \A j \in 1..n : less[j] = opens[j]
    BY <1>1, <2>2, FrontIs
  <2> QED BY <2>3 DEF n
<1>5. /\ Front(b.at) \in Seq(Nat) /\ Len(c.at) = J - 1 /\ \A j \in 1..J - 1 : c.at[j] = b.at[j]
  <2> DEFINE n == J - 1
  <2>1. n \in Nat /\ Len(b.at) = n + 1 /\ b.at \in Seq(Nat)
    BY <1>1, <1>3
  <2> HIDE DEF n
  <2>2. /\ Front(b.at) \in Seq(Nat) /\ Len(Front(b.at)) = n
        /\ \A j \in 1..n : Front(b.at)[j] = b.at[j]
    BY <2>1, FrontIs
  <2> QED BY <2>2 DEF n
<1>6. Around[q + 1] = Around[q] \ {Max(Around[q])} /\ Max(Around[q]) = Inner(q)
  <2>1. ~Opens(q)
    BY DEF Opens
  <2>2. Around[q + 1] = Around[q] \ {Max(Around[q])}
    BY <1>0, <2>1, AroundNext
  <2>3. Around[q] \in SUBSET (1..q - 1)
    BY <1>0, AroundType
  <2>4. Around[q] \in SUBSET (0..q - 1) /\ q - 1 \in Nat
    BY <2>3
  <2>5. Max(Around[q]) \in Around[q] /\ \A x \in Around[q] : x <= Max(Around[q])
    BY <1>0, <2>4, MaxOf
  <2>6. Around[q] \cup {0} \in SUBSET Nat /\ \A x \in Around[q] \cup {0} : x <= Max(Around[q])
    BY <2>3, <2>5
  <2>7. Max(Around[q] \cup {0}) = Max(Around[q])
    BY <2>5, <2>6, MaxIs
  <2> QED BY <2>2, <2>7 DEF Inner, Nearest
<1>7. {less[j] : j \in 1..J - 1} = Around[q + 1] \cup {0}
  <2>1. \A j \in 1..J : j # J => opens[j] # opens[J]
    <3>1. \A j \in 1..J : j # J => j < J /\ J \in 1..J
      <4>1. J \in Nat
        BY <1>1
      <4> HIDE DEF J
      <4> QED BY <4>1
    <3>2. \A j \in 1..J : j # J => opens[j] < opens[J]
      BY <1>1, <3>1 DEF Increasing
    <3>3. \A j \in 1..J : opens[j] \in Nat
      BY <1>1
    <3> QED BY <3>2, <3>3
  <2>2. \A j : j \in 1..J <=> j \in 1..J - 1 \/ j = J
    BY <1>1
  <2>3. J \notin 1..J - 1
    BY <1>1
  <2> HIDE DEF J, less, q
  <2>4. {less[j] : j \in 1..J - 1} = {opens[j] : j \in 1..J} \ {opens[J]}
    BY <1>4, <2>1, <2>2, <2>3
  <2> QED BY <1>1, <1>2, <1>6, <2>4
<1>8. Increasing(less)
  <2>1. \A j \in 1..J - 1 : j \in 1..J
    BY <1>1
  <2> HIDE DEF less, J
  <2> QED BY <1>1, <1>4, <2>1 DEF Increasing
<1>9. ASSUME NEW j \in 1..J - 1
      PROVE  /\ Hidden(m, less[j] + 1) => c.at[j] = 0
             /\ ~Hidden(m, less[j] + 1) => c.at[j] \in 1..Len(begin) /\ begin[c.at[j]] = less[j]
  <2>1. j \in 1..J
    BY <1>1
  <2> HIDE DEF less, J
  <2>2. /\ Hidden(m, opens[j] + 1) => b.at[j] = 0
        /\ ~Hidden(m, opens[j] + 1) => b.at[j] \in 1..Len(begin) /\ begin[b.at[j]] = opens[j]
    BY <2>1 DEF StackRight, J
  <2> QED BY <1>4, <1>5, <2>2
<1>10. less[1] = 0 /\ J - 1 >= 1
  BY <1>1, <1>3, <1>4
<1> HIDE DEF less, J, q
<1>11. StackRight(m, c, q, begin, less)
  BY <1>4, <1>5, <1>7, <1>8, <1>9, <1>10 DEF StackRight
<1> QED BY <1>5, <1>11 DEF less, q

----------------------------------------------------------------------------
(* The walk.                                                               *)

\* Enter touches the stack only.
LEMMA EnterIs ==
  ASSUME NEW b \in BuilderType, NEW v \in Nat, NEW c, c = Enter(b, v)
  PROVE  /\ c \in BuilderType /\ c.at = Pushed(b.at, v) /\ c.symbols = b.symbols
         /\ c.scopes = b.scopes /\ c.references = b.references /\ c.reported = b.reported
<1>1. b.at \in Seq(Nat)
  BY BuilderIs
<1>2. Append(b.at, v) \in Seq(Nat)
  BY <1>1
<1> QED BY <1>2 DEF Enter, BuilderType, Pushed

Before(begin, q) == \A s \in 1..Len(begin) : begin[s] < q

\* What opens at q gets a scope of its own, and the stack has it.
LEMMA EnterNewRight ==
  ASSUME TextOK, NEW m, NEW b \in BuilderType, NEW q \in 1..Size, NEW begin,
         ScopesRight(m, b, q, begin), ContentsRight(m, b, q, begin),
         Before(begin, q), ~Hidden(m, q + 1),
         Last(b.at) \in 1..Len(begin), begin[Last(b.at)] = Inner(q),
         NEW c, c = EnterNew(b)
  PROVE  /\ c \in BuilderType /\ c.at = Pushed(b.at, Len(begin) + 1)
         /\ ScopesRight(m, c, q, Append(begin, q)) /\ ContentsRight(m, c, q, Append(begin, q))
         /\ Extends(Append(begin, q), begin) /\ Len(begin) + 1 \in Nat
         /\ Len(begin) + 1 \in 1..Len(Append(begin, q)) /\ Append(begin, q)[Len(begin) + 1] = q
<1> DEFINE d == NewScope(b, Last(b.at))
<1>1. begin \in Seq(Nat) /\ Len(b.scopes) = Len(begin) /\ q \in Nat /\ Last(b.at) # 0
  BY DEF ScopesRight
<1>2. /\ d \in BuilderType /\ ScopesRight(m, d, q, Append(begin, q))
      /\ ContentsRight(m, d, q, Append(begin, q))
  BY ScopeNew DEF Before
<1>3. d.at = b.at
  BY DEF NewScope, BuilderType
<1>4. c = Enter(d, Len(begin) + 1)
  BY <1>1 DEF EnterNew
<1> HIDE DEF d
<1>5. Len(begin) + 1 \in Nat
  BY <1>1
<1>6. /\ c \in BuilderType /\ c.at = Pushed(d.at, Len(begin) + 1) /\ c.symbols = d.symbols
      /\ c.scopes = d.scopes /\ c.references = d.references /\ c.reported = d.reported
  BY <1>2, <1>4, <1>5, EnterIs
<1>7. ScopesRight(m, c, q, Append(begin, q)) /\ ContentsRight(m, c, q, Append(begin, q))
  BY <1>2, <1>6, SameContents
<1>8. /\ Extends(Append(begin, q), begin)
      /\ Len(begin) + 1 \in 1..Len(Append(begin, q)) /\ Append(begin, q)[Len(begin) + 1] = q
  BY <1>1 DEF Extends
<1> QED BY <1>3, <1>5, <1>6, <1>7, <1>8

\* Details are hidden from a function that is not kept until its end.
LEMMA HiddenNext ==
  ASSUME TextOK, NEW m, NEW q \in 1..Size
  PROVE  /\ Opens(q) => (Hidden(m, q + 1) <=>
                            Hidden(m, q) \/ (Function(q) /\ ~KeepDetails(m, text[q].signature)))
         /\ ~Opens(q) /\ text[q].what # "end" => Around[q + 1] = Around[q]
         /\ text[q].what = "function" => ~Hidden(m, q) /\ Around[q] = {}
<1>1. Size \in Nat
  BY DEF TextOK, Size
<1> QED BY <1>1, AroundNext DEF Hidden, TextOK

\* The scopes there are begin before the next event.
LEMMA Begun ==
  ASSUME Size \in Nat, NEW m, NEW b, NEW k \in Nat, k < Size, NEW begin,
           ScopesRight(m, b, k, begin)
  PROVE  \A s \in 1..Len(begin) : begin[s] < k + 1
<1>1. \A s \in 1..Len(begin) : begin[s] \in 0..k
  BY DEF ScopesRight
<1> QED BY <1>1

\* To show that a builder is right, name the places where its scopes begin and
\* what is open.
LEMMA WalkedIntro ==
  ASSUME NEW m, NEW b \in BuilderType, NEW k, NEW begin, NEW opens,
         ScopesRight(m, b, k, begin), StackRight(m, b, k, begin, opens),
         ContentsRight(m, b, k, begin)
  PROVE  WalkedRight(m, b, k)
BY Zenon DEF WalkedRight

\* A builder that is right stays so over one event, whichever it is.
LEMMA WalkRight ==
  ASSUME TextOK, NEW m, NEW k \in Nat, k < Size, NEW b, WalkedRight(m, b, k)
  PROVE  WalkedRight(m, Walk(m, b, text[k + 1], k + 1), k + 1)
<1> DEFINE q == k + 1
           event == text[q]
           c == Walk(m, b, event, q)
<1>0. /\ Size \in Nat /\ q \in 1..Size /\ q \in Nat /\ q + 1 = k + 2 /\ text \in Seq(Events)
      /\ event.what \in {"variable", "function", "use", "block", "end"}
  <2>1. /\ Size \in Nat /\ text \in Seq(Events) /\ q \in 1..Size /\ q \in Nat /\ q + 1 = k + 2
    BY DEF TextOK, Size
  <2> QED BY <2>1, EventTypes
<1>1. PICK begin, opens : /\ ScopesRight(m, b, k, begin)
                          /\ StackRight(m, b, k, begin, opens)
                          /\ ContentsRight(m, b, k, begin)
  BY DEF WalkedRight
<1>2. b \in BuilderType
  BY DEF WalkedRight
<1>3. /\ Hidden(m, q) => Last(b.at) = 0
      /\ ~Hidden(m, q) => /\ Last(b.at) \in 1..Len(begin) /\ Last(b.at) # 0
                          /\ begin[Last(b.at)] = Inner(q)
  BY <1>1, <1>2, LastRight
<1>4. Before(begin, q)
  BY <1>0, <1>1, Begun DEF Before
<1>5. /\ Opens(q) => (Hidden(m, q + 1) <=>
                            Hidden(m, q) \/ (Function(q) /\ ~KeepDetails(m, event.signature)))
      /\ ~Opens(q) /\ event.what # "end" => Around[q + 1] = Around[q]
      /\ event.what = "function" => ~Hidden(m, q) /\ Around[q] = {}
  BY <1>0, HiddenNext
<1>6. Extends(begin, begin)
  BY DEF Extends
<1>7. c = CASE event.what = "block" -> EnterNew(b)
            [] event.what = "end" -> [b EXCEPT !.at = Front(@)]
            [] event.what \in {"variable", "use", "function"} /\ Last(b.at) = 0 -> b
            [] event.what = "variable" /\ Last(b.at) # 0 ->
                 Declare(b, Symbol(event.name, Variable, Last(b.at), q))
            [] event.what = "function" /\ Last(b.at) # 0 ->
                 WalkFunction(m, b, event.name, event.signature, q)
            [] event.what = "use" /\ Last(b.at) # 0 ->
                 WalkUse(m, b, event.name, event.args, q)
  BY DEF Walk
<1> SUFFICES WalkedRight(m, c, q)
  OBVIOUS
<1> HIDE DEF c, event, q
<1>8. ~Declared(m, q) /\ ~Used(m, q)
        => ScopesRight(m, b, q, begin) /\ ContentsRight(m, b, q, begin)
  BY <1>0, <1>1, NothingNew DEF q
\* Nothing changes.
<1>9. ASSUME ~Declared(m, q), ~Used(m, q), ~Opens(q), event.what # "end", c = b
      PROVE  WalkedRight(m, c, q)
  <2>1. StackRight(m, c, q, begin, opens)
    BY <1>0, <1>1, <1>5, <1>6, <1>9, StackStays DEF q
  <2>2. c \in BuilderType /\ ScopesRight(m, c, q, begin) /\ ContentsRight(m, c, q, begin)
    BY <1>2, <1>8, <1>9
  <2> QED BY <2>1, <2>2, WalkedIntro
<1>10. CASE event.what = "block"
  <2>1. /\ c = EnterNew(b) /\ Opens(q) /\ ~Declared(m, q) /\ ~Used(m, q)
        /\ Hidden(m, q + 1) <=> Hidden(m, q)
    <3>1. c = EnterNew(b)
      BY <1>7, <1>10
    <3> QED BY <1>5, <1>10, <3>1 DEF Opens, Declared, Used, Function, event
  <2>2. CASE Hidden(m, q)
    <3>1. c = Enter(b, 0)
      BY <1>3, <2>1, <2>2 DEF EnterNew
    <3>2. /\ c \in BuilderType /\ c.at = Pushed(b.at, 0) /\ c.symbols = b.symbols
          /\ c.scopes = b.scopes /\ c.references = b.references /\ c.reported = b.reported
      BY <1>2, <3>1, EnterIs
    <3>3. ScopesRight(m, c, q, begin) /\ ContentsRight(m, c, q, begin)
      BY <1>8, <2>1, <3>2, SameContents
    <3>4. StackRight(m, c, q, begin, Append(opens, q))
      BY <1>0, <1>1, <1>2, <1>6, <2>1, <2>2, <3>2, StackPushed DEF q
    <3> QED BY <3>2, <3>3, <3>4, WalkedIntro
  <2>3. CASE ~Hidden(m, q)
    <3> DEFINE more == Append(begin, q)
    <3>1. /\ c \in BuilderType /\ c.at = Pushed(b.at, Len(begin) + 1)
          /\ ScopesRight(m, c, q, more) /\ ContentsRight(m, c, q, more)
          /\ Extends(more, begin) /\ Len(begin) + 1 \in Nat
          /\ Len(begin) + 1 \in 1..Len(more) /\ more[Len(begin) + 1] = q
      <4>1. /\ ScopesRight(m, b, q, begin) /\ ContentsRight(m, b, q, begin)
            /\ ~Hidden(m, q + 1) /\ Last(b.at) \in 1..Len(begin) /\ begin[Last(b.at)] = Inner(q)
            /\ c = EnterNew(b) /\ q \in 1..Size
        BY <1>0, <1>3, <1>8, <2>1, <2>3
      <4>2. /\ c \in BuilderType /\ c.at = Pushed(b.at, Len(begin) + 1)
            /\ ScopesRight(m, c, q, Append(begin, q))
            /\ ContentsRight(m, c, q, Append(begin, q))
        BY <1>2, <1>4, <4>1, EnterNewRight
      <4>3. /\ Extends(Append(begin, q), begin) /\ Len(begin) + 1 \in Nat
            /\ Len(begin) + 1 \in 1..Len(Append(begin, q))
            /\ Append(begin, q)[Len(begin) + 1] = q
        BY <1>2, <1>4, <4>1, EnterNewRight
      <4> QED BY <4>2, <4>3 DEF more
    <3> HIDE DEF more
    <3>2. StackRight(m, c, q, more, Append(opens, q))
      BY <1>0, <1>1, <1>2, <2>1, <2>3, <3>1, StackPushed DEF q
    <3> QED BY <3>1, <3>2, WalkedIntro
  <2> QED BY <2>2, <2>3
<1>11. CASE event.what = "end"
  <2>1. c = [b EXCEPT !.at = Front(@)] /\ ~Declared(m, q) /\ ~Used(m, q)
    <3>1. c = [b EXCEPT !.at = Front(@)]
      BY <1>7, <1>11
    <3> QED BY <1>11, <3>1 DEF Declared, Used, event
  <2>2. c.at = Front(b.at)
    BY <1>2, <2>1 DEF BuilderType
  <2>3. StackRight(m, c, q, begin, Front(opens)) /\ Front(b.at) \in Seq(Nat)
    BY <1>1, <1>2, <1>11, <2>2, StackPopped DEF q, event
  <2>4. /\ c \in BuilderType /\ c.symbols = b.symbols
        /\ c.scopes = b.scopes /\ c.references = b.references /\ c.reported = b.reported
    BY <1>2, <2>1, <2>3 DEF BuilderType
  <2>5. ScopesRight(m, c, q, begin) /\ ContentsRight(m, c, q, begin)
    BY <1>8, <2>1, <2>4, SameContents
  <2> QED BY <2>3, <2>4, <2>5, WalkedIntro
<1>12. CASE event.what = "variable"
  <2>1. ~Opens(q) /\ Sig(q) = Variable
    BY <1>12 DEF Opens, Sig, Function, event
  <2>2. CASE Hidden(m, q)
    <3>1. c = b
      BY <1>3, <1>7, <1>12, <2>2
    <3>2. ~Declared(m, q) /\ ~Used(m, q)
      BY <2>2 DEF Declared, Used
    <3>3. event.what # "end"
      BY <1>12
    <3> QED BY <1>9, <2>1, <3>1, <3>2, <3>3
  <2>3. CASE ~Hidden(m, q)
    <3>1. c = Declare(b, Symbol(event.name, Sig(q), Last(b.at), q))
      <4>1. c = Declare(b, Symbol(event.name, Variable, Last(b.at), q))
        BY <1>3, <1>7, <1>12, <2>3
      <4> QED BY <2>1, <4>1
    <3>2. Declared(m, q)
      BY <1>12, <2>3 DEF Declared, event
    <3>3. /\ c \in BuilderType /\ c.at = b.at
          /\ ScopesRight(m, c, q, begin) /\ ContentsRight(m, c, q, begin)
      BY <1>0, <1>1, <1>2, <1>3, <2>3, <3>1, <3>2, DeclareRight DEF q, event
    <3>4. StackRight(m, c, q, begin, opens)
      BY <1>0, <1>1, <1>5, <1>6, <1>12, <2>1, <3>3, StackStays DEF q
    <3> QED BY <3>3, <3>4, WalkedIntro
  <2> QED BY <2>2, <2>3
<1>13. CASE event.what = "use"
  <2>1. ~Opens(q) /\ ~Declared(m, q)
    BY <1>13 DEF Opens, Declared, event
  <2>2. CASE ~Used(m, q)
    <3>1. c = b
      <4>1. CASE Hidden(m, q)
        BY <1>3, <1>7, <1>13, <4>1
      <4>2. CASE ~Hidden(m, q)
        <5>1. m = "declarations"
          BY <1>13, <2>2, <4>2 DEF Used, event
        <5>2. c = WalkUse(m, b, event.name, event.args, q)
          BY <1>3, <1>7, <1>13, <4>2
        <5> QED BY <5>1, <5>2 DEF WalkUse
      <4> QED BY <4>1, <4>2
    <3>2. event.what # "end"
      BY <1>13
    <3> QED BY <1>9, <2>1, <2>2, <3>1, <3>2
  <2>3. CASE Used(m, q)
    <3>1. ~Hidden(m, q)
      BY <2>3 DEF Used
    <3>2. c = WalkUse(m, b, event.name, event.args, q)
      BY <1>3, <1>7, <1>13, <3>1
    <3>3. /\ c \in BuilderType /\ c.at = b.at
          /\ ScopesRight(m, c, q, begin) /\ ContentsRight(m, c, q, begin)
      BY <1>0, <1>1, <1>2, <1>3, <2>3, <3>1, <3>2, UseRight DEF q, event
    <3>4. StackRight(m, c, q, begin, opens)
      BY <1>0, <1>1, <1>5, <1>6, <1>13, <2>1, <3>3, StackStays DEF q
    <3> QED BY <3>3, <3>4, WalkedIntro
  <2> QED BY <2>2, <2>3
<1>14. CASE event.what = "function"
  <2> DEFINE d == Declare(b, Symbol(event.name, event.signature, Last(b.at), q))
             more == Append(begin, q)
             entered == EnterNew(d)
             kept == KeepDetails(m, event.signature)
  <2>1. ~Hidden(m, q) /\ Around[q] = {} /\ Sig(q) = event.signature /\ Declared(m, q)
          /\ ~Used(m, q)
    BY <1>5, <1>14 DEF Sig, Function, event, Declared, Used
  <2>2. c = WalkFunction(m, b, event.name, event.signature, q)
    BY <1>3, <1>7, <1>14, <2>1
  <2>3. /\ d \in BuilderType /\ d.at = b.at
        /\ ScopesRight(m, d, q, begin) /\ ContentsRight(m, d, q, begin)
    <3>1. d = Declare(b, Symbol(event.name, Sig(q), Last(b.at), q))
      BY <2>1
    <3> HIDE DEF d
    <3> QED BY <1>0, <1>1, <1>2, <1>3, <2>1, <3>1, DeclareRight DEF q, event
  <2>4. c = IF event.signature.body THEN (IF kept THEN entered ELSE Enter(d, 0))
            ELSE [(IF kept THEN entered ELSE Enter(d, 0)) EXCEPT !.at = b.at]
    BY <2>2 DEF WalkFunction
  <2>5. Opens(q) <=> event.signature.body
    BY <1>14 DEF Opens, event
  <2>6. ~Hidden(m, q + 1) <=> (kept \/ ~event.signature.body)
    <3>1. CASE Opens(q)
      BY <1>5, <1>14, <2>1, <2>5, <3>1 DEF Function, event
    <3>2. CASE ~Opens(q)
      <4>1. ~Hidden(m, q + 1)
        BY <1>5, <1>14, <2>1, <3>2 DEF Hidden
      <4> QED BY <2>5, <3>2, <4>1
    <3> QED BY <3>1, <3>2
  <2> HIDE DEF d
  <2>7. kept => /\ entered \in BuilderType /\ entered.at = Pushed(b.at, Len(begin) + 1)
                /\ ScopesRight(m, entered, q, more) /\ ContentsRight(m, entered, q, more)
                /\ Extends(more, begin) /\ Len(begin) + 1 \in Nat
                /\ Len(begin) + 1 \in 1..Len(more) /\ more[Len(begin) + 1] = q
    <3> SUFFICES ASSUME kept
                 PROVE /\ entered \in BuilderType /\ entered.at = Pushed(b.at, Len(begin) + 1)
                       /\ ScopesRight(m, entered, q, more) /\ ContentsRight(m, entered, q, more)
                       /\ Extends(more, begin) /\ Len(begin) + 1 \in Nat
                       /\ Len(begin) + 1 \in 1..Len(more) /\ more[Len(begin) + 1] = q
      OBVIOUS
    <3>1. ~Hidden(m, q + 1)
      BY <2>6
    <3>2. Last(d.at) \in 1..Len(begin) /\ begin[Last(d.at)] = Inner(q)
      BY <1>3, <2>1, <2>3
    <3>3. q \in 1..Size /\ entered = EnterNew(d)
      BY <1>0
    <3> HIDE DEF entered
    <3>4. /\ entered \in BuilderType /\ entered.at = Pushed(d.at, Len(begin) + 1)
          /\ ScopesRight(m, entered, q, more) /\ ContentsRight(m, entered, q, more)
          /\ Extends(more, begin) /\ Len(begin) + 1 \in Nat
          /\ Len(begin) + 1 \in 1..Len(more) /\ more[Len(begin) + 1] = q
      BY <1>4, <2>3, <3>1, <3>2, <3>3, EnterNewRight DEF more
    <3> QED BY <2>3, <3>4
  <2>8. /\ Enter(d, 0) \in BuilderType /\ Enter(d, 0).at = Pushed(b.at, 0)
        /\ ScopesRight(m, Enter(d, 0), q, begin) /\ ContentsRight(m, Enter(d, 0), q, begin)
    <3> DEFINE e == Enter(d, 0)
    <3>1. /\ e \in BuilderType /\ e.at = Pushed(d.at, 0) /\ e.symbols = d.symbols
          /\ e.scopes = d.scopes /\ e.references = d.references /\ e.reported = d.reported
      BY <2>3, EnterIs
    <3> HIDE DEF e
    <3>2. ScopesRight(m, e, q, begin) /\ ContentsRight(m, e, q, begin)
      BY <2>3, <3>1, SameContents
    <3> QED BY <2>3, <3>1, <3>2 DEF e
  <2> HIDE DEF entered, more, kept
  <2>9. CASE event.signature.body
    <3>1. CASE kept
      <4>1. c = entered /\ Opens(q) /\ ~Hidden(m, q + 1)
        BY <2>4, <2>5, <2>6, <2>9, <3>1
      <4>2. StackRight(m, c, q, more, Append(opens, q))
        BY <1>0, <1>1, <1>2, <2>7, <3>1, <4>1, StackPushed DEF q
      <4>3. c \in BuilderType /\ ScopesRight(m, c, q, more) /\ ContentsRight(m, c, q, more)
        BY <2>7, <3>1, <4>1
      <4> QED BY <4>2, <4>3, WalkedIntro
    <3>2. CASE ~kept
      <4>1. c = Enter(d, 0) /\ Opens(q) /\ Hidden(m, q + 1)
        BY <2>4, <2>5, <2>6, <2>9, <3>2
      <4>2. StackRight(m, c, q, begin, Append(opens, q))
        BY <1>0, <1>1, <1>2, <1>6, <2>8, <4>1, StackPushed DEF q
      <4>3. c \in BuilderType /\ ScopesRight(m, c, q, begin) /\ ContentsRight(m, c, q, begin)
        BY <2>8, <4>1
      <4> QED BY <4>2, <4>3, WalkedIntro
    <3> QED BY <3>1, <3>2
  <2>10. CASE ~event.signature.body
    <3>1. PICK e, wide : /\ e \in BuilderType /\ c = [e EXCEPT !.at = b.at]
                         /\ ScopesRight(m, e, q, wide) /\ ContentsRight(m, e, q, wide)
                         /\ Extends(wide, begin)
      <4>1. CASE kept
        <5>1. c = [entered EXCEPT !.at = b.at]
          BY <2>4, <2>10, <4>1
        <5> QED BY <2>7, <4>1, <5>1
      <4>2. CASE ~kept
        <5>1. c = [Enter(d, 0) EXCEPT !.at = b.at]
          BY <2>4, <2>10, <4>2
        <5> QED BY <1>6, <2>8, <5>1
      <4> QED BY <4>1, <4>2
    <3>2. /\ c \in BuilderType /\ c.at = b.at /\ c.symbols = e.symbols /\ c.scopes = e.scopes
          /\ c.references = e.references /\ c.reported = e.reported
      BY <1>2, <3>1 DEF BuilderType
    <3>3. ScopesRight(m, c, q, wide) /\ ContentsRight(m, c, q, wide)
      BY <3>1, <3>2, SameContents
    <3>4. StackRight(m, c, q, wide, opens)
      BY <1>0, <1>1, <1>5, <1>14, <2>5, <2>10, <3>1, <3>2, StackStays DEF q
    <3> QED BY <3>2, <3>3, <3>4, WalkedIntro
  <2> QED BY <2>9, <2>10
<1> QED BY <1>0, <1>10, <1>11, <1>12, <1>13, <1>14

\* The walk begins in the scope of the file.
LEMMA WalkBegins ==
  ASSUME TextOK, NEW m
  PROVE  WalkedRight(m, Enter(NewScope(Empty, 0), 1), 0)
<1> DEFINE b == Enter(NewScope(Empty, 0), 1)
           file == [parent |-> 0, names |-> [n \in Names |-> 0]]
<1>0. Size \in Nat /\ Around[1] = {} /\ 0 + 1 = 1
  BY AroundFirst DEF TextOK, Size
<1>1. b = [symbols |-> <<>>, scopes |-> <<file>>, references |-> <<>>, reported |-> {}, at |-> <<1>>]
  <2>1. Append(<<>>, file) = <<file>> /\ Append(<<>>, 1) = <<1>>
    OBVIOUS
  <2>2. NewScope(Empty, 0) = [symbols |-> <<>>, scopes |-> Append(<<>>, file), references |-> <<>>,
                              reported |-> {}, at |-> <<>>]
    <3>1. NewScope(Empty, 0) = [Empty EXCEPT !.scopes = Append(Empty.scopes, file)]
      BY DEF NewScope
    <3> HIDE DEF file
    <3>2. Empty.scopes = <<>>
      BY DEF Empty
    <3> DEFINE scopes == Append(<<>>, file)
    <3>3. NewScope(Empty, 0) = [Empty EXCEPT !.scopes = scopes]
      BY <3>1, <3>2
    <3> HIDE DEF scopes
    <3>4. NewScope(Empty, 0) = [symbols |-> <<>>, scopes |-> scopes, references |-> <<>>,
                                reported |-> {}, at |-> <<>>]
      BY <3>3 DEF Empty
    <3> QED BY <3>4 DEF scopes
  <2> HIDE DEF file
  <2>3. b = [symbols |-> <<>>, scopes |-> Append(<<>>, file), references |-> <<>>,
             reported |-> {}, at |-> Append(<<>>, 1)]
    <3> DEFINE c == NewScope(Empty, 0)
               at == Append(<<>>, 1)
               scopes == Append(<<>>, file)
    <3>1. b = [c EXCEPT !.at = Append(c.at, 1)]
      BY DEF Enter
    <3>2. c = [symbols |-> <<>>, scopes |-> scopes, references |-> <<>>, reported |-> {}, at |-> <<>>]
      BY <2>2
    <3> HIDE DEF b, c
    <3>3. b = [c EXCEPT !.at = at]
      BY <3>1, <3>2
    <3> HIDE DEF at, scopes
    <3>4. b = [symbols |-> <<>>, scopes |-> scopes, references |-> <<>>, reported |-> {}, at |-> at]
      BY <3>2, <3>3
    <3> QED BY <3>4 DEF at, scopes
  <2> HIDE DEF b
  <2> QED BY <2>1, <2>3
<1> HIDE DEF b
<1>2. b \in BuilderType
  <2>1. file \in ScopeType
    BY DEF ScopeType
  <2> HIDE DEF file
  <2>2. <<file>> \in Seq(ScopeType) /\ <<1>> \in Seq(Nat)
    BY <2>1
  <2> QED BY <1>1, <2>2 DEF BuilderType
<1> DEFINE outer == <<0>>
<1>3. ScopesRight(m, b, 0, outer)
  <2>1. b.scopes[1].parent = 0 /\ Len(b.scopes) = 1
    BY <1>1
  <2>2. ~Hidden(m, 0 + 1)
    BY <1>0 DEF Hidden
  <2>3. outer \in Seq(Nat) /\ Len(outer) = 1 /\ outer[1] = 0 /\ Increasing(outer)
    BY DEF Increasing
  <2> QED BY <2>1, <2>2, <2>3 DEF ScopesRight
<1>4. StackRight(m, b, 0, outer, outer)
  <2>1. b.at[1] = 1 /\ Len(b.at) = 1
    BY <1>1
  <2>2. ~Hidden(m, 0 + 1)
    BY <1>0 DEF Hidden
  <2>3. outer \in Seq(Nat) /\ Len(outer) = 1 /\ outer[1] = 0 /\ Increasing(outer)
    BY DEF Increasing
  <2>4. {outer[j] : j \in 1..1} = Around[0 + 1] \cup {0}
    BY <1>0
  <2> QED BY <2>1, <2>2, <2>3, <2>4 DEF StackRight
<1>5. \A n : Declarations(0, n, 0) = {}
  BY DEF Declarations
<1>6. ContentsRight(m, b, 0, outer)
  <2>1. b.symbols = <<>> /\ b.references = <<>> /\ b.reported = {} /\ DOMAIN b.symbols = {}
        /\ DOMAIN b.references = {} /\ Len(b.symbols) = 0
        /\ \A n \in Names : b.scopes[1].names[n] = 0
    BY <1>1
  <2>2. SymbolsRight(m, b, 0, outer) /\ ReferencesRight(m, b, 0, outer)
    BY <2>1 DEF SymbolsRight, ReferencesRight, InOrder
  <2>3. Owner({}) = 0
    BY OwnerType
  <2>7. \A s \in 1..Len(outer) : s = 1 /\ outer[s] = 0
    OBVIOUS
  <2>4. NamesRight(b, 0, outer)
    <3> SUFFICES ASSUME NEW s \in 1..Len(outer), NEW n \in Names
                 PROVE  LET id == b.scopes[s].names[n]
                        IN id \in 0..Len(b.symbols)
                          /\ Placed(b, id) = Owner(Declarations(outer[s], n, 0))
      BY DEF NamesRight
    <3>1. s = 1 /\ outer[s] = 0
      BY <2>7
    <3>2. b.scopes[s].names[n] = 0
      BY <2>1, <3>1
    <3>3. Declarations(outer[s], n, 0) = {}
      BY <1>5
    <3>4. Owner(Declarations(outer[s], n, 0)) = 0
      BY <2>3, <3>3, Zenon
    <3> QED BY <2>1, <3>2, <3>4 DEF Placed
  <2>5. Together({})
    BY DEF Together
  <2>6. ReportedRight(b, 0, outer)
    <3>1. ASSUME NEW s \in 1..Len(outer), NEW n \in Names
          PROVE  Declarations(outer[s], n, 0) = {}
      BY <1>5
    <3> QED BY <2>1, <2>5, <3>1 DEF ReportedRight
  <2> QED BY <2>2, <2>4, <2>6 DEF ContentsRight
<1>7. WalkedRight(m, b, 0)
  BY <1>2, <1>3, <1>4, <1>6, WalkedIntro
<1> QED BY <1>7 DEF b

WalkStep(m, events, f, i) ==
  IF i = 0 THEN Enter(NewScope(Empty, 0), 1) ELSE Walk(m, f[i - 1], events[i], i)

\* Walked is defined by its recursion.
LEMMA WalkedIs ==
  ASSUME NEW m, NEW events, Len(events) \in Nat
  PROVE  \A i \in 0..Len(events) : Walked(m, events)[i]
           = WalkStep(m, events, Walked(m, events), i)
<1> DEFINE N == Len(events)
           Is(g, k) == g = [i \in 0..k |-> WalkStep(m, events, g, i)]
           S == {k \in Nat : \E g : Is(g, k)}
<1>1. 0 \in S
  <2> DEFINE first == [i \in 0..0 |-> Enter(NewScope(Empty, 0), 1)]
  <2>1. Is(first, 0)
    <3>1. \A i \in 0..0 : i = 0
      OBVIOUS
    <3>2. \A i \in 0..0 : WalkStep(m, events, first, i) = Enter(NewScope(Empty, 0), 1)
      BY <3>1 DEF WalkStep
    <3> QED BY <3>2
  <2> HIDE DEF Is
  <2> QED BY <2>1
<1>2. ASSUME NEW k \in Nat, k \in S PROVE k + 1 \in S
  <2> HIDE DEF Is
  <2>1. PICK g : Is(g, k)
    BY <1>2
  <2> DEFINE last == WalkStep(m, events, g, k + 1)
             h == [i \in 0..k + 1 |-> IF i = k + 1 THEN last ELSE g[i]]
  <2>2. ASSUME NEW i \in 0..k + 1 PROVE h[i] = WalkStep(m, events, h, i)
    <3>1. i # 0 => i - 1 \in 0..k /\ h[i - 1] = g[i - 1]
      <4> HIDE DEF last
      <4>1. i # 0 => i - 1 \in 0..k + 1 /\ i - 1 # k + 1 /\ i - 1 \in 0..k
        OBVIOUS
      <4> QED BY <4>1
    <3>2. h[i] = WalkStep(m, events, g, i)
      <4>1. CASE i = k + 1
        BY <4>1
      <4>2. CASE i # k + 1
        <5>1. i \in 0..k /\ h[i] = g[i]
          BY <4>2
        <5> QED BY <2>1, <5>1 DEF Is
      <4> QED BY <4>1, <4>2
    <3> HIDE DEF h
    <3> QED BY <3>1, <3>2 DEF WalkStep
  <2>3. Is(h, k + 1)
    <3>1. h = [i \in 0..k + 1 |-> h[i]]
      OBVIOUS
    <3> HIDE DEF h
    <3> QED BY <2>2, <3>1 DEF Is
  <2> QED BY <2>3
<1>3. N \in S
  <2> HIDE DEF S
  <2> QED BY <1>1, <1>2, Induction
<1>4. Walked(m, events) = CHOOSE g : Is(g, N)
  BY DEF Walked, WalkStep
<1>5. Is(Walked(m, events), N)
  <2> HIDE DEF Is
  <2> QED BY <1>3, <1>4
<1> HIDE DEF Is
<1>6. Walked(m, events) = [i \in 0..N |-> WalkStep(m, events, Walked(m, events), i)]
  BY <1>5 DEF Is
<1> QED BY <1>6

\* After each of the events, the builder has what the text before it means.
LEMMA AllWalkedRight ==
  ASSUME TextOK, NEW m, NEW j \in 0..Size
  PROVE  WalkedRight(m, Walked(m, text)[j], j)
<1> DEFINE walked == Walked(m, text)
           S == {k \in Nat : k <= Size => WalkedRight(m, walked[k], k)}
<1>0. Size \in Nat
  BY DEF TextOK, Size
<1>1. \A i \in 0..Size : walked[i] = WalkStep(m, text, walked, i)
  BY <1>0, WalkedIs DEF Size
<1> HIDE DEF walked
<1>2. 0 \in S
  <2>1. walked[0] = Enter(NewScope(Empty, 0), 1)
    BY <1>0, <1>1 DEF WalkStep
  <2> QED BY <2>1, WalkBegins
<1>3. ASSUME NEW k \in Nat, k \in S PROVE k + 1 \in S
  <2> SUFFICES ASSUME k + 1 <= Size PROVE WalkedRight(m, walked[k + 1], k + 1)
    OBVIOUS
  <2>1. k < Size /\ k + 1 \in 0..Size /\ k + 1 # 0 /\ (k + 1) - 1 = k
          /\ WalkedRight(m, walked[k], k)
    BY <1>0, <1>3
  <2>2. walked[k + 1] = Walk(m, walked[k], text[k + 1], k + 1)
    BY <1>1, <2>1 DEF WalkStep
  <2> QED BY <2>1, <2>2, WalkRight
<1>4. j \in S
  <2> HIDE DEF S
  <2> QED BY <1>2, <1>3, Induction
<1> QED BY <1>0, <1>4 DEF walked

----------------------------------------------------------------------------
(* The table that is built.                                                *)

UsesRight(m, t, begin) ==
  /\ InOrder(t.references)
  /\ \A i \in DOMAIN t.references :
       LET use == t.references[i]
           p == use.place
       IN /\ p \in 1..Size /\ Used(m, p)
          /\ use.name = text[p].name /\ use.args = text[p].args
          /\ use.scope \in 1..Len(begin) /\ begin[use.scope] = Inner(p)
          /\ use.resolved \in 0..Len(t.symbols) /\ Placed(t, use.resolved) = Meaning(p)
  /\ \A p \in 1..Size : Used(m, p) => \E i \in DOMAIN t.references : t.references[i].place = p
BuiltRight(m, t, begin) ==
  /\ t \in BuilderType /\ t.at = <<>>
  /\ ScopesRight(m, t, Size, begin) /\ SymbolsRight(m, t, Size, begin)
  /\ NamesRight(t, Size, begin) /\ ReportedRight(t, Size, begin) /\ UsesRight(m, t, begin)

\* What is unresolved after the walk is resolved with all of the file.
LEMMA ResolvedIs ==
  ASSUME TextOK, NEW m, NEW b \in BuilderType, NEW begin,
         ScopesRight(m, b, Size, begin), ContentsRight(m, b, Size, begin),
         NEW i \in DOMAIN b.references
  PROVE  LET use == b.references[i]
             found == Resolved(b)[i]
         IN /\ found.name = use.name /\ found.args = use.args /\ found.scope = use.scope
            /\ found.place = use.place /\ found \in ReferenceType
            /\ found.resolved \in 0..Len(b.symbols)
            /\ Placed(b, found.resolved) = Meaning(use.place)
<1> DEFINE use == b.references[i]
           p == use.place
           early == Or(Called(p, p - 1), Named(p, p - 1))
           late == IF use.args = NotACall THEN b.scopes[1].names[use.name]
                   ELSE Resolve(b, use.scope, use.name, use.args)
           found == Resolved(b)[i]
<1>0. Size \in Nat /\ Size \in 0..Size
  BY DEF TextOK, Size
<1>1. /\ p \in 1..Size /\ Used(m, p) /\ use.name = text[p].name /\ use.args = text[p].args
      /\ use.scope \in 1..Len(begin) /\ begin[use.scope] = Inner(p)
      /\ use.resolved \in 0..Len(b.symbols) /\ Placed(b, use.resolved) = early
  BY DEF ReferencesRight, ContentsRight
<1>2. use \in ReferenceType
  BY BuilderIs
<1>3. found = [use EXCEPT !.resolved = Or(use.resolved, late)]
  BY DEF Resolved
<1>4. SymbolsRight(m, b, Size, begin) /\ NamesRight(b, Size, begin)
  BY DEF ContentsRight
<1>5. 1 \in 1..Len(begin) /\ begin[1] = 0
  BY DEF ScopesRight
<1>6. text[p].what = "use"
  BY <1>1 DEF Used
<1>7. text[p].name \in Names
  BY <1>1, <1>6, EventTypes DEF TextOK
<1>8. /\ late \in 0..Len(b.symbols)
      /\ Placed(b, late) = Or(Called(p, Size), IF text[p].args = NotACall
                                               THEN Owner(Declarations(0, text[p].name, Size))
                                               ELSE Named(p, Size))
  <2>1. CASE use.args = NotACall
    <3>1. late = b.scopes[1].names[text[p].name]
      BY <1>1, <2>1
    <3>2. Called(p, Size) = 0
      BY <1>1, <2>1 DEF Called
    <3> HIDE DEF late, use, p
    <3>3. late \in 0..Len(b.symbols)
            /\ Placed(b, late) = Owner(Declarations(0, text[p].name, Size))
      BY <1>4, <1>5, <1>7, <3>1 DEF NamesRight
    <3> QED BY <1>1, <2>1, <3>2, <3>3 DEF Or
  <2>2. CASE use.args # NotACall
    <3>1. late = Resolve(b, use.scope, text[p].name, text[p].args)
      BY <1>1, <2>2
    <3> HIDE DEF late, use, p
    <3>2. late \in 0..Len(b.symbols) /\ Placed(b, late) = Or(Called(p, Size), Named(p, Size))
      BY <1>0, <1>1, <1>4, <1>6, <3>1, ResolveIs
    <3> QED BY <1>1, <2>2, <3>2
  <2> QED BY <2>1, <2>2
<1>9. /\ Or(use.resolved, late) \in 0..Len(b.symbols)
      /\ Placed(b, Or(use.resolved, late)) = Or(Placed(b, use.resolved), Placed(b, late))
  <2> HIDE DEF use, late
  <2> QED BY <1>0, <1>1, <1>4, <1>8, PlacedOr
<1>10. Placed(b, Or(use.resolved, late)) = Meaning(p)
  <2> HIDE DEF use, late, p
  <2> DEFINE whole == IF text[p].args = NotACall THEN Owner(Declarations(0, text[p].name, Size))
                      ELSE Named(p, Size)
  <2>1. Meaning(p) = Or(early, Or(Called(p, Size), whole))
    BY DEF Meaning, Size
  <2>2. Placed(b, use.resolved) = early /\ Placed(b, late) = Or(Called(p, Size), whole)
    BY <1>1, <1>8
  <2> HIDE DEF early, whole
  <2> QED BY <1>9, <2>1, <2>2
<1> HIDE DEF use, late
<1>11. /\ found.name = use.name /\ found.args = use.args /\ found.scope = use.scope
       /\ found.place = use.place /\ found \in ReferenceType
       /\ found.resolved = Or(use.resolved, late)
  <2>1. Or(use.resolved, late) \in Nat
    BY <1>9, BuilderIs
  <2> QED BY <1>2, <1>3, <2>1 DEF ReferenceType
<1> QED BY <1>9, <1>10, <1>11 DEF use, p

\* The table of any mode has what the text means.
LEMMA BuiltIs ==
  ASSUME TextOK, NEW m
  PROVE  \E begin : BuiltRight(m, Built(m, text), begin)
<1> DEFINE b == Walked(m, text)[Len(text)]
           t == Built(m, text)
<1>0. Size \in Nat /\ Size \in 0..Size
  BY DEF TextOK, Size
<1>1. WalkedRight(m, b, Size)
  BY <1>0, AllWalkedRight DEF Size
<1>2. t = [b EXCEPT !.references = Resolved(b), !.at = <<>>]
  BY DEF Built
<1> HIDE DEF b, t
<1>3. b \in BuilderType
  BY <1>1 DEF WalkedRight
<1>4. PICK begin : ScopesRight(m, b, Size, begin) /\ ContentsRight(m, b, Size, begin)
  BY <1>1 DEF WalkedRight
<1>5. /\ DOMAIN Resolved(b) = 1..Len(b.references) /\ DOMAIN b.references = 1..Len(b.references)
      /\ Len(b.references) \in Nat
  BY <1>3, BuilderIs DEF Resolved
<1>6. \A i \in DOMAIN b.references :
         LET use == b.references[i]
             found == Resolved(b)[i]
         IN /\ found.name = use.name /\ found.args = use.args /\ found.scope = use.scope
            /\ found.place = use.place /\ found \in ReferenceType
            /\ found.resolved \in 0..Len(b.symbols)
            /\ Placed(b, found.resolved) = Meaning(use.place)
  BY <1>3, <1>4, ResolvedIs
<1>7. Resolved(b) \in Seq(ReferenceType)
  <2>1. Resolved(b) \in [1..Len(b.references) -> ReferenceType]
    <3>1. \A i \in 1..Len(b.references) : Resolved(b)[i] \in ReferenceType
      BY <1>5, <1>6
    <3>2. Resolved(b) = [i \in 1..Len(b.references) |-> Resolved(b)[i]]
      BY <1>5 DEF Resolved
    <3> QED BY <3>1, <3>2
  <2> QED BY <1>5, <2>1
<1>8. /\ t \in BuilderType /\ t.at = <<>> /\ t.symbols = b.symbols /\ t.scopes = b.scopes
      /\ t.reported = b.reported /\ t.references = Resolved(b)
  <2>1. <<>> \in Seq(Nat)
    OBVIOUS
  <2> QED BY <1>2, <1>3, <1>7, <2>1 DEF BuilderType
<1>9. ScopesRight(m, t, Size, begin) /\ SymbolsRight(m, t, Size, begin)
        /\ NamesRight(t, Size, begin)
  BY <1>4, <1>8, SameParts DEF ContentsRight
<1>10. ReportedRight(t, Size, begin)
  BY <1>4, <1>8 DEF ContentsRight, ReportedRight
<1>11. UsesRight(m, t, begin)
  <2>1. \A id : Placed(t, id) = Placed(b, id)
    BY <1>8 DEF Placed
  <2>2. ReferencesRight(m, b, Size, begin)
    BY <1>4 DEF ContentsRight
  <2>3. /\ DOMAIN t.references = DOMAIN b.references
        /\ \A i \in DOMAIN b.references : t.references[i].place = b.references[i].place
    BY <1>5, <1>6, <1>8
  <2>4. InOrder(t.references)
    BY <2>2, <2>3 DEF InOrder, ReferencesRight
  <2>5. ASSUME NEW i \in DOMAIN t.references
        PROVE  LET use == t.references[i]
                   p == use.place
               IN /\ p \in 1..Size /\ Used(m, p)
                  /\ use.name = text[p].name /\ use.args = text[p].args
                  /\ use.scope \in 1..Len(begin) /\ begin[use.scope] = Inner(p)
                  /\ use.resolved \in 0..Len(t.symbols) /\ Placed(t, use.resolved) = Meaning(p)
    <3> DEFINE old == b.references[i]
               use == t.references[i]
    <3>1. i \in DOMAIN b.references /\ use = Resolved(b)[i]
      BY <1>8, <2>3
    <3>2. /\ old.place \in 1..Size /\ Used(m, old.place)
          /\ old.name = text[old.place].name /\ old.args = text[old.place].args
          /\ old.scope \in 1..Len(begin) /\ begin[old.scope] = Inner(old.place)
      BY <2>2, <3>1 DEF ReferencesRight
    <3>3. /\ use.name = old.name /\ use.args = old.args /\ use.scope = old.scope
          /\ use.place = old.place /\ use.resolved \in 0..Len(b.symbols)
          /\ Placed(b, use.resolved) = Meaning(old.place)
      BY <1>6, <3>1
    <3> HIDE DEF old, use
    <3>4. /\ use.place \in 1..Size /\ Used(m, use.place)
          /\ use.name = text[use.place].name /\ use.args = text[use.place].args
          /\ use.scope \in 1..Len(begin) /\ begin[use.scope] = Inner(use.place)
          /\ use.resolved \in 0..Len(t.symbols) /\ Placed(t, use.resolved) = Meaning(use.place)
      BY <1>8, <2>1, <3>2, <3>3
    <3> QED BY <3>4 DEF use
  <2>6. ASSUME NEW p \in 1..Size, Used(m, p)
        PROVE \E i \in DOMAIN t.references : t.references[i].place = p
    BY <2>2, <2>3, <2>6 DEF ReferencesRight
  <2> QED BY <2>4, <2>5, <2>6, Zenon DEF UsesRight
<1>12. BuiltRight(m, t, begin)
  BY <1>8, <1>9, <1>10, <1>11 DEF BuiltRight
<1> QED BY <1>12 DEF t

----------------------------------------------------------------------------
(* Two texts that differ in the name of one use.                           *)

IsSequence(f) == f \in Seq({f[i] : i \in DOMAIN f})

\* A sequence of anything, and one more.
LEMMA SequenceGrows ==
  ASSUME NEW f, IsSequence(f), NEW e
  PROVE  /\ IsSequence(Append(f, e)) /\ Len(f) \in Nat /\ DOMAIN f = 1..Len(f)
         /\ DOMAIN Append(f, e) = 1..Len(f) + 1 /\ Append(f, e)[Len(f) + 1] = e
         /\ \A i \in 1..Len(f) : Append(f, e)[i] = f[i]
         /\ \A i : i \in 1..Len(f) + 1 <=> i \in 1..Len(f) \/ i = Len(f) + 1
<1> DEFINE T == {f[i] : i \in DOMAIN f} \cup {e}
           g == Append(f, e)
           U == {g[i] : i \in DOMAIN g}
<1>1. f \in Seq({f[i] : i \in DOMAIN f})
  BY DEF IsSequence
<1>2. Len(f) \in Nat /\ DOMAIN f = 1..Len(f) /\ f \in Seq(T)
  BY <1>1
<1> HIDE DEF T
<1>3. e \in T
  BY DEF T
<1>4. /\ g \in Seq(T) /\ Len(g) = Len(f) + 1
      /\ DOMAIN g = 1..Len(f) + 1 /\ g[Len(f) + 1] = e
      /\ \A i \in 1..Len(f) : g[i] = f[i]
      /\ \A i : i \in 1..Len(f) + 1 <=> i \in 1..Len(f) \/ i = Len(f) + 1
  BY <1>2, <1>3, AppendIs
<1> HIDE DEF g
<1>5. g \in Seq(U)
  BY <1>4
<1> QED BY <1>2, <1>4, <1>5 DEF g, IsSequence

\* The table with other uses.
With(b, uses) ==
  [symbols |-> b.symbols, scopes |-> b.scopes, references |-> uses, reported |-> b.reported,
   at |-> b.at]
Whole(b) == b = With(b, b.references)

ChainOf(scopes, s) ==
  LET outwards[i \in DOMAIN scopes] ==
        {i} \cup (IF scopes[i].parent = 0 THEN {} ELSE outwards[scopes[i].parent])
  IN outwards[s]

\* What a name or a call is resolved to does not depend on other uses.
LEMMA ResolveAlike ==
  ASSUME NEW b, NEW c, b.symbols = c.symbols, b.scopes = c.scopes, NEW s, NEW n, NEW args
  PROVE  Lookup(b, s, n) = Lookup(c, s, n) /\ Resolve(b, s, n, args) = Resolve(c, s, n, args)
<1>1. Chain(b, s) = ChainOf(b.scopes, s) /\ Chain(c, s) = ChainOf(c.scopes, s)
  BY Zenon DEF Chain, ChainOf
<1>2. Chain(b, s) = Chain(c, s)
  BY <1>1
<1>3. Lookup(b, s, n) = Lookup(c, s, n)
  <2> DEFINE owning(t) == {u \in Chain(t, s) : t.scopes[u].names[n] # 0}
  <2>1. owning(b) = owning(c)
    BY <1>2
  <2>2. /\ Lookup(b, s, n) = IF owning(b) = {} THEN 0 ELSE b.scopes[Max(owning(b))].names[n]
        /\ Lookup(c, s, n) = IF owning(c) = {} THEN 0 ELSE c.scopes[Max(owning(c))].names[n]
    BY DEF Lookup
  <2> HIDE DEF owning
  <2> QED BY <2>1, <2>2
<1>4. \A u : Callables(b, u, n) = Callables(c, u, n)
  BY DEF Callables
<1>5. LookupCallable(b, s, n, args) = LookupCallable(c, s, n, args)
  <2> DEFINE having(t) == {u \in Chain(t, s) : Callables(t, u, n) # {}}
             all(t) == Callables(t, Max(having(t)), n)
             fitting(t) == {id \in all(t) : Accepts(t.symbols[id].signature, args)}
  <2>1. having(b) = having(c)
    BY <1>2, <1>4
  <2>2. all(b) = all(c)
    <3> HIDE DEF having
    <3> QED BY <1>4, <2>1
  <2>3. fitting(b) = fitting(c)
    <3> HIDE DEF all
    <3> QED BY <2>2
  <2>4. /\ LookupCallable(b, s, n, args)
             = IF having(b) = {} THEN 0 ELSE Min(IF fitting(b) = {} THEN all(b) ELSE fitting(b))
        /\ LookupCallable(c, s, n, args)
             = IF having(c) = {} THEN 0 ELSE Min(IF fitting(c) = {} THEN all(c) ELSE fitting(c))
    BY DEF LookupCallable
  <2> HIDE DEF having, all, fitting
  <2> QED BY <2>1, <2>2, <2>3, <2>4
<1> QED BY <1>3, <1>5 DEF Resolve

\* The other uses are all that is changed.
LEMMA WithIs ==
  ASSUME NEW b, NEW uses
  PROVE  /\ With(b, uses).symbols = b.symbols /\ With(b, uses).scopes = b.scopes
         /\ With(b, uses).references = uses /\ With(b, uses).reported = b.reported
         /\ With(b, uses).at = b.at /\ Whole(With(b, uses))
BY DEF With, Whole

\* No step of the walk but that for a use looks at the uses or changes them.
LEMMA EnterAlike ==
  ASSUME NEW b, Whole(b), NEW uses, NEW v
  PROVE  /\ Enter(With(b, uses), v) = With(Enter(b, v), uses)
         /\ Whole(Enter(b, v)) /\ Enter(b, v).references = b.references
<1> DEFINE at == Append(b.at, v)
<1>1. /\ Enter(b, v) = [b EXCEPT !.at = at]
      /\ Enter(With(b, uses), v) = [With(b, uses) EXCEPT !.at = at]
  BY WithIs DEF Enter
<1> HIDE DEF at
<1>2. Enter(b, v) = [symbols |-> b.symbols, scopes |-> b.scopes, references |-> b.references,
                     reported |-> b.reported, at |-> at]
  BY <1>1 DEF Whole, With
<1> QED BY <1>1, <1>2 DEF With, Whole

\* Leaving a scope.
LEMMA LeaveAlike ==
  ASSUME NEW b, Whole(b), NEW uses, NEW at
  PROVE  /\ [With(b, uses) EXCEPT !.at = at] = With([b EXCEPT !.at = at], uses)
         /\ Whole([b EXCEPT !.at = at]) /\ [b EXCEPT !.at = at].references = b.references
BY DEF With, Whole

\* Entering a new scope.
LEMMA EnterNewAlike ==
  ASSUME NEW b, Whole(b), NEW uses
  PROVE  /\ EnterNew(With(b, uses)) = With(EnterNew(b), uses)
         /\ Whole(EnterNew(b)) /\ EnterNew(b).references = b.references
<1> DEFINE parent == Last(b.at)
           scopes == Append(b.scopes, [parent |-> parent, names |-> [n \in Names |-> 0]])
           c == NewScope(b, parent)
           d == NewScope(With(b, uses), parent)
<1>1. c = [b EXCEPT !.scopes = scopes] /\ d = [With(b, uses) EXCEPT !.scopes = scopes]
  BY WithIs DEF NewScope
<1>2. /\ EnterNew(b) = IF parent = 0 THEN Enter(b, 0) ELSE Enter(c, Len(b.scopes) + 1)
      /\ EnterNew(With(b, uses)) = IF parent = 0 THEN Enter(With(b, uses), 0)
                                   ELSE Enter(d, Len(b.scopes) + 1)
  BY WithIs DEF EnterNew
<1> HIDE DEF scopes, c, d, parent
<1>3. d = With(c, uses) /\ Whole(c) /\ c.references = b.references
  BY <1>1 DEF With, Whole
<1>4. /\ Enter(d, Len(b.scopes) + 1) = With(Enter(c, Len(b.scopes) + 1), uses)
      /\ Whole(Enter(c, Len(b.scopes) + 1))
      /\ Enter(c, Len(b.scopes) + 1).references = b.references
  BY <1>3, EnterAlike
<1>5. /\ Enter(With(b, uses), 0) = With(Enter(b, 0), uses)
      /\ Whole(Enter(b, 0)) /\ Enter(b, 0).references = b.references
  BY EnterAlike
<1> QED BY <1>2, <1>4, <1>5

\* Declaring a symbol.
LEMMA DeclareAlike ==
  ASSUME NEW b, Whole(b), NEW uses, NEW symbol
  PROVE  /\ Declare(With(b, uses), symbol) = With(Declare(b, symbol), uses)
         /\ Whole(Declare(b, symbol)) /\ Declare(b, symbol).references = b.references
         /\ Declare(b, symbol).at = b.at
<1> DEFINE id == Len(b.symbols) + 1
           old == b.scopes[symbol.scope].names[symbol.name]
           former == b.symbols[old].signature
           test == IsTestEntryPoint(symbol.signature)
           pair == ForwardPair(former, symbol.signature)
           owns == ~test /\ (old # 0 => pair /\ former.kind = "forward")
           clashes == ~test /\ old # 0 /\ ~pair /\ ~(former.state /\ symbol.signature.state)
           symbols == Append(b.symbols, symbol)
           scopes == [b.scopes EXCEPT ![symbol.scope].names[symbol.name] =
                        IF owns THEN id ELSE b.scopes[symbol.scope].names[symbol.name]]
           reported == b.reported \cup (IF clashes THEN {id} ELSE {})
           c == Declare(b, symbol)
           d == Declare(With(b, uses), symbol)
<1>1. c = [b EXCEPT !.symbols = symbols, !.scopes = scopes, !.reported = reported]
  BY DEF Declare, Declaring, Whole, With
<1>2. d = [With(b, uses) EXCEPT !.symbols = symbols, !.scopes = scopes, !.reported = reported]
  BY DEF Declare, Declaring, With
<1> HIDE DEF symbols, scopes, reported, c, d
<1>3. c = [symbols |-> symbols, scopes |-> scopes, references |-> b.references,
           reported |-> reported, at |-> b.at]
  BY <1>1 DEF Whole, With
<1>4. d = With(c, uses) /\ Whole(c) /\ c.references = b.references /\ c.at = b.at
  BY <1>2, <1>3 DEF With, Whole
<1> QED BY <1>4 DEF c, d

\* Walking into a function.
LEMMA WalkFunctionAlike ==
  ASSUME NEW m, NEW b, Whole(b), NEW uses, NEW name, NEW signature, NEW place
  PROVE  /\ WalkFunction(m, With(b, uses), name, signature, place)
              = With(WalkFunction(m, b, name, signature, place), uses)
         /\ Whole(WalkFunction(m, b, name, signature, place))
         /\ WalkFunction(m, b, name, signature, place).references = b.references
<1> DEFINE symbol == Symbol(name, signature, Last(b.at), place)
           d == Declare(b, symbol)
           e == IF KeepDetails(m, signature) THEN EnterNew(d) ELSE Enter(d, 0)
           dw == With(d, uses)
           ew == IF KeepDetails(m, signature) THEN EnterNew(dw) ELSE Enter(dw, 0)
<1>1. Declare(With(b, uses), symbol) = dw /\ Whole(d) /\ d.references = b.references
  BY DeclareAlike
<1>2. With(b, uses).at = b.at
  BY WithIs
<1>3. WalkFunction(m, b, name, signature, place)
        = IF signature.body THEN e ELSE [e EXCEPT !.at = b.at]
  BY DEF WalkFunction
<1>4. WalkFunction(m, With(b, uses), name, signature, place)
        = IF signature.body THEN ew ELSE [ew EXCEPT !.at = b.at]
  BY <1>1, <1>2 DEF WalkFunction
<1> HIDE DEF d
<1>5. ew = With(e, uses) /\ Whole(e) /\ e.references = b.references
  <2>1. CASE KeepDetails(m, signature)
    BY <1>1, <2>1, EnterNewAlike
  <2>2. CASE ~KeepDetails(m, signature)
    BY <1>1, <2>2, EnterAlike
  <2> QED BY <2>1, <2>2
<1> HIDE DEF e, ew
<1>6. /\ [With(e, uses) EXCEPT !.at = b.at] = With([e EXCEPT !.at = b.at], uses)
      /\ Whole([e EXCEPT !.at = b.at]) /\ [e EXCEPT !.at = b.at].references = e.references
  BY <1>5, LeaveAlike
<1> QED BY <1>3, <1>4, <1>5, <1>6

\* An event that is no use.
LEMMA WalkAlike ==
  ASSUME NEW m, NEW b, Whole(b), NEW uses, NEW event, NEW place,
         event.what \in {"variable", "function", "block", "end"}
  PROVE  /\ Walk(m, With(b, uses), event, place) = With(Walk(m, b, event, place), uses)
         /\ Whole(Walk(m, b, event, place))
         /\ Walk(m, b, event, place).references = b.references
<1> DEFINE last == Last(b.at)
           walked(c) == Walk(m, c, event, place)
           bw == With(b, uses)
<1>0. bw.at = b.at
  BY WithIs
<1>1. ASSUME NEW c, c.at = b.at
      PROVE  /\ event.what = "block" => walked(c) = EnterNew(c)
             /\ event.what = "end" => walked(c) = [c EXCEPT !.at = Front(b.at)]
             /\ event.what \in {"variable", "function"} /\ last = 0 => walked(c) = c
             /\ event.what = "variable" /\ last # 0 =>
                  walked(c) = Declare(c, Symbol(event.name, Variable, last, place))
             /\ event.what = "function" /\ last # 0 =>
                  walked(c) = WalkFunction(m, c, event.name, event.signature, place)
  BY <1>1 DEF Walk
<1> HIDE DEF walked, bw
<1>2. CASE event.what = "block"
  <2>1. walked(b) = EnterNew(b) /\ walked(bw) = EnterNew(bw)
    BY <1>0, <1>1, <1>2
  <2>2. /\ EnterNew(bw) = With(EnterNew(b), uses)
        /\ Whole(EnterNew(b)) /\ EnterNew(b).references = b.references
    BY EnterNewAlike DEF bw
  <2> QED BY <2>1, <2>2 DEF walked, bw
<1>3. CASE event.what = "end"
  <2>1. walked(b) = [b EXCEPT !.at = Front(b.at)] /\ walked(bw) = [bw EXCEPT !.at = Front(b.at)]
    BY <1>0, <1>1, <1>3
  <2> DEFINE at == Front(b.at)
  <2> HIDE DEF at
  <2>2. /\ [bw EXCEPT !.at = at] = With([b EXCEPT !.at = at], uses)
        /\ Whole([b EXCEPT !.at = at]) /\ [b EXCEPT !.at = at].references = b.references
    BY LeaveAlike DEF bw
  <2>3. /\ walked(bw) = With(walked(b), uses) /\ Whole(walked(b))
        /\ walked(b).references = b.references
    BY <2>1, <2>2 DEF at
  <2> QED BY <2>3 DEF walked, bw
<1>4. CASE event.what \in {"variable", "function"} /\ last = 0
  <2>1. walked(b) = b /\ walked(bw) = bw
    BY <1>0, <1>1, <1>4
  <2>2. /\ walked(bw) = With(walked(b), uses) /\ Whole(walked(b))
        /\ walked(b).references = b.references
    BY <2>1 DEF bw
  <2> QED BY <2>2 DEF walked, bw
<1>5. CASE event.what = "variable" /\ last # 0
  <2> DEFINE symbol == Symbol(event.name, Variable, last, place)
  <2>1. walked(b) = Declare(b, symbol) /\ walked(bw) = Declare(bw, symbol)
    BY <1>0, <1>1, <1>5
  <2> HIDE DEF symbol
  <2>2. /\ Declare(bw, symbol) = With(Declare(b, symbol), uses)
        /\ Whole(Declare(b, symbol)) /\ Declare(b, symbol).references = b.references
    BY DeclareAlike DEF bw
  <2>3. /\ walked(bw) = With(walked(b), uses) /\ Whole(walked(b))
        /\ walked(b).references = b.references
    BY <2>1, <2>2
  <2> QED BY <2>3 DEF walked, bw
<1>6. CASE event.what = "function" /\ last # 0
  <2>1. /\ walked(b) = WalkFunction(m, b, event.name, event.signature, place)
        /\ walked(bw) = WalkFunction(m, bw, event.name, event.signature, place)
    BY <1>0, <1>1, <1>6
  <2>2. /\ WalkFunction(m, bw, event.name, event.signature, place)
             = With(WalkFunction(m, b, event.name, event.signature, place), uses)
        /\ Whole(WalkFunction(m, b, event.name, event.signature, place))
        /\ WalkFunction(m, b, event.name, event.signature, place).references = b.references
    BY WalkFunctionAlike DEF bw
  <2>3. /\ walked(bw) = With(walked(b), uses) /\ Whole(walked(b))
        /\ walked(b).references = b.references
    BY <2>1, <2>2
  <2> QED BY <2>3 DEF walked, bw
<1> QED BY <1>2, <1>3, <1>4, <1>5, <1>6

Entry(use) == use = [name |-> use.name, args |-> use.args, scope |-> use.scope,
                     place |-> use.place, resolved |-> use.resolved]

\* The uses are the same but for one, at p, whose name now is n.
OneRenamed(f, g, p, n) ==
  /\ IsSequence(f) /\ IsSequence(g) /\ Len(f) = Len(g)
  /\ \A i \in 1..Len(f) :
       /\ Entry(f[i])
       /\ f[i].place # p => g[i] = f[i]
       /\ f[i].place = p => /\ g[i].place = p /\ g[i].name = n /\ g[i].args = f[i].args
                            /\ g[i].scope = f[i].scope /\ Entry(g[i])

\* One use more in both.
LEMMA RenamedNext ==
  ASSUME NEW f, NEW g, NEW p, NEW n, OneRenamed(f, g, p, n), NEW x, NEW y,
         Entry(x), x.place # p => y = x,
         x.place = p => /\ y.place = p /\ y.name = n /\ y.args = x.args
                        /\ y.scope = x.scope /\ Entry(y)
  PROVE  OneRenamed(Append(f, x), Append(g, y), p, n)
<1> DEFINE F == Append(f, x)
           G == Append(g, y)
           L == Len(f)
<1>1. IsSequence(f) /\ IsSequence(g) /\ Len(g) = L
  BY DEF OneRenamed
<1>2. /\ IsSequence(F) /\ L \in Nat /\ DOMAIN F = 1..L + 1 /\ F[L + 1] = x
      /\ \A i \in 1..L : F[i] = f[i]
      /\ \A i : i \in 1..L + 1 <=> i \in 1..L \/ i = L + 1
  BY <1>1, SequenceGrows
<1>3. /\ IsSequence(G) /\ DOMAIN G = 1..L + 1 /\ G[L + 1] = y
      /\ \A i \in 1..L : G[i] = g[i]
  BY <1>1, SequenceGrows
<1>4. Len(F) = L + 1 /\ Len(G) = L + 1
  <2>1. \A h : IsSequence(h) => DOMAIN h = 1..Len(h) /\ Len(h) \in Nat
    BY DEF IsSequence
  <2> HIDE DEF F, G, L
  <2>2. \A a, b \in Nat : 1..a = 1..b => a = b
    <3>1. ASSUME NEW a \in Nat, NEW b \in Nat, 1..a = 1..b PROVE a = b
      <4>1. (a \in 1..a <=> a >= 1) /\ (b \in 1..b <=> b >= 1)
        OBVIOUS
      <4>2. (a \in 1..b <=> 1 <= a /\ a <= b) /\ (b \in 1..a <=> 1 <= b /\ b <= a)
        OBVIOUS
      <4>3. (a \in 1..a <=> a \in 1..b) /\ (b \in 1..b <=> b \in 1..a)
        BY <3>1
      <4> QED BY <4>1, <4>2, <4>3
    <3> QED BY <3>1
  <2>3. L + 1 \in Nat
    BY <1>2
  <2> QED BY <1>2, <1>3, <2>1, <2>2, <2>3
<1> HIDE DEF F, G
<1>5. ASSUME NEW i \in 1..L + 1
      PROVE  /\ Entry(F[i])
             /\ F[i].place # p => G[i] = F[i]
             /\ F[i].place = p => /\ G[i].place = p /\ G[i].name = n /\ G[i].args = F[i].args
                                  /\ G[i].scope = F[i].scope /\ Entry(G[i])
  <2>1. CASE i \in 1..L
    <3>1. F[i] = f[i] /\ G[i] = g[i]
      BY <1>2, <1>3, <2>1
    <3>2. /\ Entry(f[i])
          /\ f[i].place # p => g[i] = f[i]
          /\ f[i].place = p => /\ g[i].place = p /\ g[i].name = n /\ g[i].args = f[i].args
                               /\ g[i].scope = f[i].scope /\ Entry(g[i])
      BY <2>1 DEF OneRenamed
    <3> QED BY <3>1, <3>2
  <2>2. CASE i = L + 1
    BY <1>2, <1>3, <2>2
  <2> QED BY <1>2, <2>1, <2>2
<1>6. OneRenamed(F, G, p, n)
  BY <1>2, <1>3, <1>4, <1>5 DEF OneRenamed
<1> QED BY <1>6 DEF F, G

RenamedAt(e, f, p, n) ==
  /\ Len(e) \in Nat /\ Len(f) = Len(e) /\ p \in 1..Len(e)
  /\ \A k \in 1..Len(e) : e[k].what \in {"variable", "function", "use", "block", "end"}
  /\ \A k \in 1..Len(e) : k # p => f[k] = e[k]
  /\ e[p].what = "use" /\ f[p].what = "use" /\ f[p].args = e[p].args /\ f[p].name = n

\* The builders differ in that use only.
UsesAlike(b, c, p, n) ==
  \E uses : c = With(b, uses) /\ Whole(b) /\ OneRenamed(b.references, uses, p, n)
\* The builders that walk the two texts differ in that use only.
WalkedAlike(m, e, f, p, n, k) == UsesAlike(Walked(m, e)[k], Walked(m, f)[k], p, n)

\* A use resolved by the two builders is the same, but for the renamed one.
LEMMA UseAlike ==
  ASSUME NEW m, NEW b, Whole(b), NEW uses, NEW p, NEW n, OneRenamed(b.references, uses, p, n),
         NEW q, NEW event, event.what = "use", NEW other, other.what = "use",
         q # p => other = event,
         q = p => other.args = event.args /\ other.name = n
  PROVE  UsesAlike(Walk(m, b, event, q), Walk(m, With(b, uses), other, q), p, n)
<1> DEFINE s == Last(b.at)
           bw == With(b, uses)
           c == Walk(m, b, event, q)
           cw == Walk(m, bw, other, q)
           entry(t, u) == [name |-> u.name, args |-> u.args, scope |-> s, place |-> q,
                           resolved |-> Resolve(t, s, u.name, u.args)]
           x == entry(b, event)
           y == entry(bw, other)
<1>1. bw.at = b.at /\ bw.symbols = b.symbols /\ bw.scopes = b.scopes /\ bw.references = uses
  BY WithIs
<1>2. /\ s = 0 \/ m = "declarations" => c = b
      /\ ~(s = 0 \/ m = "declarations") => c = [b EXCEPT !.references = Append(b.references, x)]
  BY DEF Walk, WalkUse
<1>3. /\ s = 0 \/ m = "declarations" => cw = bw
      /\ ~(s = 0 \/ m = "declarations") => cw = [bw EXCEPT !.references = Append(uses, y)]
  <2> HIDE DEF bw
  <2> QED BY <1>1 DEF Walk, WalkUse
<1>4. CASE s = 0 \/ m = "declarations"
  BY <1>2, <1>3, <1>4 DEF UsesAlike
<1>5. CASE ~(s = 0 \/ m = "declarations")
  <2>1. Entry(x) /\ Entry(y) /\ x.place = q /\ y.place = q /\ y.name = other.name
        /\ y.args = other.args /\ x.args = event.args /\ x.scope = s /\ y.scope = s
    BY DEF Entry
  <2>2. q # p => y = x
    <3> SUFFICES ASSUME q # p PROVE y = x
      OBVIOUS
    <3>1. other = event
      OBVIOUS
    <3> HIDE DEF bw
    <3>2. Resolve(b, s, event.name, event.args) = Resolve(bw, s, event.name, event.args)
      BY <1>1, ResolveAlike
    <3> QED BY <3>1, <3>2
  <2> HIDE DEF x, y
  <2>3. OneRenamed(Append(b.references, x), Append(uses, y), p, n)
    BY <2>1, <2>2, RenamedNext
  <2> DEFINE old == Append(b.references, x)
             more == Append(uses, y)
  <2>4. c = [b EXCEPT !.references = old] /\ cw = [bw EXCEPT !.references = more]
    BY <1>2, <1>3, <1>5
  <2>5. OneRenamed(old, more, p, n)
    BY <2>3
  <2> HIDE DEF old, more, c, cw
  <2>6. cw = With(c, more) /\ Whole(c) /\ c.references = old
    BY <2>4 DEF With, Whole
  <2> QED BY <2>5, <2>6 DEF c, cw, UsesAlike
<1> QED BY <1>4, <1>5

\* After each event, the two walks differ in that use only.
LEMMA AllWalkedAlike ==
  ASSUME NEW m, NEW e, NEW f, NEW p, NEW n, RenamedAt(e, f, p, n), NEW j \in 0..Len(e)
  PROVE  WalkedAlike(m, e, f, p, n, j)
<1> DEFINE N == Len(e)
           b(k) == Walked(m, e)[k]
           c(k) == Walked(m, f)[k]
           S == {k \in Nat : k <= N => WalkedAlike(m, e, f, p, n, k)}
<1>0. N \in Nat /\ Len(f) = N
  BY DEF RenamedAt
<1>1. \A i \in 0..N : b(i) = WalkStep(m, e, Walked(m, e), i)
        /\ c(i) = WalkStep(m, f, Walked(m, f), i)
  BY <1>0, WalkedIs
<1>2. 0 \in S
  <2> DEFINE d == NewScope(Empty, 0)
             first == Enter(d, 1)
  <2>1. b(0) = first /\ c(0) = first
    BY <1>0, <1>1 DEF WalkStep
  <2>2. d = [Empty EXCEPT !.scopes = Append(Empty.scopes, [parent |-> 0, names |-> [x \in Names |-> 0]])]
    BY DEF NewScope
  <2>3. Whole(d) /\ d.references = <<>>
    <3> DEFINE scopes == Append(Empty.scopes, [parent |-> 0, names |-> [x \in Names |-> 0]])
    <3>1. d = [Empty EXCEPT !.scopes = scopes]
      BY <2>2
    <3> HIDE DEF scopes, d
    <3> QED BY <3>1 DEF Empty, Whole, With
  <2> HIDE DEF d
  <2>4. Whole(first) /\ first.references = <<>>
    BY <2>3, EnterAlike
  <2>5. OneRenamed(<<>>, <<>>, p, n)
    BY DEF OneRenamed, IsSequence
  <2> HIDE DEF first
  <2>6. WalkedAlike(m, e, f, p, n, 0)
    BY <2>1, <2>4, <2>5 DEF WalkedAlike, UsesAlike, Whole
  <2> QED BY <2>6
<1>3. ASSUME NEW k \in Nat, k \in S PROVE k + 1 \in S
  <2> DEFINE q == k + 1
  <2> SUFFICES ASSUME q <= N PROVE WalkedAlike(m, e, f, p, n, q)
    OBVIOUS
  <2>1. k <= N /\ k \in 0..N /\ q \in 0..N /\ q \in 1..N /\ q # 0 /\ q - 1 = k
    BY <1>0
  <2>2. WalkedAlike(m, e, f, p, n, k)
    BY <1>3, <2>1
  <2>3. PICK uses : /\ c(k) = With(b(k), uses) /\ Whole(b(k))
                    /\ OneRenamed(b(k).references, uses, p, n)
    BY <2>2 DEF WalkedAlike, UsesAlike
  <2>4. b(q) = Walk(m, b(k), e[q], q) /\ c(q) = Walk(m, c(k), f[q], q)
    BY <1>1, <2>1 DEF WalkStep
  <2>5. UsesAlike(b(q), c(q), p, n)
    <3> HIDE DEF b, c, q
    <3>1. /\ e[q].what \in {"variable", "function", "use", "block", "end"}
          /\ q # p => f[q] = e[q]
          /\ q = p => /\ e[q].what = "use" /\ f[q].what = "use" /\ f[q].args = e[q].args
                      /\ f[q].name = n
      BY <2>1 DEF RenamedAt
    <3>2. CASE e[q].what = "use"
      <4>1. f[q].what = "use"
        BY <3>1, <3>2
      <4>2. UsesAlike(Walk(m, b(k), e[q], q), Walk(m, With(b(k), uses), f[q], q), p, n)
        <5>1. /\ Whole(b(k)) /\ OneRenamed(b(k).references, uses, p, n)
              /\ e[q].what = "use" /\ f[q].what = "use" /\ (q # p => f[q] = e[q])
              /\ (q = p => f[q].args = e[q].args /\ f[q].name = n)
          BY <2>3, <3>1, <3>2, <4>1
        <5> QED BY <5>1, UseAlike
      <4> QED BY <2>3, <2>4, <4>2
    <3>3. CASE e[q].what # "use"
      <4>1. f[q] = e[q] /\ e[q].what \in {"variable", "function", "block", "end"}
        BY <3>1, <3>3
      <4>2. /\ Walk(m, With(b(k), uses), e[q], q) = With(Walk(m, b(k), e[q], q), uses)
            /\ Whole(Walk(m, b(k), e[q], q))
            /\ Walk(m, b(k), e[q], q).references = b(k).references
        BY <2>3, <4>1, WalkAlike
      <4> QED BY <2>3, <2>4, <4>1, <4>2 DEF UsesAlike
    <3> QED BY <3>2, <3>3
  <2> QED BY <2>5 DEF WalkedAlike
<1>4. j \in S
  <2> HIDE DEF S
  <2> QED BY <1>0, <1>2, <1>3, Induction
<1> QED BY <1>0, <1>4

\* And so do the tables that are built.
LEMMA BuiltAlike ==
  ASSUME NEW m, NEW e, NEW f, NEW p, NEW n, RenamedAt(e, f, p, n)
  PROVE  UsesAlike(Built(m, e), Built(m, f), p, n)
<1> DEFINE b == Walked(m, e)[Len(e)]
           c == Walked(m, f)[Len(f)]
           F == Resolved(b)
           G == Resolved(c)
           s == Built(m, e)
           t == Built(m, f)
<1>1. Len(e) \in 0..Len(e) /\ Len(f) = Len(e)
  BY DEF RenamedAt
<1>2. PICK uses : c = With(b, uses) /\ Whole(b) /\ OneRenamed(b.references, uses, p, n)
  <2>1. WalkedAlike(m, e, f, p, n, Len(e))
    BY <1>1, AllWalkedAlike
  <2> QED BY <1>1, <2>1 DEF WalkedAlike, UsesAlike
<1>3. s = [b EXCEPT !.references = F, !.at = <<>>]
        /\ t = [c EXCEPT !.references = G, !.at = <<>>]
  BY DEF Built
<1> HIDE DEF b, c, s, t
<1> DEFINE old == b.references
           L == Len(old)
<1>4. /\ IsSequence(old) /\ IsSequence(uses) /\ Len(uses) = L
      /\ \A i \in 1..L : /\ Entry(old[i])
                         /\ old[i].place # p => uses[i] = old[i]
                         /\ old[i].place = p => /\ uses[i].place = p /\ uses[i].name = n
                                                /\ uses[i].args = old[i].args
                                                /\ uses[i].scope = old[i].scope
                                                /\ Entry(uses[i])
  BY <1>2 DEF OneRenamed
<1>5. c.symbols = b.symbols /\ c.scopes = b.scopes /\ c.references = uses
  BY <1>2, WithIs
<1>6. /\ L \in Nat /\ DOMAIN old = 1..L /\ DOMAIN uses = 1..L
  BY <1>4 DEF IsSequence
<1> DEFINE late(u, r) == IF r.args = NotACall THEN u.scopes[1].names[r.name]
                         ELSE Resolve(u, r.scope, r.name, r.args)
           found(u, r) == [r EXCEPT !.resolved = Or(r.resolved, late(u, r))]
<1>7. /\ F = [i \in 1..L |-> found(b, old[i])]
      /\ G = [i \in 1..L |-> found(c, uses[i])]
  BY <1>5, <1>6 DEF Resolved
<1>8. \A r : found(b, r) = found(c, r)
  <2>1. \A r : Resolve(b, r.scope, r.name, r.args) = Resolve(c, r.scope, r.name, r.args)
    BY <1>5, ResolveAlike
  <2>2. \A r : late(b, r) = late(c, r)
    BY <1>5, <2>1
  <2> HIDE DEF late
  <2> QED BY <2>2
<1>9. ASSUME NEW u, NEW r, Entry(r)
      PROVE  /\ Entry(found(u, r)) /\ found(u, r).place = r.place /\ found(u, r).name = r.name
             /\ found(u, r).args = r.args /\ found(u, r).scope = r.scope
  <2> DEFINE id == Or(r.resolved, late(u, r))
  <2>1. found(u, r) = [r EXCEPT !.resolved = id]
    OBVIOUS
  <2> HIDE DEF id, found
  <2>2. found(u, r) = [name |-> r.name, args |-> r.args, scope |-> r.scope, place |-> r.place,
                       resolved |-> id]
    BY <1>9, <2>1 DEF Entry
  <2> QED BY <2>2 DEF Entry
<1> HIDE DEF F, G, found, old, L
<1>10. /\ IsSequence(F) /\ IsSequence(G) /\ Len(F) = L /\ Len(G) = L
  BY <1>6, <1>7 DEF IsSequence
<1>11. ASSUME NEW i \in 1..L
       PROVE  /\ Entry(F[i])
              /\ F[i].place # p => G[i] = F[i]
              /\ F[i].place = p => /\ G[i].place = p /\ G[i].name = n /\ G[i].args = F[i].args
                                   /\ G[i].scope = F[i].scope /\ Entry(G[i])
  <2>1. F[i] = found(b, old[i]) /\ G[i] = found(c, uses[i])
    BY <1>7
  <2>2. /\ Entry(old[i])
        /\ old[i].place # p => uses[i] = old[i]
        /\ old[i].place = p => /\ uses[i].place = p /\ uses[i].name = n
                               /\ uses[i].args = old[i].args
                               /\ uses[i].scope = old[i].scope /\ Entry(uses[i])
    BY <1>4
  <2>3. Entry(F[i]) /\ F[i].place = old[i].place /\ F[i].args = old[i].args
          /\ F[i].scope = old[i].scope
    BY <1>9, <2>1, <2>2
  <2>4. old[i].place # p => G[i] = F[i]
    BY <1>8, <2>1, <2>2
  <2>5. old[i].place = p => /\ G[i].place = p /\ G[i].name = n /\ G[i].args = F[i].args
                            /\ G[i].scope = F[i].scope /\ Entry(G[i])
    BY <1>9, <2>1, <2>2, <2>3
  <2> QED BY <2>3, <2>4, <2>5
<1>12. OneRenamed(F, G, p, n)
  BY <1>10, <1>11 DEF OneRenamed
<1>13. t = With(s, G) /\ Whole(s) /\ s.references = F
  BY <1>2, <1>3 DEF With, Whole
<1>14. UsesAlike(s, t, p, n)
  BY <1>12, <1>13 DEF UsesAlike
<1> QED BY <1>14 DEF s, t
----------------------------------------------------------------------------
(* The invariant.                                                          *)

\* What is patched is resolved by its name alone, in the table there is.
Patching(t, places) ==
  [t EXCEPT !.references =
    [i \in DOMAIN t.references |->
       LET use == t.references[i]
       IN IF use.place \in places
          THEN [use EXCEPT !.resolved = Lookup(t, use.scope, use.name)] ELSE use]]

Inv ==
  /\ TextOK
  /\ mode \in Modes \cup {Unbuilt} /\ patched \in SUBSET (1..Size)
  /\ mode = Unbuilt => table = Empty /\ patched = {}
  /\ mode # Unbuilt => table = Patching(Built(mode, text), patched)

\* The invariant holds in the beginning.
LEMMA Starts ==
  ASSUME Init
  PROVE  Inv
<1>1. text = <<>> /\ mode = Unbuilt /\ table = Empty /\ patched = {}
  BY DEF Init
<1>2. TextOK
  BY <1>1 DEF TextOK, Size
<1> QED BY <1>1, <1>2 DEF Inv

\* The recursion, as a state predicate, in the next state.
AroundRight == Size \in Nat => \A k \in 1..Size + 1 : Around[k] = AroundStep(Around, k)

\* It holds in every state,
LEMMA AroundIsRight == AroundRight
BY AroundIs DEF AroundRight

\* and so after every step.
LEMMA AroundStaysRight == AroundRight'
BY AroundIsRight, PTL

\* What is around a position is the same in two texts that open and end the
\* same before it.
LEMMA AroundSame ==
  ASSUME Size \in Nat, Size' \in Nat, NEW n \in Nat, n <= Size, n <= Size',
         \A k \in 1..n : /\ Opens(k)' <=> Opens(k)
                         /\ text'[k].what = "end" <=> text[k].what = "end"
  PROVE  \A k \in 1..n + 1 : Around'[k] = Around[k]
<1> DEFINE S == {k \in Nat : k <= n => Around'[k + 1] = Around[k + 1]}
<1>1. ASSUME NEW k \in 1..n + 1
      PROVE  Around[k] = AroundStep(Around, k) /\ Around'[k] = AroundStep(Around, k)'
  <2>1. k \in 1..Size + 1 /\ k \in 1..Size' + 1
    <3>1. \A x \in Nat : n <= x => k \in 1..x + 1
      OBVIOUS
    <3> QED BY <3>1
  <2>2. Around[k] = AroundStep(Around, k)
    BY <2>1, AroundIs
  <2>3. Around'[k] = AroundStep(Around, k)'
    BY <2>1, AroundStaysRight DEF AroundRight
  <2> QED BY <2>2, <2>3
<1>2. 0 \in S
  <2>1. 1 \in 1..n + 1 /\ 0 + 1 = 1
    OBVIOUS
  <2>2. Around[1] = {} /\ Around'[1] = {}
    BY <1>1, <2>1 DEF AroundStep
  <2> QED BY <2>1, <2>2
<1>3. ASSUME NEW k \in Nat, k \in S PROVE k + 1 \in S
  <2> SUFFICES ASSUME k + 1 <= n PROVE Around'[k + 1 + 1] = Around[k + 1 + 1]
    OBVIOUS
  <2>1. /\ k + 1 \in 1..n /\ k + 1 + 1 \in 1..n + 1 /\ (k + 1 + 1) - 1 = k + 1 /\ k + 1 + 1 # 1
        /\ Around'[k + 1] = Around[k + 1]
    BY <1>3
  <2>2. /\ Opens(k + 1)' <=> Opens(k + 1)
        /\ text'[k + 1].what = "end" <=> text[k + 1].what = "end"
    BY <2>1
  <2> DEFINE q == k + 1
  <2>3. /\ Around[q + 1] = IF Opens(q) THEN Around[q] \cup {q}
                           ELSE IF text[q].what = "end" THEN Around[q] \ {Max(Around[q])}
                           ELSE Around[q]
        /\ Around'[q + 1] = IF Opens(q)' THEN Around'[q] \cup {q}
                            ELSE IF text'[q].what = "end" THEN Around'[q] \ {Max(Around'[q])}
                            ELSE Around'[q]
    BY <1>1, <2>1 DEF AroundStep
  <2> QED BY <2>1, <2>2, <2>3
<1>4. ASSUME NEW k \in 1..n + 1 PROVE Around'[k] = Around[k]
  <2>1. k - 1 \in S
    <3>1. k - 1 \in Nat
      OBVIOUS
    <3> HIDE DEF S
    <3> QED BY <1>2, <1>3, <3>1, Induction
  <2>2. (k - 1) + 1 = k /\ k - 1 <= n
    OBVIOUS
  <2> QED BY <2>1, <2>2
<1> QED BY <1>4

\* Write keeps the invariant: the new event fits what is around it.
LEMMA Writes ==
  ASSUME Inv, NEW event \in Events, Write(event)
  PROVE  Inv'
<1> DEFINE q == Size + 1
<1>1. /\ TextOK /\ mode = Unbuilt /\ table = Empty /\ patched = {}
      /\ text' = Append(text, event) /\ Fits(event)
      /\ mode' = mode /\ table' = table /\ patched' = patched
  BY DEF Inv, Write
<1>2. text \in Seq(Events) /\ Size \in Nat
  BY <1>1 DEF TextOK, Size
<1>3. /\ text' \in Seq(Events) /\ Size' = Size + 1 /\ text'[q] = event
      /\ \A k \in 1..Size : text'[k] = text[k]
      /\ \A k : k \in 1..q <=> k \in 1..Size \/ k = q
  BY <1>1, <1>2, AppendIs DEF Size
<1>4. \A k \in 1..Size + 1 : Around'[k] = Around[k]
  <2>1. \A k \in 1..Size : /\ Opens(k)' <=> Opens(k)
                           /\ text'[k].what = "end" <=> text[k].what = "end"
    BY <1>3 DEF Opens
  <2>2. Size' \in Nat /\ Size <= Size /\ Size <= Size'
    BY <1>2, <1>3
  <2> QED BY <1>2, <2>1, <2>2, AroundSame
<1>5. TextOK'
  <2>1. ASSUME NEW k \in 1..q
        PROVE  /\ text'[k].what = "function" => Around'[k] = {}
               /\ text'[k].what \in {"block", "end"} => Around'[k] # {}
    <3>1. k \in 1..Size + 1
      OBVIOUS
    <3>2. Around'[k] = Around[k]
      BY <1>4, <3>1
    <3>3. CASE k \in 1..Size
      BY <1>1, <1>3, <3>2, <3>3 DEF TextOK
    <3>4. CASE k = q
      BY <1>1, <1>3, <3>2, <3>4 DEF Fits, Size
    <3> QED BY <1>3, <3>3, <3>4
  <2> QED BY <1>3, <2>1 DEF TextOK
<1>6. patched' \in SUBSET (1..Size') /\ mode' = Unbuilt /\ table' = Empty /\ patched' = {}
  BY <1>1
<1> QED BY <1>5, <1>6 DEF Inv

\* A text that is not changed stays well nested.
LEMMA SameText ==
  ASSUME TextOK, text' = text
  PROVE  TextOK'
<1>1. Size' = Size /\ Size \in Nat /\ Size <= Size
  BY DEF TextOK, Size
<1>2. \A k \in 1..Size : /\ Opens(k)' <=> Opens(k)
                         /\ text'[k].what = "end" <=> text[k].what = "end"
  BY DEF Opens
<1>3. \A k \in 1..Size + 1 : Around'[k] = Around[k]
  BY <1>1, <1>2, AroundSame
<1>4. \A k \in 1..Size : k \in 1..Size + 1
  BY <1>1
<1>5. \A k \in 1..Size : Around'[k] = Around[k]
  BY <1>3, <1>4
<1> QED BY <1>1, <1>5 DEF TextOK

\* Build establishes what the invariant says of a table.
LEMMA Builds ==
  ASSUME Inv, NEW m \in Modes, Build(m)
  PROVE  Inv'
<1>1. /\ TextOK /\ mode = Unbuilt /\ patched = {} /\ mode' = m /\ table' = Built(m, text)
      /\ text' = text /\ patched' = {}
  BY DEF Inv, Build
<1>2. TextOK'
  BY <1>1, SameText
<1>3. m # Unbuilt
  BY DEF Modes, Unbuilt
<1>4. table' = Patching(Built(m, text), {})
  <2> DEFINE t == Built(m, text)
  <2>1. PICK begin : BuiltRight(m, t, begin)
    BY <1>1, BuiltIs
  <2>2. t \in BuilderType
    BY <2>1 DEF BuiltRight
  <2>3. Patching(t, {}) = [t EXCEPT !.references = [i \in DOMAIN t.references |-> t.references[i]]]
    BY DEF Patching
  <2> HIDE DEF t
  <2>4. t.references = [i \in DOMAIN t.references |-> t.references[i]]
    BY <2>2, BuilderIs
  <2>5. t = [t EXCEPT !.references = t.references]
    BY <2>2 DEF BuilderType
  <2>6. table' = t
    BY <1>1 DEF t
  <2> QED BY <2>3, <2>4, <2>5, <2>6 DEF t
<1>5. patched' \in SUBSET (1..Size')
  BY <1>1
<1>6. Patching(Built(m, text), {}) = Patching(Built(mode, text), patched)'
  BY <1>1
<1> QED BY <1>1, <1>2, <1>3, <1>4, <1>5, <1>6 DEF Inv

\* The parts of a patched table.
LEMMA PatchingIs ==
  ASSUME NEW c \in BuilderType, NEW P
  PROVE  LET t == Patching(c, P)
         IN /\ t.symbols = c.symbols /\ t.scopes = c.scopes /\ t.reported = c.reported
           /\ t.at = c.at
            /\ DOMAIN t.references = DOMAIN c.references /\ Whole(t)
            /\ \A i \in DOMAIN c.references :
                 LET use == c.references[i]
                 IN t.references[i] = IF use.place \in P
                      THEN [use EXCEPT !.resolved = Lookup(c, use.scope, use.name)] ELSE use
<1> DEFINE t == Patching(c, P)
           found == [i \in DOMAIN c.references |->
                       LET use == c.references[i]
                       IN IF use.place \in P
                          THEN [use EXCEPT !.resolved = Lookup(c, use.scope, use.name)] ELSE use]
<1>1. t = [c EXCEPT !.references = found]
  BY DEF Patching
<1>2. /\ DOMAIN found = DOMAIN c.references
      /\ \A i \in DOMAIN c.references :
           LET use == c.references[i]
           IN found[i] = IF use.place \in P
                THEN [use EXCEPT !.resolved = Lookup(c, use.scope, use.name)] ELSE use
  OBVIOUS
<1> HIDE DEF found, t
<1>3. /\ t.symbols = c.symbols /\ t.scopes = c.scopes /\ t.reported = c.reported /\ t.at = c.at
      /\ t.references = found /\ Whole(t)
  BY <1>1 DEF BuilderType, Whole, With
<1> QED BY <1>2, <1>3 DEF t

\* An entry is its five fields.
LEMMA EntryIs ==
  ASSUME NEW use \in ReferenceType
  PROVE  Entry(use)
BY DEF ReferenceType, Entry

\* A patched entry is the entry, but for what it is resolved to.
LEMMA EntryPatched ==
  ASSUME NEW use, Entry(use), NEW id
  PROVE  /\ Entry([use EXCEPT !.resolved = id])
         /\ [use EXCEPT !.resolved = id].name = use.name
         /\ [use EXCEPT !.resolved = id].args = use.args
         /\ [use EXCEPT !.resolved = id].scope = use.scope
         /\ [use EXCEPT !.resolved = id].place = use.place
         /\ [use EXCEPT !.resolved = id].resolved = id
<1>1. [use EXCEPT !.resolved = id] = [name |-> use.name, args |-> use.args, scope |-> use.scope,
                                      place |-> use.place, resolved |-> id]
  BY DEF Entry
<1> QED BY <1>1 DEF Entry

\* Patch renames one use of the text and leaves its nesting.
LEMMA PatchesText ==
  ASSUME Inv, NEW i \in DOMAIN table.references, NEW name \in Names, Patch(i, name),
         NEW p, p = table.references[i].place
  PROVE  /\ p \in 1..Size /\ RenamedAt(text, text', p, name) /\ TextOK' /\ Size' = Size
<1> DEFINE c == Built(mode, text)
<1>1. /\ TextOK /\ mode = "full" /\ table = Patching(c, patched)
      /\ text' = [text EXCEPT ![p].name = name]
  BY DEF Inv, Patch, Modes, Unbuilt
<1>2. PICK begin : BuiltRight(mode, c, begin)
  BY <1>1, BuiltIs
<1> HIDE DEF c
<1>3. c \in BuilderType /\ UsesRight(mode, c, begin)
  BY <1>2 DEF BuiltRight
<1>4. i \in DOMAIN c.references /\ p = c.references[i].place
  <2> DEFINE use == c.references[i]
  <2>1. /\ i \in DOMAIN c.references
        /\ table.references[i] = IF use.place \in patched
             THEN [use EXCEPT !.resolved = Lookup(c, use.scope, use.name)] ELSE use
    BY <1>1, <1>3, PatchingIs
  <2>2. Entry(use)
    BY <1>3, <2>1, BuilderIs, EntryIs
  <2> HIDE DEF use
  <2>3. table.references[i].place = use.place
    BY <2>1, <2>2, EntryPatched
  <2> QED BY <2>1, <2>3 DEF use
<1>5. p \in 1..Size /\ text[p].what = "use"
  BY <1>3, <1>4 DEF UsesRight, Used
<1>6. /\ text \in Seq(Events) /\ Size \in Nat /\ Len(text) = Size /\ DOMAIN text = 1..Size
  BY <1>1 DEF TextOK, Size
<1> DEFINE event == [text[p] EXCEPT !.name = name]
<1>7. /\ event \in Events /\ event.what = "use" /\ event.name = name
      /\ event.args = text[p].args
  <2>1. text[p] \in [what : {"use"}, name : Names, args : Arguments \cup {NotACall}]
    BY <1>5, <1>6 DEF Events
  <2> QED BY <2>1 DEF Events
<1> HIDE DEF event
<1>8. text' = [text EXCEPT ![p] = event]
  BY <1>1 DEF event
<1>9. /\ text' \in Seq(Events) /\ Len(text') = Size /\ text'[p] = event
      /\ \A k \in 1..Size : k # p => text'[k] = text[k]
  BY <1>5, <1>6, <1>7, <1>8
<1>10. RenamedAt(text, text', p, name)
  <2>1. \A k \in 1..Size : text[k].what \in {"variable", "function", "use", "block", "end"}
    BY <1>6, EventTypes
  <2> QED BY <1>5, <1>6, <1>7, <1>9, <2>1 DEF RenamedAt
<1>11. Size' = Size
  BY <1>9 DEF Size
<1>12. TextOK'
  <2>1. \A k \in 1..Size : /\ Opens(k)' <=> Opens(k)
                           /\ text'[k].what = text[k].what
    <3> SUFFICES ASSUME NEW k \in 1..Size
                 PROVE  (Opens(k)' <=> Opens(k)) /\ text'[k].what = text[k].what
      OBVIOUS
    <3>1. CASE k = p
      BY <1>5, <1>7, <1>9, <3>1 DEF Opens
    <3>2. CASE k # p
      BY <1>9, <3>2 DEF Opens
    <3> QED BY <3>1, <3>2
  <2>2. Size <= Size /\ Size <= Size' /\ Size' \in Nat
    BY <1>6, <1>11
  <2>3. \A k \in 1..Size + 1 : Around'[k] = Around[k]
    BY <1>6, <2>1, <2>2, AroundSame
  <2>4. \A k \in 1..Size : k \in 1..Size + 1
    BY <1>6
  <2>5. \A k \in 1..Size : Around'[k] = Around[k]
    BY <2>3, <2>4
  <2> QED BY <1>1, <1>9, <1>11, <2>1, <2>5 DEF TextOK
<1> QED BY <1>5, <1>10, <1>11, <1>12

\* Patch keeps the table a build of the new text gives, but for the patched uses.
LEMMA PatchesTable ==
  ASSUME Inv, NEW i \in DOMAIN table.references, NEW name \in Names, Patch(i, name),
         NEW p, p = table.references[i].place
  PROVE  table' = Patching(Built(mode, text'), patched \cup {p})
<1> DEFINE c == Built(mode, text)
           d == Built(mode, text')
           P == patched \cup {p}
           goal == Patching(d, P)
<1>1. /\ TextOK /\ mode = "full" /\ table = Patching(c, patched)
      /\ table' = PatchReference(table, i, name)
  BY DEF Inv, Patch, Modes, Unbuilt
<1>2. PICK begin : BuiltRight(mode, c, begin)
  BY <1>1, BuiltIs
<1>3. UsesAlike(c, d, p, name)
  <2>1. RenamedAt(text, text', p, name)
    BY PatchesText
  <2> QED BY <2>1, BuiltAlike
<1> HIDE DEF c, d, goal
<1>4. c \in BuilderType /\ UsesRight(mode, c, begin)
  BY <1>2 DEF BuiltRight
<1>5. PICK uses : d = With(c, uses) /\ Whole(c) /\ OneRenamed(c.references, uses, p, name)
  BY <1>3 DEF UsesAlike
<1> DEFINE L == Len(c.references)
<1>6. /\ L \in Nat /\ DOMAIN c.references = 1..L /\ DOMAIN uses = 1..L
  BY <1>4, <1>5, BuilderIs DEF OneRenamed, IsSequence
<1>7. /\ d.symbols = c.symbols /\ d.scopes = c.scopes /\ d.reported = c.reported /\ d.at = c.at
      /\ d.references = uses
  BY <1>5, WithIs
<1>8. \A s, n : Lookup(c, s, n) = Lookup(d, s, n) /\ Lookup(table, s, n) = Lookup(c, s, n)
  <2>1. table.symbols = c.symbols /\ table.scopes = c.scopes
    BY <1>1, <1>4, PatchingIs
  <2> QED BY <1>7, <2>1, ResolveAlike
<1>9. /\ table.symbols = c.symbols /\ table.scopes = c.scopes /\ table.reported = c.reported
      /\ table.at = c.at /\ DOMAIN table.references = 1..L /\ Whole(table)
      /\ \A j \in 1..L :
           LET use == c.references[j]
           IN table.references[j] = IF use.place \in patched
                THEN [use EXCEPT !.resolved = Lookup(c, use.scope, use.name)] ELSE use
  BY <1>1, <1>4, <1>6, PatchingIs
<1> HIDE DEF L
<1>10. i \in 1..L
  BY <1>9
<1> DEFINE old == table.references[i]
           new == [[old EXCEPT !.name = name] EXCEPT !.resolved = Lookup(table, old.scope, name)]
           refs == [table.references EXCEPT ![i] = new]
<1>11. table' = [table EXCEPT !.references = refs]
  <2>1. table' = [table EXCEPT !.references[i].name = name,
                               !.references[i].resolved = Lookup(table, old.scope, name)]
    BY <1>1 DEF PatchReference
  <2> DEFINE id == Lookup(table, old.scope, name)
             first == [table.references EXCEPT ![i] = [old EXCEPT !.name = name]]
             mid == [table EXCEPT !.references = first]
  <2>2. table' = [mid EXCEPT !.references[i].resolved = id]
    BY <2>1
  <2>3. mid.references = first
    BY <1>9 DEF Whole, With
  <2>4. first[i] = [old EXCEPT !.name = name] /\ i \in DOMAIN first
    BY <1>9, <1>10
  <2> HIDE DEF id, first, mid
  <2>5. [mid EXCEPT !.references[i].resolved = id]
          = [mid EXCEPT !.references = [mid.references EXCEPT ![i] = [mid.references[i] EXCEPT !.resolved = id]]]
    OBVIOUS
  <2>6. [mid.references EXCEPT ![i] = [mid.references[i] EXCEPT !.resolved = id]]
          = [first EXCEPT ![i] = new]
    BY <2>3, <2>4 DEF id
  <2>7. [first EXCEPT ![i] = new] = refs
    <3> HIDE DEF new
    <3> QED BY DEF first
  <2>8. table' = [mid EXCEPT !.references = refs]
    BY <2>2, <2>5, <2>6, <2>7
  <2> HIDE DEF refs
  <2> QED BY <2>8 DEF mid
<1> HIDE DEF refs
<1>12. table' = With(c, refs)
  BY <1>9, <1>11 DEF Whole, With
<1> DEFINE found == [j \in DOMAIN d.references |->
                       LET use == d.references[j]
                       IN IF use.place \in P
                          THEN [use EXCEPT !.resolved = Lookup(d, use.scope, use.name)] ELSE use]
<1>13. goal = [d EXCEPT !.references = found]
  BY DEF goal, Patching
<1> HIDE DEF found
<1>14. goal = With(c, found)
  BY <1>5, <1>13 DEF With
<1>15. refs = found
  <2>1. DOMAIN refs = 1..L /\ DOMAIN found = 1..L
    BY <1>6, <1>7, <1>9 DEF refs, found
  <2>2. p = c.references[i].place /\ Entry(c.references[i])
    <3>1. Entry(c.references[i])
      BY <1>4, <1>6, <1>10, BuilderIs, EntryIs
    <3>2. table.references[i].place = c.references[i].place
      <4> DEFINE was == c.references[i]
                 id == Lookup(c, was.scope, was.name)
      <4>1. table.references[i] = IF was.place
              \in patched THEN [was EXCEPT !.resolved = id] ELSE was
        BY <1>9, <1>10
      <4>2. [was EXCEPT !.resolved = id].place = was.place
        BY <3>1, EntryPatched
      <4> HIDE DEF id, was
      <4>3. table.references[i].place = was.place
        BY <4>1, <4>2
      <4> QED BY <4>3 DEF was
    <3> QED BY <3>1, <3>2
  <2>3. ASSUME NEW j \in 1..L, j # i PROVE refs[j] = found[j]
    <3>1. c.references[j].place # p
      <4>1. \A a, b \in 1..L : a < b => c.references[a].place < c.references[b].place
        BY <1>4, <1>6 DEF UsesRight, InOrder
      <4>2. c.references[j].place \in Nat /\ c.references[i].place \in Nat
        <5>1. c.references[j].place \in 1..Size /\ c.references[i].place \in 1..Size
          BY <1>4, <1>6, <1>10 DEF UsesRight
        <5> QED BY <5>1
      <4>3. i < j \/ j < i
        BY <1>6, <1>10, <2>3 DEF L
      <4> QED BY <1>10, <2>2, <4>1, <4>2, <4>3
    <3>2. uses[j] = c.references[j]
      BY <1>5, <3>1 DEF OneRenamed, L
    <3> DEFINE use == c.references[j]
    <3>3. refs[j] = table.references[j]
      BY <1>9, <2>3 DEF refs
    <3>4. found[j] = IF use.place \in P
                     THEN [use EXCEPT !.resolved = Lookup(d, use.scope, use.name)] ELSE use
      BY <1>6, <1>7, <3>2 DEF found, L
    <3>5. refs[j] = IF use.place \in patched
                     THEN [use EXCEPT !.resolved = Lookup(c, use.scope, use.name)] ELSE use
      BY <1>9, <3>3
    <3>6. use.place \in P <=> use.place \in patched
      BY <3>1
    <3>7. Lookup(c, use.scope, use.name) = Lookup(d, use.scope, use.name)
      BY <1>8
    <3> HIDE DEF use
    <3> QED BY <3>4, <3>5, <3>6, <3>7
  <2>4. refs[i] = found[i]
    <3> DEFINE use == uses[i]
               was == c.references[i]
    <3>1. /\ use.place = p /\ use.name = name /\ use.args = was.args /\ use.scope = was.scope
          /\ Entry(use)
      BY <1>5, <1>10, <2>2 DEF OneRenamed, L
    <3>2. /\ Entry(old) /\ old.args = was.args /\ old.scope = was.scope /\ old.place = p
      <4> DEFINE former == Lookup(c, was.scope, was.name)
                 other == [was EXCEPT !.resolved = former]
      <4>1. old = IF was.place \in patched THEN other ELSE was
        BY <1>9, <1>10
      <4>2. Entry(was) /\ was.place = p
        BY <2>2
      <4> HIDE DEF former, was
      <4>3. Entry(other) /\ other.args = was.args /\ other.scope = was.scope
              /\ other.place = was.place
        BY <4>2, EntryPatched
      <4> HIDE DEF other, old
      <4> QED BY <4>1, <4>2, <4>3
    <3>3. refs[i] = new
      BY <1>9, <1>10 DEF refs
    <3>4. found[i] = [use EXCEPT !.resolved = Lookup(d, use.scope, use.name)]
      <4>1. found[i] = IF use.place \in P
                       THEN [use EXCEPT !.resolved = Lookup(d, use.scope, use.name)] ELSE use
        BY <1>6, <1>7, <1>10 DEF found, L
      <4> QED BY <3>1, <4>1
    <3> DEFINE id == Lookup(d, was.scope, name)
    <3>5. Lookup(table, old.scope, name) = id /\ Lookup(d, use.scope, use.name) = id
      BY <1>8, <3>1, <3>2
    <3> HIDE DEF use, was, old, id
    <3>6. found[i] = [name |-> name, args |-> was.args, scope |-> was.scope, place |-> p, resolved |-> id]
      BY <3>1, <3>4, <3>5 DEF Entry
    <3>7. new = [name |-> name, args |-> was.args, scope |-> was.scope, place |-> p, resolved |-> id]
      <4> DEFINE mid == [old EXCEPT !.name = name]
      <4>1. new = [mid EXCEPT !.resolved = id]
        BY <3>5
      <4>2. mid = [name |-> name, args |-> was.args, scope |-> was.scope, place |-> p,
                   resolved |-> old.resolved]
        BY <3>2 DEF Entry
      <4> HIDE DEF mid, new
      <4> QED BY <4>1, <4>2
    <3> HIDE DEF new
    <3> QED BY <3>3, <3>6, <3>7
  <2>5. \A j \in 1..L : refs[j] = found[j]
    BY <2>3, <2>4
  <2>6. refs = [j \in 1..L |-> refs[j]] /\ found = [j \in 1..L |-> found[j]]
    BY <1>6, <1>7, <1>9 DEF refs, found, L
  <2> QED BY <2>5, <2>6
<1> QED BY <1>12, <1>14, <1>15 DEF goal, d

\* Patch keeps the invariant.
LEMMA Patches ==
  ASSUME Inv, NEW i \in DOMAIN table.references, NEW name \in Names, Patch(i, name)
  PROVE  Inv'
<1> DEFINE p == table.references[i].place
<1>1. /\ p \in 1..Size /\ TextOK' /\ Size' = Size
  BY PatchesText
<1>2. table' = Patching(Built(mode, text'), patched \cup {p})
  BY PatchesTable
<1>3. mode = "full" /\ mode' = mode /\ patched' = patched \cup {p}
  BY DEF Patch
<1>4. patched' \in SUBSET (1..Size')
  BY <1>1, <1>3 DEF Inv
<1>5. table' = Patching(Built(mode, text), patched)'
  BY <1>2, <1>3
<1>6. mode' \in Modes \cup {Unbuilt} /\ mode' # Unbuilt
  BY <1>3 DEF Modes, Unbuilt
<1> QED BY <1>1, <1>4, <1>5, <1>6 DEF Inv

\* The invariant holds: the text is well nested, and the table is the one
\* that is built, with the patched uses resolved by their names.
THEOREM Invariance == Spec => []Inv
<1>1. Init => Inv
  BY Starts
<1>2. Inv /\ [Next]_vars => Inv'
  <2> SUFFICES ASSUME Inv, [Next]_vars PROVE Inv'
    OBVIOUS
  <2>1. ASSUME NEW event \in Events, Write(event) PROVE Inv'
    BY <2>1, Writes
  <2>2. ASSUME NEW m \in Modes, Build(m) PROVE Inv'
    BY <2>2, Builds
  <2>3. ASSUME NEW i \in DOMAIN table.references, NEW name \in Names, Patch(i, name) PROVE Inv'
    BY <2>3, Patches
  <2>4. CASE UNCHANGED vars
    <3>1. text' = text /\ mode' = mode /\ table' = table /\ patched' = patched
      BY <2>4 DEF vars
    <3>2. TextOK'
      BY <3>1, SameText DEF Inv
    <3> QED BY <3>1, <3>2 DEF Inv, Size
  <2> QED BY <2>1, <2>2, <2>3, <2>4 DEF Next
<1> QED BY <1>1, <1>2, PTL DEF Spec

----------------------------------------------------------------------------
(* What follows.                                                           *)

\* An owner is a declaration of the name in the scope, and no test.
LEMMA OwnersAre ==
  ASSUME TextOK, NEW m, NEW t, NEW begin, BuiltRight(m, t, begin),
         NEW s \in DOMAIN t.scopes, NEW n \in Names
  PROVE  LET id == t.scopes[s].names[n]
         IN /\ id \in 0..Len(t.symbols)
            /\ id # 0 => /\ t.symbols[id].name = n /\ t.symbols[id].scope = s
                         /\ ~IsTestEntryPoint(t.symbols[id].signature)
<1> DEFINE id == t.scopes[s].names[n]
           D == Declarations(begin[s], n, Size)
           symbol == t.symbols[id]
           p == symbol.place
<1>0. Size \in Nat /\ text \in Seq(Events)
  BY DEF TextOK, Size
<1>1. /\ t \in BuilderType /\ ScopesRight(m, t, Size, begin) /\ SymbolsRight(m, t, Size, begin)
      /\ NamesRight(t, Size, begin)
  BY DEF BuiltRight
<1>2. /\ begin \in Seq(Nat) /\ Len(begin) = Len(t.scopes) /\ Increasing(begin)
      /\ t.scopes \in Seq(ScopeType)
  BY <1>1, BuilderIs DEF ScopesRight
<1>3. s \in 1..Len(begin) /\ DOMAIN begin = 1..Len(begin) /\ Len(begin) \in Nat
  BY <1>2
<1>4. id \in 0..Len(t.symbols) /\ Placed(t, id) = Owner(D)
  BY <1>1, <1>3 DEF NamesRight
<1> SUFFICES ASSUME id # 0
             PROVE  symbol.name = n /\ symbol.scope = s /\ ~IsTestEntryPoint(symbol.signature)
  BY <1>4
<1>5. id \in DOMAIN t.symbols /\ p = Owner(D)
  BY <1>1, <1>4, BuilderIs DEF Placed
<1>6. /\ p \in 1..Size /\ Declared(m, p)
      /\ symbol.name = text[p].name /\ symbol.signature = Sig(p)
      /\ symbol.scope \in 1..Len(begin) /\ begin[symbol.scope] = Inner(p)
  BY <1>1, <1>5 DEF SymbolsRight
<1>7. p \in D
  <2>1. D \in SUBSET (1..Size)
    BY <1>0, DeclarationsType
  <2>2. D \in SUBSET (Nat \ {0})
    BY <2>1
  <2>3. p # 0
    <3>1. p \in 1..Size
      BY <1>6
    <3> HIDE DEF p
    <3> QED BY <1>0, <3>1
  <2> HIDE DEF D, p
  <2> QED BY <1>5, <2>2, <2>3, OwnerType
<1>8. Declares(p) /\ text[p].name = n /\ Inner(p) = begin[s]
  BY <1>7 DEF Declarations, Inner
<1>9. symbol.scope = s
  <2> DEFINE u == symbol.scope
  <2>1. u \in 1..Len(begin) /\ begin[u] = begin[s]
    BY <1>6, <1>8
  <2> HIDE DEF u
  <2>2. u < s => begin[u] < begin[s]
    BY <1>2, <1>3, <2>1 DEF Increasing
  <2>3. s < u => begin[s] < begin[u]
    BY <1>2, <1>3, <2>1 DEF Increasing
  <2>4. begin[s] \in Nat
    BY <1>2, <1>3
  <2>5. u = s
    BY <1>3, <2>1, <2>2, <2>3, <2>4
  <2> QED BY <2>5 DEF u
<1>10. ~IsTestEntryPoint(Sig(p))
  <2>1. ~Sig(p).test
    BY <1>8 DEF Sig, Declares, Function, Variable
  <2> QED BY <2>1 DEF IsTestEntryPoint
<1> QED BY <1>6, <1>8, <1>9, <1>10

\* The invariant implies the type invariant,
LEMMA TypeFollows == Inv => TypeOK
<1> SUFFICES ASSUME Inv PROVE TypeOK
  OBVIOUS
<1>1. /\ TextOK /\ mode \in Modes \cup {Unbuilt} /\ patched \in SUBSET (1..Size)
  BY DEF Inv
<1>2. /\ Size \in Nat /\ Size \in 0..Size /\ DOMAIN text = 1..Size
      /\ \A i \in DOMAIN text : text[i] \in Events
  BY <1>1 DEF TextOK, Size
<1>3. CASE mode = Unbuilt
  <2>1. table.scopes = <<>> /\ table.references = <<>>
    BY <1>3 DEF Inv, Empty
  <2>2. DOMAIN table.scopes = {} /\ DOMAIN table.references = {}
    BY <2>1
  <2> QED BY <1>1, <1>2, <2>2 DEF TypeOK
<1>4. CASE mode # Unbuilt
  <2> DEFINE c == Built(mode, text)
  <2>1. PICK begin : BuiltRight(mode, c, begin)
    BY <1>1, BuiltIs
  <2>2. table = Patching(c, patched)
    BY <1>4 DEF Inv
  <2> HIDE DEF c
  <2>3. /\ c \in BuilderType /\ ScopesRight(mode, c, Size, begin)
        /\ SymbolsRight(mode, c, Size, begin)
        /\ NamesRight(c, Size, begin) /\ UsesRight(mode, c, begin)
    BY <2>1 DEF BuiltRight
  <2>4. /\ table.symbols = c.symbols /\ table.scopes = c.scopes
        /\ DOMAIN table.references = DOMAIN c.references
        /\ \A i \in DOMAIN c.references :
                 LET use == c.references[i]
                 IN table.references[i] = IF use.place \in patched
                      THEN [use EXCEPT !.resolved = Lookup(c, use.scope, use.name)] ELSE use
    BY <2>2, <2>3, PatchingIs
  <2>5. \A s \in DOMAIN table.scopes, n \in Names :
           LET id == table.scopes[s].names[n]
           IN /\ id \in 0..Len(table.symbols)
              /\ id # 0 => /\ table.symbols[id].name = n /\ table.symbols[id].scope = s
                           /\ ~IsTestEntryPoint(table.symbols[id].signature)
    BY <1>1, <2>1, <2>4, OwnersAre
  <2>6. /\ DOMAIN c.scopes = 1..Len(begin) /\ Len(begin) \in Nat
    BY <2>3, BuilderIs DEF ScopesRight
  <2>7. ASSUME NEW s \in DOMAIN table.scopes PROVE table.scopes[s].parent \in 0..s - 1
    <3>1. s \in 1..Len(begin)
      BY <2>4, <2>6
    <3>2. CASE s = 1
      BY <2>3, <2>4, <3>2 DEF ScopesRight
    <3>3. CASE s # 1
      <4>1. s \in 2..Len(begin)
        BY <2>6, <3>1, <3>3
      <4>2. c.scopes[s].parent \in 1..s - 1
        BY <2>3, <4>1 DEF ScopesRight
      <4> QED BY <2>4, <4>2
    <3> QED BY <3>2, <3>3
  <2>8. ASSUME NEW i \in DOMAIN table.references
        PROVE  /\ table.references[i].resolved \in 0..Len(table.symbols)
               /\ table.references[i].scope \in DOMAIN table.scopes
    <3> DEFINE use == c.references[i]
               id == Lookup(c, use.scope, use.name)
               other == [use EXCEPT !.resolved = id]
    <3>1. /\ i \in DOMAIN c.references
          /\ table.references[i] = IF use.place \in patched THEN other ELSE use
      BY <2>4
    <3>2. /\ use.place \in 1..Size /\ Used(mode, use.place)
          /\ use.name = text[use.place].name
          /\ use.scope \in 1..Len(begin)
          /\ use.resolved \in 0..Len(c.symbols)
      BY <2>3, <3>1 DEF UsesRight
    <3>3. Entry(use) /\ use.name \in Names
      <4>1. use \in ReferenceType
        BY <2>3, <3>1, BuilderIs
      <4> QED BY <4>1, EntryIs DEF ReferenceType
    <3>4. id \in 0..Len(c.symbols)
      <4> HIDE DEF use
      <4> QED BY <1>2, <2>3, <3>2, <3>3, LookupIs
    <3> HIDE DEF use, id
    <3>5. other.resolved = id /\ other.scope = use.scope
      BY <3>3, EntryPatched
    <3> HIDE DEF other
    <3>6. table.references[i].resolved \in 0..Len(c.symbols)
      BY <3>1, <3>2, <3>4, <3>5
    <3>7. table.references[i].scope \in 1..Len(begin)
      BY <3>1, <3>2, <3>5
    <3> QED BY <2>4, <2>6, <3>6, <3>7
  <2> QED BY <1>1, <1>2, <2>5, <2>7, <2>8 DEF TypeOK
<1> QED BY <1>3, <1>4

\* The uses a table has to have are the uses it has.
LEMMA ShownIs ==
  ASSUME TextOK, mode \in Modes, NEW p \in 1..Size
  PROVE  Shown(p) <=> Used(mode, p)
<1>1. CASE mode = "full"
  BY <1>1 DEF Shown, Used, Hidden, KeepDetails
<1>2. CASE mode = "navigation"
  <2>1. Hidden(mode, p) <=> Included(p)
    BY <1>2 DEF Hidden, KeepDetails, Included
  <2> QED BY <1>2, <2>1 DEF Shown, Used
<1>3. CASE mode = "declarations"
  BY <1>3 DEF Shown, Used
<1> QED BY <1>1, <1>2, <1>3 DEF Modes

\* Without patches the table is the one that was built.
LEMMA PatchingNothing ==
  ASSUME NEW c \in BuilderType, NEW t, t = Patching(c, {})
  PROVE  /\ t.symbols = c.symbols /\ DOMAIN t.references = DOMAIN c.references
         /\ \A i \in DOMAIN c.references : t.references[i] = c.references[i]
<1>1. PICK P : P = {}
  OBVIOUS
<1>2. t = Patching(c, P)
  BY <1>1
<1>3. /\ t.symbols = c.symbols /\ DOMAIN t.references = DOMAIN c.references
      /\ \A i \in DOMAIN c.references :
           LET use == c.references[i]
           IN t.references[i] = IF use.place \in P
                THEN [use EXCEPT !.resolved = Lookup(c, use.scope, use.name)] ELSE use
  BY <1>2, PatchingIs
<1> QED BY <1>1, <1>3

\* that uses are resolved,
LEMMA UsesFollow == Inv => UsesAreResolved
<1> SUFFICES ASSUME Inv, mode # Unbuilt, patched = {}
             PROVE  {<<r.place, PlaceOf(r.resolved)>> : r \in Range(table.references)}
                      = {<<i, Meaning(i)>> : i \in {k \in DOMAIN text : Shown(k)}}
  BY DEF UsesAreResolved
<1> DEFINE c == Built(mode, text)
<1>1. TextOK /\ mode \in Modes /\ table = Patching(c, {})
  BY DEF Inv
<1>2. PICK begin : BuiltRight(mode, c, begin)
  BY <1>1, BuiltIs
<1> HIDE DEF c
<1>3. c \in BuilderType /\ UsesRight(mode, c, begin)
  BY <1>2 DEF BuiltRight
<1>4. /\ table.symbols = c.symbols /\ DOMAIN table.references = DOMAIN c.references
      /\ \A i \in DOMAIN c.references : table.references[i] = c.references[i]
  BY <1>1, <1>3, PatchingNothing
<1>5. DOMAIN text = 1..Size
  BY <1>1 DEF TextOK, Size
<1>6. ASSUME NEW i \in DOMAIN c.references
      PROVE  LET r == c.references[i]
             IN r.place \in {k \in 1..Size : Shown(k)} /\ PlaceOf(r.resolved) = Meaning(r.place)
  <2> DEFINE r == c.references[i]
  <2>1. r.place \in 1..Size /\ Used(mode, r.place) /\ Placed(c, r.resolved) = Meaning(r.place)
    BY <1>3 DEF UsesRight
  <2>2. PlaceOf(r.resolved) = Placed(c, r.resolved)
    BY <1>4 DEF PlaceOf, Placed
  <2> HIDE DEF r
  <2>3. r.place \in {k \in 1..Size : Shown(k)} /\ PlaceOf(r.resolved) = Meaning(r.place)
    BY <1>1, <2>1, <2>2, ShownIs
  <2> QED BY <2>3 DEF r
<1>7. \A p \in 1..Size : Shown(p) => \E i \in DOMAIN c.references : c.references[i].place = p
  BY <1>1, <1>3, ShownIs DEF UsesRight
<1>8. \A r : r \in Range(table.references)
                <=> \E i \in DOMAIN c.references : r = c.references[i]
  <2>1. Range(table.references) = {table.references[i] : i \in DOMAIN table.references}
    BY DEF Range
  <2> QED BY <1>4, <2>1
<1> DEFINE Left == {<<r.place, PlaceOf(r.resolved)>> : r \in Range(table.references)}
           Right == {<<i, Meaning(i)>> : i \in {k \in DOMAIN text : Shown(k)}}
<1>9. ASSUME NEW x \in Left PROVE x \in Right
  <2>1. PICK r \in Range(table.references) : x = <<r.place, PlaceOf(r.resolved)>>
    OBVIOUS
  <2>2. r.place \in {k \in 1..Size : Shown(k)} /\ PlaceOf(r.resolved) = Meaning(r.place)
    BY <1>6, <1>8
  <2>3. x = <<r.place, Meaning(r.place)>>
    BY <2>1, <2>2
  <2> QED BY <1>5, <2>2, <2>3
<1>10. ASSUME NEW x \in Right PROVE x \in Left
  <2>1. PICK p \in 1..Size : Shown(p) /\ x = <<p, Meaning(p)>>
    BY <1>5
  <2>2. PICK i \in DOMAIN c.references : c.references[i].place = p
    BY <1>7, <2>1
  <2> DEFINE r == c.references[i]
  <2>3. r \in Range(table.references) /\ r.place = p /\ PlaceOf(r.resolved) = Meaning(p)
    BY <1>6, <1>8, <2>2
  <2> HIDE DEF r
  <2>4. x = <<r.place, PlaceOf(r.resolved)>>
    BY <2>1, <2>3
  <2> QED BY <2>3, <2>4
<1> HIDE DEF Left, Right
<1>11. Left = Right
  BY <1>9, <1>10
<1> QED BY <1>11 DEF Left, Right

\* that redeclarations are reported,
LEMMA RedeclarationsFollow == Inv => RedeclarationsAreReported
<1> SUFFICES ASSUME Inv, mode = "full", NEW k \in DOMAIN text, Declares(k)
             PROVE  LET places == Declarations(Nearest(Around[k]), text[k].name, Len(text))
                    IN Together(places) <=> \A id
                      \in table.reported : table.symbols[id].place \notin places
  BY DEF RedeclarationsAreReported
<1> DEFINE c == Built(mode, text)
           places == Declarations(Inner(k), text[k].name, Size)
<1>1. TextOK /\ table = Patching(c, patched) /\ k \in 1..Size /\ Size \in Nat
  BY DEF Inv, TextOK, Size, Unbuilt
<1>2. PICK begin : BuiltRight(mode, c, begin)
  BY <1>1, BuiltIs
<1> HIDE DEF c
<1>3. c \in BuilderType /\ SymbolsRight(mode, c, Size, begin) /\ ReportedRight(c, Size, begin)
  BY <1>2 DEF BuiltRight
<1>4. table.symbols = c.symbols /\ table.reported = c.reported
  BY <1>1, <1>3, PatchingIs
<1>5. Declared(mode, k)
  BY DEF Declared, Declares, Function, Hidden, KeepDetails
<1>6. text[k].name \in Names
  <2>1. text[k].what \in {"variable", "function"}
    BY DEF Declares
  <2> QED BY <1>1, <2>1, EventTypes DEF TextOK
<1>7. PICK s \in 1..Len(begin) : begin[s] = Inner(k)
  <2>1. PICK id \in DOMAIN c.symbols : c.symbols[id].place = k
    BY <1>1, <1>3, <1>5 DEF SymbolsRight
  <2>2. c.symbols[id].scope \in 1..Len(begin) /\ begin[c.symbols[id].scope] = Inner(k)
    BY <1>3, <2>1 DEF SymbolsRight
  <2> QED BY <2>2
<1>8. Together(places) <=> \A id \in c.reported : c.symbols[id].place \notin places
  BY <1>3, <1>6, <1>7 DEF ReportedRight
<1> QED BY <1>4, <1>8 DEF Inner, Size

\* The one declaration a settled name has is what it means, whether it is
\* looked for before the use or in all of the file.
LEMMA SettledMeaning ==
  ASSUME TextOK, NEW p \in 1..Size, Settled(p)
  PROVE  Meaning(p) = Named(p, Size)
<1> DEFINE n == text[p].name
           places == UNION {Declarations(s, n, Size) : s \in Around[p] \cup {0}}
           D(s, last) == Declarations(s, n, last)
<1>0. Size \in Nat /\ p - 1 \in Nat /\ p \in 1..Size + 1
  BY DEF TextOK, Size
<1>1. Cardinality(places) = 1 /\ \A k \in places : k < p \/ Nearest(Around[k]) = 0
  BY DEF Settled, Size
<1>2. \A s : D(s, Size) \in SUBSET (1..Size) /\ D(s, p - 1) \in SUBSET (1..Size)
             /\ \A k : k \in D(s, p - 1) <=> k \in D(s, Size) /\ k < p
  BY <1>0 DEF Declarations
<1>3. PICK d : places = {d}
  <2>1. places \in SUBSET (1..Size)
    BY <1>2
  <2>2. IsFiniteSet(1..Size)
    BY <1>0, FS_Interval
  <2> HIDE DEF places
  <2>3. IsFiniteSet(places)
    BY <2>1, <2>2, FS_Subset
  <2> QED BY <1>1, <2>3, FS_Singleton
<1>4. \A s : s \in Around[p] \cup {0} => (D(s, Size) = {} \/ D(s, Size) = {d})
  BY <1>3
<1>5. PICK home \in Around[p] \cup {0} : d \in D(home, Size)
  BY <1>3
<1>6. \A s : d \in D(s, Size) => s = home
  BY <1>5 DEF Declarations
<1>7. d \in 1..Size /\ (d < p \/ home = 0)
  <2>1. d \in 1..Size /\ Nearest(Around[d]) = home
    BY <1>2, <1>5 DEF Declarations
  <2> QED BY <1>1, <1>3, <2>1
<1>8. Owner({d}) = d /\ Owner({}) = 0
  <2>1. {d} \in SUBSET Nat /\ {d} \in SUBSET (Nat \ {0})
    BY <1>7
  <2> QED BY <2>1, OwnerType
<1>9. home \in Nat /\ Around[p] \in SUBSET (1..p - 1)
  <2>1. Around[p] \in SUBSET (1..p - 1)
    BY <1>0, AroundType
  <2> QED BY <2>1
<1>10. Nearest({home}) = home /\ Nearest({}) = 0
  <2>1. {home} \cup {0} \in SUBSET Nat /\ {} \cup {0} \in SUBSET Nat
    BY <1>9
  <2>2. \A k \in {home} \cup {0} : k <= home
    BY <1>9
  <2>3. Max({home} \cup {0}) = home
    BY <2>1, <2>2, MaxIs
  <2>4. Max({} \cup {0}) = 0
    BY <2>1, MaxIs
  <2> QED BY <2>3, <2>4 DEF Nearest
<1> HIDE DEF D, places
\* What is found up to `last', which has the declaration or not.
<1>11. ASSUME NEW last \in {p - 1, Size}
       PROVE  /\ d \in D(home, last) => Named(p, last) = d
              /\ d \notin D(home, last) => Named(p, last) = 0
  <2> DEFINE scopes == {s \in Around[p] \cup {0} : D(s, last) # {}}
  <2>1. Named(p, last) = Owner(D(Nearest(scopes), last))
    BY DEF Named, D
  <2>2. \A s \in Around[p] \cup {0} : s # home => D(s, last) = {}
    BY <1>2, <1>4, <1>6
  <2>3. D(home, last) = {} \/ D(home, last) = {d}
    BY <1>2, <1>4
  <2>4. CASE d \in D(home, last)
    <3>1. scopes = {home} /\ D(home, last) = {d}
      BY <2>2, <2>3, <2>4
    <3> HIDE DEF scopes
    <3> QED BY <1>8, <1>10, <2>1, <2>4, <3>1
  <2>5. CASE d \notin D(home, last)
    <3>1. scopes = {} /\ D(0, last) = {}
      BY <2>2, <2>3, <2>5
    <3> HIDE DEF scopes
    <3> QED BY <1>8, <1>10, <2>1, <2>5, <3>1
  <2> QED BY <2>4, <2>5
<1>12. ASSUME NEW last \in {p - 1, Size}
       PROVE  Called(p, last) = 0 \/ Called(p, last) = d
  <2> DEFINE functions == {k \in D(0, last) : Function(k)}
             fitting == {k \in functions : Accepts(text[k].signature, text[p].args)}
  <2>1. Called(p, last) = IF text[p].args = NotACall THEN 0
                          ELSE First(IF fitting = {} THEN functions ELSE fitting)
    BY DEF Called, D
  <2>2. functions \subseteq {d}
    BY <1>2, <1>4
  <2>3. \A T : T \subseteq {d} => First(T) \in {0, d}
    <3> SUFFICES ASSUME NEW T, T \subseteq {d} PROVE First(T) \in {0, d}
      OBVIOUS
    <3>1. T # {} => T \in SUBSET Nat /\ Min(T) \in T
      BY <1>7, MinOf
    <3> QED BY <3>1 DEF First
  <2>4. fitting \subseteq {d}
    BY <2>2
  <2> HIDE DEF functions, fitting
  <2> QED BY <2>1, <2>2, <2>3, <2>4
<1>13. Named(p, Size) = d /\ d # 0
  BY <1>5, <1>7, <1>11
<1>14. CASE d < p
  <2>1. d \in D(home, p - 1)
    BY <1>2, <1>5, <1>14
  <2>2. Named(p, p - 1) = d
    BY <1>11, <2>1
  <2>3. Called(p, p - 1) = 0 \/ Called(p, p - 1) = d
    BY <1>12
  <2>4. Or(Called(p, p - 1), Named(p, p - 1)) = d
    BY <1>13, <2>2, <2>3 DEF Or
  <2> QED BY <1>13, <2>4 DEF Meaning, Or
<1>15. CASE ~(d < p)
  <2>1. home = 0 /\ D(0, Size) = {d}
    BY <1>4, <1>5, <1>7, <1>15
  <2>2. d \notin D(home, p - 1)
    BY <1>2, <1>15
  <2>3. Named(p, p - 1) = 0
    BY <1>11, <2>2
  <2> DEFINE late == IF text[p].args = NotACall THEN Owner(Declarations(0, text[p].name, Size))
                     ELSE Named(p, Size)
  <2>4. late = d
    <3>1. Owner(Declarations(0, text[p].name, Size)) = d
      BY <1>8, <2>1 DEF D
    <3> QED BY <1>13, <3>1
  <2>5. Meaning(p) = Or(Or(Called(p, p - 1), Named(p, p - 1)), Or(Called(p, Size), late))
    BY DEF Meaning, Size
  <2>6. /\ Called(p, p - 1) = 0 \/ Called(p, p - 1) = d
        /\ Called(p, Size) = 0 \/ Called(p, Size) = d
    BY <1>12
  <2> HIDE DEF late
  <2> QED BY <1>13, <2>3, <2>4, <2>5, <2>6 DEF Or
<1> QED BY <1>14, <1>15

\* A symbol is known by its place.
LEMMA PlacedOnce ==
  ASSUME NEW m, NEW b \in BuilderType, NEW k \in Nat, NEW begin, SymbolsRight(m, b, k, begin),
         NEW x \in 0..Len(b.symbols), NEW y \in 0..Len(b.symbols), Placed(b, x) = Placed(b, y)
  PROVE  x = y
<1>1. \A id \in 1..Len(b.symbols) : b.symbols[id].place \in Nat /\ b.symbols[id].place # 0
  <2> SUFFICES ASSUME NEW id \in 1..Len(b.symbols)
               PROVE  b.symbols[id].place \in Nat /\ b.symbols[id].place # 0
    OBVIOUS
  <2>1. b.symbols[id].place \in 1..k
    BY BuilderIs DEF SymbolsRight
  <2> QED BY <2>1
<1>2. \A i, j \in 1..Len(b.symbols) : i < j => b.symbols[i].place < b.symbols[j].place
  BY BuilderIs DEF SymbolsRight, InOrder
<1>3. Len(b.symbols) \in Nat
  BY BuilderIs
<1>4. CASE x = 0 \/ y = 0
  <2>1. Placed(b, 0) = 0
    BY DEF Placed
  <2>2. \A id \in 1..Len(b.symbols) : Placed(b, id) # 0
    BY <1>1 DEF Placed
  <2>3. (x = 0 \/ x \in 1..Len(b.symbols)) /\ (y = 0 \/ y \in 1..Len(b.symbols))
    BY <1>3
  <2> QED BY <1>4, <2>1, <2>2, <2>3
<1>5. CASE x # 0 /\ y # 0
  <2>1. x \in 1..Len(b.symbols) /\ y \in 1..Len(b.symbols)
          /\ b.symbols[x].place = b.symbols[y].place
    BY <1>3, <1>5 DEF Placed
  <2>2. x < y \/ y < x \/ x = y
    BY <1>3
  <2> QED BY <1>1, <1>2, <2>1, <2>2
<1> QED BY <1>4, <1>5

\* and that patches are clean.
LEMMA PatchesFollow == Inv => PatchedIsClean
<1> SUFFICES ASSUME Inv, mode = "full", \A i \in patched : Settled(i)
             PROVE  table = Built("full", text)
  BY DEF PatchedIsClean
<1> DEFINE c == Built(mode, text)
<1>1. TextOK /\ table = Patching(c, patched) /\ patched \in SUBSET (1..Size) /\ Size \in Nat
  BY DEF Inv, Unbuilt, TextOK, Size
<1>2. PICK begin : BuiltRight(mode, c, begin)
  BY <1>1, BuiltIs
<1> SUFFICES table = c
  OBVIOUS
<1> HIDE DEF c
<1>3. /\ c \in BuilderType /\ UsesRight(mode, c, begin)
      /\ ScopesRight(mode, c, Size, begin) /\ SymbolsRight(mode, c, Size, begin)
      /\ NamesRight(c, Size, begin)
  BY <1>2 DEF BuiltRight
<1>4. /\ table.symbols = c.symbols /\ table.scopes = c.scopes /\ table.reported = c.reported
      /\ table.at = c.at /\ DOMAIN table.references = DOMAIN c.references /\ Whole(table)
      /\ \A i \in DOMAIN c.references :
           LET use == c.references[i]
           IN table.references[i] = IF use.place \in patched
                THEN [use EXCEPT !.resolved = Lookup(c, use.scope, use.name)] ELSE use
  BY <1>1, <1>3, PatchingIs
<1>5. ASSUME NEW i \in DOMAIN c.references PROVE table.references[i] = c.references[i]
  <2> DEFINE use == c.references[i]
             p == use.place
             id == Lookup(c, use.scope, use.name)
  <2>1. table.references[i] = IF p \in patched THEN [use EXCEPT !.resolved = id] ELSE use
    BY <1>4
  <2>2. /\ p \in 1..Size /\ Used(mode, p) /\ use.name = text[p].name
        /\ use.scope \in 1..Len(begin) /\ begin[use.scope] = Inner(p)
        /\ use.resolved \in 0..Len(c.symbols) /\ Placed(c, use.resolved) = Meaning(p)
    BY <1>3 DEF UsesRight
  <2>3. Entry(use)
    BY <1>3, BuilderIs, EntryIs
  <2> HIDE DEF use
  <2>4. ASSUME p \in patched PROVE id = use.resolved
    <3>1. Meaning(p) = Named(p, Size)
      BY <1>1, <2>2, <2>4, SettledMeaning
    <3>2. id \in 0..Len(c.symbols) /\ Placed(c, id) = Named(p, Size)
      <4>1. text[p].what = "use" /\ Size \in 0..Size
        BY <1>1, <2>2 DEF Used
      <4> HIDE DEF p
      <4>2. /\ Lookup(c, use.scope, text[p].name) \in 0..Len(c.symbols)
            /\ Placed(c, Lookup(c, use.scope, text[p].name)) = Named(p, Size)
        BY <1>1, <1>3, <2>2, <4>1, ResolveIs
      <4> QED BY <2>2, <4>2
    <3> HIDE DEF id, p
    <3>3. Placed(c, id) = Placed(c, use.resolved)
      BY <2>2, <3>1, <3>2
    <3> QED BY <1>1, <1>3, <2>2, <3>2, <3>3, PlacedOnce
  <2> HIDE DEF id
  <2>5. [use EXCEPT !.resolved = use.resolved] = use
    BY <2>3 DEF Entry
  <2>6. table.references[i] = use
    BY <2>1, <2>4, <2>5
  <2> QED BY <2>6 DEF use
<1>6. table.references = c.references
  <2>1. table.references = [i \in DOMAIN c.references |-> table.references[i]]
    <3> DEFINE found == [i \in DOMAIN c.references |->
                          LET use == c.references[i]
                          IN IF use.place \in patched
                             THEN [use EXCEPT !.resolved = Lookup(c, use.scope, use.name)] ELSE use]
    <3>1. table = [c EXCEPT !.references = found]
      BY <1>1 DEF Patching
    <3>2. found = [i \in DOMAIN c.references |-> found[i]]
      OBVIOUS
    <3> HIDE DEF found
    <3>3. table.references = found
      BY <1>3, <3>1 DEF BuilderType
    <3> QED BY <3>2, <3>3
  <2>2. c.references = [i \in DOMAIN c.references |-> c.references[i]]
    BY <1>3, BuilderIs
  <2> QED BY <1>5, <2>1, <2>2
<1> QED BY <1>3, <1>4, <1>6 DEF Whole, With, BuilderType
----------------------------------------------------------------------------

\* The table is well formed: its scopes are a forest, what owns a name in a
\* scope is declared there and no test entry point, and references lead to
\* symbols that exist.
THEOREM TypesCorrect == Spec => []TypeOK
BY Invariance, TypeFollows, PTL

\* For every text, the table a builder makes has the uses of its mode and
\* resolves each to what the text means by it, whatever the names, the
\* signatures and the number of events are.
THEOREM UsesMeanText == Spec => []UsesAreResolved
BY Invariance, UsesFollow, PTL

\* For every text, a name is reported if and only if its declarations in a
\* scope do not go together.
THEOREM RedeclarationsReported == Spec => []RedeclarationsAreReported
BY Invariance, RedeclarationsFollow, PTL

\* Any number of patches leaves the table a clean build gives, as long as
\* the new names are settled.
THEOREM PatchesAreClean == Spec => []PatchedIsClean
BY Invariance, PatchesFollow, PTL

============================================================================
