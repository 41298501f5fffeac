------------------------ MODULE FunctionFactsProofs ------------------------
(***************************************************************************)
(* Proofs about FunctionFacts, for every set of functions, every program   *)
(* and every host: whatever the order of visits, the facts in the end are  *)
(* exact.                                                                  *)
(*                                                                         *)
(* FactsAreExact speaks of the end only.  The inductive invariant Inv says *)
(* what holds on the way: facts lie between the direct ones and the        *)
(* effects that reach the function, and a function is given up only for a  *)
(* reason; and while a pass has changed nothing, the functions it has      *)
(* visited need no change.  In the end the facts thus are a fixed point,   *)
(* and the least relations of the definition lie below it.                 *)
(***************************************************************************)
EXTENDS FunctionFacts, TLAPS

\* Facts hold nothing that does not reach the function.
Below == \A f \in Functions : \A e \in result[f].effects : Has(f, e)
\* They hold what the function does itself.
Above ==
  \A f \in Functions :
    /\ Direct(program[f]).effects \subseteq result[f].effects
    /\ result[f].complete => Direct(program[f]).complete
\* A function is given up only for a reason.
Excused == \A f \in Functions : ~result[f].complete => Doubtful(f)
\* While a pass has changed nothing, what it has visited needs no change.
Settled ==
  ~changed => \A f \in Functions \ todo : Resolved(result, program[f], f) = result[f]
Finished == done => todo = {} /\ ~changed
Inv == TypeOK /\ Below /\ Above /\ Excused /\ Settled /\ Finished
----------------------------------------------------------------------------
(* The operators.                                                          *)

\* A position that a symbol has is the position of a parameter.
LEMMA PositionsKnown ==
  ASSUME program \in Programs, NEW f \in Functions
  PROVE  /\ Mutable(program[f]) \subseteq Positions
         /\ \A id : Position(program[f], id) \subseteq Positions
BY PositionsAssumption DEF Mutable, Position

\* The source of a function is one.
LEMMA SourceType ==
  ASSUME program \in Programs, NEW f \in Functions
  PROVE  program[f] \in Sources
BY ProgramsAssumption

\* The constructors make effects.
LEMMA Constructors ==
  /\ Impure \in Effects
  /\ \A g \in Globals : Read(g) \in Effects /\ Write(g) \in Effects
  /\ \A i \in Positions : Mutate(i) \in Effects
BY DEF Effects, Read, Write, Mutate, Impure

\* A reference to a variable has effects.
LEMMA AccessType ==
  ASSUME program \in Programs, NEW f \in Functions, NEW a
  PROVE  AccessEffects(program[f], a) \in SUBSET Effects
<1>1. \A i \in Position(program[f], a.symbol) : Mutate(i) \in Effects
  BY PositionsKnown, Constructors
<1> QED BY <1>1, Constructors DEF AccessEffects

\* Direct facts are facts.
LEMMA DirectType ==
  ASSUME program \in Programs, NEW f \in Functions
  PROVE  Direct(program[f]) \in Facts
<1> DEFINE s == program[f]
<1>1. CASE s.prototype
  <2>1. {Impure} \cup {Mutate(i) : i \in Mutable(s)} \in SUBSET Effects
    BY PositionsKnown, Constructors
  <2> QED BY <1>1, <2>1 DEF Direct, Facts
<1>2. CASE ~s.prototype
  <2> DEFINE referred == UNION {AccessEffects(s, a) : a \in s.accesses}
             state == IF s.stateful THEN {Impure} ELSE {}
  <2>1. referred \subseteq Effects
    BY AccessType
  <2>2. state \subseteq Effects
    BY Constructors
  <2>3. s.clear \in BOOLEAN
    BY SourceType DEF Sources
  <2>4. Direct(s) = [complete |-> s.clear, effects |-> referred \cup state]
    BY <1>2, Zenon DEF Direct
  <2> HIDE DEF referred, state
  <2> QED BY <2>1, <2>2, <2>3, <2>4 DEF Facts
<1> QED BY <1>1, <1>2

\* An effect of a callee is effects of the caller.
LEMMA ThroughType ==
  ASSUME program \in Programs, NEW f \in Functions, NEW c, NEW e \in Effects
  PROVE  Through(program[f], c, e) \in SUBSET Effects
<1>1. \A i \in Position(program[f], Passed(c, e)) : Mutate(i) \in Effects
  BY PositionsKnown, Constructors
<1> QED BY <1>1, Constructors DEF Through

\* Whatever is called has facts.
LEMMA FactsOfType ==
  ASSUME TypeOK, NEW g
  PROVE  FactsOf(result, g) \in Facts
<1>1. Unknown \in Facts
  BY DEF Unknown, Facts
<1>2. Outside(g) \in Facts
  BY <1>1, ExternalAssumption DEF Outside
<1> QED BY <1>2 DEF FactsOf, TypeOK

\* A visit yields facts, adds to them and completes nothing.
LEMMA ResolvedType ==
  ASSUME TypeOK, NEW f \in Functions
  PROVE  LET new == Resolved(result, program[f], f)
         IN /\ new \in Facts
            /\ result[f].effects \subseteq new.effects
            /\ new.complete => result[f].complete
<1> DEFINE s == program[f]
           usable == {c \in CallSites(s) : FactsOf(result, c.function).complete}
           arriving(c) == FactsOf(result, c.function).effects
           carried(c) == UNION {Through(s, c, e) : e \in arriving(c)}
           added == UNION {carried(c) : c \in usable}
           whole == /\ result[f].complete /\ usable = CallSites(s)
                    /\ \A c \in usable : \A e \in arriving(c) : ~Lost(c, e)
<1>1. Resolved(result, s, f) =
        [complete |-> whole, effects |-> result[f].effects \cup added]
  BY DEF Resolved
<1>2. result[f] \in Facts
  BY DEF TypeOK
<1>3. \A c : arriving(c) \subseteq Effects
  BY FactsOfType DEF Facts
<1>4. \A c : carried(c) \subseteq Effects
  <2>1. program \in Programs
    BY DEF TypeOK
  <2>2. \A c : \A e \in Effects : Through(s, c, e) \subseteq Effects
    BY <2>1, ThroughType
  <2> QED BY <1>3, <2>2
<1>5. added \subseteq Effects
  BY <1>4
<1>6. whole \in BOOLEAN /\ (whole => result[f].complete)
  BY <1>2, Zenon DEF Facts
<1> HIDE DEF whole, added
<1> QED BY <1>1, <1>2, <1>5, <1>6 DEF Facts

\* The parts of what a visit yields, one by one.
LEMMA ResolvedEffects ==
  ASSUME TypeOK, NEW f \in Functions
  PROVE  LET new == Resolved(result, program[f], f)
         IN /\ \A x \in new.effects :
                 \/ x \in result[f].effects
                 \/ \E c \in CallSites(program[f]) :
                      \E e \in FactsOf(result, c.function).effects :
                        x \in Through(program[f], c, e)
            /\ \A c \in CallSites(program[f]) :
                 FactsOf(result, c.function).complete =>
                   \A e \in FactsOf(result, c.function).effects :
                     Through(program[f], c, e) \subseteq new.effects
BY DEF Resolved

\* Why a visit leaves a function complete, or gives it up.
LEMMA ResolvedComplete ==
  ASSUME TypeOK, NEW f \in Functions
  PROVE  Resolved(result, program[f], f).complete <=>
           /\ result[f].complete
           /\ \A c \in CallSites(program[f]) :
                /\ FactsOf(result, c.function).complete
                /\ \A e \in FactsOf(result, c.function).effects : ~Lost(c, e)
<1> DEFINE s == program[f]
           usable == {c \in CallSites(s) : FactsOf(result, c.function).complete}
<1>1. Resolved(result, s, f).complete <=>
        /\ result[f].complete /\ usable = CallSites(s)
        /\ \A c \in usable :
             \A e \in FactsOf(result, c.function).effects : ~Lost(c, e)
  <2> DEFINE whole == /\ result[f].complete /\ usable = CallSites(s)
                      /\ \A c \in usable :
                           \A e \in FactsOf(result, c.function).effects : ~Lost(c, e)
             after == Resolved(result, s, f).effects
  <2>1. Resolved(result, s, f) = [complete |-> whole, effects |-> after]
    BY DEF Resolved
  <2> HIDE DEF whole, after
  <2>2. Resolved(result, s, f).complete = whole
    BY <2>1
  <2> QED BY <2>2 DEF whole
<1>2. usable = CallSites(s) <=>
        \A c \in CallSites(s) : FactsOf(result, c.function).complete
  OBVIOUS
<1>3. CASE usable = CallSites(s)
  BY <1>1, <1>2, <1>3
<1>4. CASE usable # CallSites(s)
  <2>1. ~ Resolved(result, s, f).complete
    BY <1>1, <1>4
  <2> QED BY <2>1, <1>2, <1>4
<1> QED BY <1>3, <1>4
----------------------------------------------------------------------------
(* The meaning of facts.                                                   *)

\* What a function does itself reaches it.
LEMMA HasDirect ==
  ASSUME NEW f \in Functions, NEW e \in Direct(program[f]).effects
  PROVE  Has(f, e)
BY DEF Has, Closed

\* What arrives with a call reaches the caller.
LEMMA HasThrough ==
  ASSUME NEW f \in Functions, NEW c \in CallSites(program[f]),
         NEW e \in Effects, Arrives(c, e), NEW x \in Through(program[f], c, e)
  PROVE  Has(f, x)
<1>1. SUFFICES ASSUME NEW S \in SUBSET (Functions \X Effects), Closed(S)
               PROVE  <<f, x>> \in S
  BY DEF Has
<1>2. IF c.function \in Functions THEN <<c.function, e>> \in S
      ELSE e \in Outside(c.function).effects
  BY <1>1 DEF Arrives, Has
<1> QED BY <1>1, <1>2 DEF Closed

\* What a callee is known to have arrives with a call of it.
LEMMA KnownArrives ==
  ASSUME TypeOK, Below, NEW c, NEW e \in FactsOf(result, c.function).effects
  PROVE  e \in Effects /\ Arrives(c, e)
<1>1. e \in Effects
  BY FactsOfType DEF Facts
<1> QED BY <1>1 DEF FactsOf, Arrives, Below
----------------------------------------------------------------------------
(* The invariant.                                                          *)

\* A visit of f gives it up only for a reason.
LEMMA ResolvedExcused ==
  ASSUME TypeOK, Below, Excused, NEW f \in Functions,
         ~Resolved(result, program[f], f).complete
  PROVE  Doubtful(f)
<1>1. SUFFICES ASSUME NEW D \in SUBSET Functions, Spreads(D)
               PROVE  f \in D
  BY DEF Doubtful
<1>2. CASE ~result[f].complete
  BY <1>1, <1>2 DEF Excused, Doubtful
<1>3. ASSUME NEW c \in CallSites(program[f]),
             ~FactsOf(result, c.function).complete
      PROVE  f \in D
  <2>1. IF c.function \in Functions THEN c.function \in D
        ELSE ~Outside(c.function).complete
    BY <1>1, <1>3 DEF FactsOf, Excused, Doubtful
  <2> QED BY <1>1, <2>1 DEF Spreads
<1>4. ASSUME NEW c \in CallSites(program[f]),
             NEW e \in FactsOf(result, c.function).effects, Lost(c, e)
      PROVE  f \in D
  <2>1. e \in Effects /\ Arrives(c, e)
    BY KnownArrives
  <2> QED BY <1>1, <1>4, <2>1 DEF Spreads
<1> QED BY <1>2, <1>3, <1>4, ResolvedComplete

\* It adds only what reaches f.
LEMMA ResolvedBelow ==
  ASSUME TypeOK, Below, NEW f \in Functions,
         NEW x \in Resolved(result, program[f], f).effects
  PROVE  Has(f, x)
<1>1. CASE x \in result[f].effects
  BY <1>1 DEF Below
<1>2. ASSUME NEW c \in CallSites(program[f]),
             NEW e \in FactsOf(result, c.function).effects,
             x \in Through(program[f], c, e)
      PROVE  Has(f, x)
  BY <1>2, KnownArrives, HasThrough
<1> QED BY <1>1, <1>2, ResolvedEffects

\* What a program means stays while the program stays.
LEMMA MeaningStays ==
  ASSUME UNCHANGED program
  PROVE  \A f, e : (Has(f, e)' <=> Has(f, e)) /\ (Doubtful(f)' <=> Doubtful(f))
<1>1. \A S : Closed(S)' <=> Closed(S)
  BY DEF Closed
<1>2. \A f, e : Has(f, e)' <=> Has(f, e)
  BY <1>1 DEF Has
<1>3. \A c, e : Arrives(c, e)' <=> Arrives(c, e)
  BY <1>2 DEF Arrives
<1>4. \A D : Spreads(D)' <=> Spreads(D)
  BY <1>3 DEF Spreads
<1> QED BY <1>2, <1>4 DEF Doubtful

\* The invariant holds of the direct facts.
LEMMA InitInv == Init => Inv
<1> SUFFICES ASSUME Init PROVE Inv
  OBVIOUS
<1>1. program \in Programs /\ todo = Functions /\ changed = FALSE /\ done = FALSE
  BY DEF Init
<1>2. result = [f \in Functions |-> Direct(program[f])]
  BY DEF Init
<1>3. TypeOK
  <2>1. \A f \in Functions : Direct(program[f]) \in Facts
    BY <1>1, DirectType
  <2> QED BY <1>1, <1>2, <2>1 DEF TypeOK
<1>4. Below
  BY <1>2, HasDirect DEF Below
<1>5. Above
  BY <1>2 DEF Above
<1>6. Excused
  BY <1>2 DEF Excused, Doubtful, Spreads
<1> QED BY <1>1, <1>3, <1>4, <1>5, <1>6 DEF Inv, Settled, Finished

\* A visit keeps the invariant.
LEMMA VisitInv ==
  ASSUME Inv, NEW f \in Functions, Visit(f)
  PROVE  Inv'
<1> DEFINE new == Resolved(result, program[f], f)
<1>1. TypeOK /\ Below /\ Above /\ Excused /\ Settled /\ Finished
  BY DEF Inv
<1>2. /\ f \in todo /\ todo' = todo \ {f} /\ result' = [result EXCEPT ![f] = new]
      /\ changed' = (changed \/ new # result[f]) /\ UNCHANGED <<program, done>>
  BY DEF Visit, Changed
<1>3. /\ new \in Facts /\ result[f].effects \subseteq new.effects
      /\ new.complete => result[f].complete
  BY <1>1, ResolvedType
<1>4. \A x \in new.effects : Has(f, x)
  BY <1>1, ResolvedBelow
<1>5. ~new.complete => Doubtful(f)
  BY <1>1, ResolvedExcused
<1>6. \A g \in Functions : result'[g] = IF g = f THEN new ELSE result[g]
  BY <1>1, <1>2 DEF TypeOK
<1>7. \A g, e : (Has(g, e)' <=> Has(g, e)) /\ (Doubtful(g)' <=> Doubtful(g))
  BY <1>2, MeaningStays
<1> HIDE DEF new
<1>8. TypeOK'
  BY <1>1, <1>2, <1>3 DEF TypeOK
<1>9. Below'
  BY <1>1, <1>4, <1>6, <1>7 DEF Below
<1>10. Above'
  BY <1>1, <1>2, <1>3, <1>6 DEF Above
<1>11. Excused'
  BY <1>1, <1>5, <1>6, <1>7 DEF Excused
<1>12. Settled'
  <2>1. SUFFICES ASSUME ~changed', NEW g \in Functions \ todo'
                 PROVE  Resolved(result, program[g], g)' = result'[g]
    BY DEF Settled
  <2>2. ~changed /\ new = result[f]
    BY <1>1, <1>2, <2>1 DEF TypeOK
  <2>3. result' = result
    BY <1>1, <1>2, <2>2 DEF TypeOK
  <2>4. Resolved(result, program[g], g)' = Resolved(result, program[g], g)
    BY <1>2, <2>3
  <2>5. Resolved(result, program[g], g) = result[g]
    BY <1>1, <1>2, <2>1, <2>2 DEF Settled, new
  <2> QED BY <2>3, <2>4, <2>5
<1>13. Finished'
  BY <1>1, <1>2 DEF Finished
<1> QED BY <1>8, <1>9, <1>10, <1>11, <1>12, <1>13 DEF Inv

\* So do the steps that leave the facts alone.
LEMMA OtherInv ==
  ASSUME Inv, NextPass \/ Return \/ UNCHANGED vars
  PROVE  Inv'
<1>1. TypeOK /\ Below /\ Above /\ Excused /\ Settled /\ Finished
  BY DEF Inv
<1>2. UNCHANGED <<program, result>>
  BY DEF NextPass, Return, vars
<1>3. TypeOK' /\ Finished'
  <2>1. CASE NextPass
    BY <1>1, <2>1, Zenon DEF TypeOK, Finished, NextPass
  <2>2. CASE Return
    BY <1>1, <2>2, Zenon DEF TypeOK, Finished, Return
  <2>3. CASE UNCHANGED vars
    BY <1>1, <2>3, Zenon DEF TypeOK, Finished, vars
  <2> QED BY <2>1, <2>2, <2>3
<1>4. \A g, e : (Has(g, e)' <=> Has(g, e)) /\ (Doubtful(g)' <=> Doubtful(g))
  BY <1>2, MeaningStays
<1>5. Below'
  BY <1>1, <1>2, <1>4 DEF Below
<1>6. Above'
  BY <1>1, <1>2 DEF Above
<1>7. Excused'
  BY <1>1, <1>2, <1>4 DEF Excused
<1>8. Settled'
  <2>1. SUFFICES ASSUME ~changed', NEW g \in Functions \ todo'
                 PROVE  Resolved(result, program[g], g)' = result'[g]
    BY DEF Settled
  <2>2. ~changed /\ g \in Functions \ todo
    BY <2>1 DEF NextPass, Return, vars
  <2>3. Resolved(result, program[g], g) = result[g]
    BY <1>1, <2>2 DEF Settled
  <2>4. Resolved(result, program[g], g)' = Resolved(result, program[g], g)
    BY <1>2
  <2> QED BY <1>2, <2>3, <2>4
<1> QED BY <1>3, <1>5, <1>6, <1>7, <1>8 DEF Inv

\* What holds on the way: facts between the direct ones and the effects that
\* reach a function, whichever function the loop comes to next.
THEOREM Invariance == Spec => []Inv
<1>1. Inv /\ [Next]_vars => Inv'
  BY VisitInv, OtherInv DEF Next
<1> QED BY InitInv, <1>1, PTL DEF Spec

\* Facts stay facts.
THEOREM TypesCorrect == Spec => []TypeOK
<1>1. Inv => TypeOK
  BY DEF Inv
<1> QED BY <1>1, Invariance, PTL

\* In the end a function's facts are a fixed point: the effects of its
\* callees are among its own, if it is complete, and then they are too.
LEMMA FixedPoint ==
  ASSUME Inv, done, NEW f \in Functions, result[f].complete,
         NEW c \in CallSites(program[f])
  PROVE  /\ FactsOf(result, c.function).complete
         /\ \A e \in FactsOf(result, c.function).effects :
              ~Lost(c, e) /\ Through(program[f], c, e) \subseteq result[f].effects
<1>1. TypeOK /\ Resolved(result, program[f], f) = result[f]
  BY DEF Inv, Settled, Finished
<1>2. /\ FactsOf(result, c.function).complete
      /\ \A e \in FactsOf(result, c.function).effects : ~Lost(c, e)
  BY <1>1, ResolvedComplete
<1> QED BY <1>1, <1>2, ResolvedEffects

\* Then a complete function has every effect that reaches it.
LEMMA AllFound ==
  ASSUME Inv, done, NEW f \in Functions, result[f].complete,
         NEW e \in Effects, Has(f, e)
  PROVE  e \in result[f].effects
<1> DEFINE S == {p \in Functions \X Effects :
                   result[p[1]].complete => p[2] \in result[p[1]].effects}
<1>1. TypeOK /\ Above
  BY DEF Inv
<1>2. ASSUME NEW g \in Functions, NEW x \in Direct(program[g]).effects
      PROVE  <<g, x>> \in S
  <2>1. x \in Effects
    BY <1>1, DirectType DEF TypeOK, Facts
  <2> QED BY <1>1, <2>1 DEF Above
<1>3. ASSUME NEW g \in Functions, NEW c \in CallSites(program[g]), NEW x \in Effects,
             IF c.function \in Functions THEN <<c.function, x>> \in S
             ELSE x \in Outside(c.function).effects,
             NEW y \in Through(program[g], c, x)
      PROVE  <<g, y>> \in S
  <2>1. y \in Effects
    BY <1>1, ThroughType DEF TypeOK
  <2>2. CASE result[g].complete
    <3>1. FactsOf(result, c.function).complete
      BY <2>2, FixedPoint
    <3>2. x \in FactsOf(result, c.function).effects
      BY <1>3, <3>1 DEF FactsOf
    <3>3. y \in result[g].effects
      BY <2>2, <3>2, FixedPoint
    <3> QED BY <2>1, <3>3
  <2> QED BY <2>1, <2>2
<1>4. S \in SUBSET (Functions \X Effects)
  OBVIOUS
<1> HIDE DEF S
<1>5. Closed(S)
  BY <1>2, <1>3 DEF Closed
<1>6. <<f, e>> \in S
  BY <1>4, <1>5 DEF Has
<1> QED BY <1>6 DEF S

\* And the incomplete functions are those that could not be avoided.
LEMMA NoneGivenUp ==
  ASSUME Inv, done, NEW f \in Functions, Doubtful(f)
  PROVE  ~result[f].complete
<1> DEFINE D == {g \in Functions : ~result[g].complete}
<1>1. TypeOK /\ Above
  BY DEF Inv
<1>2. ASSUME NEW g \in Functions, g \notin D
      PROVE  /\ Direct(program[g]).complete
             /\ \A c \in CallSites(program[g]) :
                  /\ IF c.function \in Functions THEN c.function \notin D
                     ELSE Outside(c.function).complete
                  /\ \A e \in Effects : Lost(c, e) => ~Arrives(c, e)
  <2>1. result[g].complete /\ Direct(program[g]).complete
    BY <1>1, <1>2 DEF Above
  <2>2. SUFFICES ASSUME NEW c \in CallSites(program[g])
                 PROVE  /\ IF c.function \in Functions THEN c.function \notin D
                           ELSE Outside(c.function).complete
                        /\ \A e \in Effects : Lost(c, e) => ~Arrives(c, e)
    BY <2>1
  <2>3. /\ FactsOf(result, c.function).complete
        /\ \A e \in FactsOf(result, c.function).effects : ~Lost(c, e)
    BY <2>1, FixedPoint
  <2>4. ASSUME NEW e \in Effects, Arrives(c, e)
        PROVE  e \in FactsOf(result, c.function).effects
    BY <2>3, <2>4, AllFound DEF FactsOf, Arrives
  <2> QED BY <2>3, <2>4 DEF FactsOf
<1>3. D \in SUBSET Functions
  OBVIOUS
<1> HIDE DEF D
<1>4. Spreads(D)
  BY <1>2 DEF Spreads
<1>5. f \in D
  BY <1>3, <1>4 DEF Doubtful
<1> QED BY <1>5 DEF D

\* Whatever the order of visits, the facts in the end are the effects that
\* reach a function, and only what is in doubt is given up.
THEOREM FactsAlwaysExact == Spec => []FactsAreExact
<1>1. Inv => FactsAreExact
  <2>1. SUFFICES ASSUME Inv, done, NEW f \in Functions
                 PROVE  /\ result[f].complete <=> ~Doubtful(f)
                        /\ result[f].complete =>
                             \A e \in Effects : e \in result[f].effects <=> Has(f, e)
    BY DEF FactsAreExact
  <2>2. result[f].complete <=> ~Doubtful(f)
    BY <2>1, NoneGivenUp DEF Inv, Excused
  <2>3. result[f].complete =>
          \A e \in Effects : e \in result[f].effects <=> Has(f, e)
    BY <2>1, AllFound DEF Inv, Below
  <2> QED BY <2>2, <2>3
<1> QED BY <1>1, Invariance, PTL
============================================================================
