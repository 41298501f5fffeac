--------------------------- MODULE FunctionFacts ---------------------------
(***************************************************************************)
(* sema/function_facts.go: what a function reads and writes, collected     *)
(* from its own body and then propagated through calls until a whole pass  *)
(* over all functions changes nothing.  A pass visits the functions in the *)
(* order of a Go map, which is any order, and updates them in place.       *)
(***************************************************************************)
EXTENDS Naturals, Sequences

CONSTANTS
  Functions,   \* callable symbols declared in the file
  Globals,     \* variables of file scope
  Constant,    \* those of them that are const
  Locals,      \* other symbols: parameters and local variables
  Positions,   \* positions of parameters
  Names,       \* other callees: not declared, or without facts
  External,    \* External[n]: facts of callee n, if the host knows it
  Programs,    \* programs: a source for each function
  None         \* the ID 0: an argument that is not a variable

VARIABLES
  program,  \* the source of each function
  result,   \* result[f]: the facts of f found so far
  todo,     \* functions this pass has not visited yet
  changed,  \* this pass changed the facts of a function
  done      \* the last pass changed nothing

vars == <<program, result, todo, changed, done>>

\* The effects that FunctionFacts has fields for.
Read(g) == <<"read", g>>      \* ReadsGlobals
Write(g) == <<"write", g>>    \* WritesGlobals
MutateFromZero(i) == <<"mutate", i - 1>>  \* a slip: positions of two kinds
Mutate(i) == <<"mutate", i>>  \* MutatedParameters
Impure == <<"impure", None>>  \* IntrinsicImpure
Effects ==
  ({"read", "write"} \X Globals) \cup ({"mutate"} \X Positions) \cup {Impure}
Facts == [complete : BOOLEAN, effects : SUBSET Effects]

\* A function: native or forward (it has no body), or with a body that may
\* hold a macro invocation or a syntax error, a state statement or a static
\* variable, references to variables, and calls.
Parameters == Seq([symbol : Locals, mutable : BOOLEAN])
Accesses == [symbol : Globals \cup Locals, write : BOOLEAN]
Calls ==
  [function : Functions \cup Names, arguments : Seq(Globals \cup Locals \cup {None})]
Sources ==
  [prototype : BOOLEAN, clear : BOOLEAN, stateful : BOOLEAN,
   parameters : Parameters, accesses : SUBSET Accesses, calls : SUBSET Calls]

ASSUME ProgramsAssumption == Programs \subseteq [Functions -> Sources]
ASSUME PositionsAssumption ==
  \A p \in Programs : \A f \in Functions :
    DOMAIN p[f].parameters \subseteq Positions
ASSUME SymbolsAssumption ==
  /\ Globals \cap Locals = {} /\ None \notin Globals \cup Locals
  /\ Constant \subseteq Globals
ASSUME ExternalAssumption ==
  /\ Functions \cap Names = {} /\ DOMAIN External \subseteq Names
  /\ \A n \in DOMAIN External :  \* CallEffects
       /\ External[n] \in Facts
       /\ External[n].effects \subseteq ({"mutate"} \X Positions) \cup {Impure}
----------------------------------------------------------------------------
(* Direct facts: buildFunctionFacts.                                       *)

\* Positions of the parameters that are references or mutable arrays.
Mutable(s) == {i \in DOMAIN s.parameters : s.parameters[i].mutable}
\* The same, of the parameter that a symbol is.
Position(s, id) == {i \in Mutable(s) : s.parameters[i].symbol = id}

\* applyReferenceFacts.  An update (+=, ++) counts as a write.
AccessEffects(s, a) ==
  (IF a.write THEN {Mutate(i) : i \in Position(s, a.symbol)} ELSE {})
    \cup (IF a.symbol \notin Globals THEN {}
          ELSE IF a.write THEN {Write(a.symbol)}
          ELSE IF a.symbol \in Constant THEN {} ELSE {Read(a.symbol)})

\* collectFunctionFacts; a function without a body does the worst it can.
Direct(s) ==
  IF s.prototype
  THEN [complete |-> TRUE, effects |-> {Impure} \cup {Mutate(i) : i \in Mutable(s)}]
  ELSE [complete |-> s.clear,
        effects |-> (UNION {AccessEffects(s, a) : a \in s.accesses})
                      \cup (IF s.stateful THEN {Impure} ELSE {})]
CallSites(s) == IF s.prototype THEN {} ELSE s.calls
----------------------------------------------------------------------------
(* Propagation: ResolveFunctionFactsWithResolver.                          *)

Unknown == [complete |-> FALSE, effects |-> {}]
Outside(n) == IF n \in DOMAIN External THEN External[n] ELSE Unknown
FactsOf(known, f) == IF f \in Functions THEN known[f] ELSE Outside(f)

\* propagateMutations: the symbol passed for a parameter, if it is known.
Passed(call, e) ==
  IF e[2] \in DOMAIN call.arguments THEN call.arguments[e[2]] ELSE None
Lost(call, e) == e[1] = "mutate" /\ Passed(call, e) = None

\* What an effect e of the callee is for the caller.
Through(s, call, e) ==
  IF e[1] # "mutate" THEN {e}
  ELSE {Mutate(i) : i \in Position(s, Passed(call, e))}
         \cup {Write(g) : g \in {Passed(call, e)} \cap Globals}

\* One visit of f.  The effects of an incomplete callee are not taken over.
Resolved(known, s, f) ==
  LET usable == {c \in CallSites(s) : FactsOf(known, c.function).complete}
      arriving(c) == FactsOf(known, c.function).effects
  IN [complete |-> /\ known[f].complete /\ usable = CallSites(s)
                   /\ \A c \in usable : \A e \in arriving(c) : ~Lost(c, e),
      effects |-> known[f].effects
                    \cup UNION {UNION {Through(s, c, e) : e \in arriving(c)} : c \in usable}]

Init ==
  /\ program \in Programs
  /\ result = [f \in Functions |-> Direct(program[f])]
  /\ todo = Functions /\ changed = FALSE /\ done = FALSE

ChangedFromDirect(new, f) == new # Direct(program[f])  \* a slip: since the start
Changed(new, f) == new # result[f]

\* The loop over the functions comes to f.
Visit(f) ==
  LET new == Resolved(result, program[f], f)
  IN /\ f \in todo /\ todo' = todo \ {f}
     /\ result' = [result EXCEPT ![f] = new]
     /\ changed' = (changed \/ Changed(new, f))
     /\ UNCHANGED <<program, done>>

\* It has visited all: once more, unless nothing changed.
NextPass ==
  /\ todo = {} /\ ~done /\ changed
  /\ todo' = Functions /\ changed' = FALSE
  /\ UNCHANGED <<program, result, done>>

ReturnEarly ==  \* a slip: the last visit decides, not the pass
  /\ todo = {} /\ ~done
  /\ done' = TRUE
  /\ UNCHANGED <<program, result, todo, changed>>

Return ==
  /\ todo = {} /\ ~done /\ ~changed
  /\ done' = TRUE
  /\ UNCHANGED <<program, result, todo, changed>>

Next == (\E f \in Functions : Visit(f)) \/ NextPass \/ Return

\* One goroutine runs the loop and waits for nothing.
Spec == Init /\ [][Next]_vars /\ WF_vars(Next)
----------------------------------------------------------------------------
(* What the facts mean, without an order of visits.                        *)

\* The effects of a function are its own and, through each of its calls,
\* those of the function called: the least relation with this property.
Closed(S) ==
  /\ \A f \in Functions : \A e \in Direct(program[f]).effects : <<f, e>> \in S
  /\ \A f \in Functions : \A c \in CallSites(program[f]) : \A e \in Effects :
       (IF c.function \in Functions THEN <<c.function, e>> \in S
        ELSE e \in Outside(c.function).effects)
         => \A x \in Through(program[f], c, e) : <<f, x>> \in S
Has(f, e) == \A S \in SUBSET (Functions \X Effects) : Closed(S) => <<f, e>> \in S

\* A function cannot be known completely if its own text is not clear, if it
\* calls an unknown function, if an effect of a call meets an argument that
\* is not a variable, or if it calls such a function: the least such set.
Arrives(c, e) ==
  IF c.function \in Functions THEN Has(c.function, e)
  ELSE e \in Outside(c.function).effects
Spreads(D) ==
  \A f \in Functions :
    \/ f \in D
    \/ /\ Direct(program[f]).complete
       /\ \A c \in CallSites(program[f]) :
            /\ IF c.function \in Functions THEN c.function \notin D
               ELSE Outside(c.function).complete
            /\ \A e \in Effects : Lost(c, e) => ~Arrives(c, e)
Doubtful(f) == \A D \in SUBSET Functions : Spreads(D) => f \in D
----------------------------------------------------------------------------
(* Properties.                                                             *)

\* Facts are facts.
TypeOK ==
  /\ program \in Programs /\ result \in [Functions -> Facts]
  /\ todo \subseteq Functions /\ changed \in BOOLEAN /\ done \in BOOLEAN

\* In whatever order the functions are visited, a function is complete in
\* the end exactly if nothing stands in the way, and then its facts are
\* exactly the effects that reach it along chains of calls, recursive ones
\* included: "propagates effects through resolved calls"
\* (function_facts.go:126).
FactsAreExact ==
  done => \A f \in Functions :
    /\ result[f].complete <=> ~Doubtful(f)
    /\ result[f].complete => \A e \in Effects : e \in result[f].effects <=> Has(f, e)

\* The passes come to an end, although recursive functions feed each other.
Terminates == <>done
============================================================================
