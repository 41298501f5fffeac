--------------------------- MODULE ConstantValues ---------------------------
(***************************************************************************)
(* sema/constant.go and sema/constant_order.go: the values of constants    *)
(* and enum members.  Constants are evaluated by recursion, beginning      *)
(* anywhere, because the loop over the candidates follows the order of a   *)
(* Go map.  A value once known is kept; a constant met again while it is   *)
(* being evaluated counts as unknown, and so may those that asked for it.  *)
(* A second pass reports constants that are used before they are declared. *)
(***************************************************************************)
EXTENDS Naturals, Sequences

CONSTANTS
  Count,     \* constants are numbered 1..Count in the order of their text
  Values,    \* 64-bit integers
  Zero,
  Successor, \* Successor[v]: v + 1, which wraps around
  Unknown,   \* no value
  None,      \* a name that is not that of a constant, or no name
  Unary,     \* Unary[op]: what operator op does with a value
  Binary,    \* Binary[op]: what it does with two; dividing by zero is unknown
  Programs   \* programs: a candidate for each constant

VARIABLES
  program,   \* the candidate of each constant
  values,    \* values[id]: the value found for id
  visiting,  \* constants being evaluated
  stack,     \* the calls of value(id) under way, innermost last
  todo,      \* candidates the loop has not come to
  cancelled, \* a poll has seen that the context is cancelled
  outcome    \* "none" until the function returns

vars == <<program, values, visiting, stack, todo, cancelled, outcome>>

Ids == 1..Count
Named == Ids \cup {None}
Answers == Values \cup {Unknown}

\* A candidate: an enum member without a value, after another or not; or an
\* expression.  An operand that is an expression again stands here as a
\* constant of its own, used once and declared just before.
Implicits == [kind : {"implicit"}, previous : Named]
Literals == [kind : {"literal"}, value : Answers]
Unaries == [kind : {"unary"}, operand : Named, op : DOMAIN Unary]
Binaries ==
  [kind : {"binary"}, left : Named, right : Named, op : DOMAIN Binary]
Choices ==
  [kind : {"choice"}, condition : Named, consequence : Named, alternative : Named]
Candidates == Implicits \cup Literals \cup Unaries \cup Binaries \cup Choices

ASSUME CountAssumption == Count \in Nat
ASSUME ValuesAssumption ==
  /\ Zero \in Values /\ Unknown \notin Values /\ None \notin Ids
  /\ Successor \in [Values -> Values]
  /\ \A op \in DOMAIN Unary : Unary[op] \in [Values -> Answers]
  /\ \A op \in DOMAIN Binary : Binary[op] \in [Values \X Values -> Answers]
\* The member before an enum member is before it in the text.
ASSUME ProgramsAssumption ==
  \A p \in Programs :
    /\ p \in [Ids -> Candidates]
    /\ \A id \in Ids : p[id].kind = "implicit" /\ p[id].previous # None
                         => p[id].previous < id
----------------------------------------------------------------------------
(* Evaluation: constantEvaluator and the closure value.                    *)

Condition(got) == IF got[1] # Zero THEN "consequence" ELSE "alternative"
AlwaysDecided(got) == TRUE  \* a slip: an unknown condition is taken for true
Decided(got) == got[1] # Unknown

\* The names that an evaluation with these answers asks for next: one, or
\* none.  Both operands are evaluated, but only one branch of a ?:.
Asks(c, got) ==
  CASE c.kind = "implicit" -> IF got = <<>> THEN {c.previous} \ {None} ELSE {}
    [] c.kind = "literal"  -> {}
    [] c.kind = "unary"    -> IF got = <<>> THEN {c.operand} ELSE {}
    [] c.kind = "binary"   -> IF got = <<>> THEN {c.left}
                              ELSE IF Len(got) = 1 THEN {c.right} ELSE {}
    [] c.kind = "choice"   -> IF got = <<>> THEN {c.condition}
                              ELSE IF Len(got) = 1 /\ Decided(got) THEN {c[Condition(got)]}
                              ELSE {}

\* Its result when it asks for no more.
Result(c, got) ==
  CASE c.kind = "implicit" -> IF got = <<>> THEN Zero
                              ELSE IF got[1] = Unknown THEN Unknown ELSE Successor[got[1]]
    [] c.kind = "literal"  -> c.value
    [] c.kind = "unary"    -> IF got[1] = Unknown THEN Unknown ELSE Unary[c.op][got[1]]
    [] c.kind = "binary"   -> IF Unknown \in {got[1], got[2]} THEN Unknown
                              ELSE Binary[c.op][<<got[1], got[2]>>]
    [] c.kind = "choice"   -> IF Len(got) = 2 THEN got[2] ELSE Unknown

Top == stack[Len(stack)]
Asked == Asks(program[Top.id], Top.got)
Running == outcome = "none"

Frame(id) == [id |-> id, got |-> <<>>]
Answered(s, answer) ==
  IF s = <<>> THEN s
  ELSE [s EXCEPT ![Len(s)].got = Append(@, answer)]

\* value(id) begins to evaluate, unless it can answer at once.
EvaluatesAgain(id) ==  \* a slip: no check for constants being evaluated
  ~cancelled /\ id \in Ids /\ values[id] = Unknown
Evaluates(id) == EvaluatesAgain(id) /\ id \notin visiting
AtOnceName(id) ==  \* a slip: what stands for no name is no value
  IF ~cancelled /\ id \in Ids THEN values[id] ELSE None
AtOnce(id) == IF ~cancelled /\ id \in Ids THEN values[id] ELSE Unknown

Init ==
  /\ program \in Programs
  /\ values = [id \in Ids |-> Unknown]
  /\ visiting = {} /\ stack = <<>> /\ todo = Ids
  /\ cancelled = FALSE /\ outcome = "none"

Push(id) ==
  /\ Evaluates(id)
  /\ visiting' = visiting \cup {id} /\ stack' = Append(stack, Frame(id))

\* The loop over the candidates comes to id.
Begin(id) ==
  /\ Running /\ stack = <<>> /\ id \in todo
  /\ todo' = todo \ {id}
  /\ \/ Push(id)
     \/ ~Evaluates(id) /\ UNCHANGED <<visiting, stack>>
  /\ UNCHANGED <<program, values, cancelled, outcome>>

\* The innermost evaluation asks for a name.
Ask ==
  /\ stack # <<>>
  /\ \E id \in Asked :
       \/ Push(id)
       \/ /\ ~Evaluates(id)
          /\ stack' = Answered(stack, AtOnce(id)) /\ UNCHANGED visiting
  /\ UNCHANGED <<program, values, todo, cancelled, outcome>>

\* It returns its result, and keeps it if it is known.
Finish ==
  LET result == Result(program[Top.id], Top.got)
      rest == SubSeq(stack, 1, Len(stack) - 1)
  IN /\ stack # <<>> /\ Asked = {}
     /\ visiting' = visiting \ {Top.id}
     /\ values' = [values EXCEPT ![Top.id] = result]
     /\ stack' = Answered(rest, result)
     /\ UNCHANGED <<program, todo, cancelled, outcome>>

\* A poll sees that the context is cancelled: from now on value is unknown.
Cancel ==
  /\ Running /\ ~cancelled /\ cancelled' = TRUE
  /\ UNCHANGED <<program, values, visiting, stack, todo, outcome>>

\* The values, or only the error.
Return ==
  /\ Running /\ stack = <<>> /\ (todo = {} \/ cancelled)
  /\ outcome' = IF cancelled THEN "error" ELSE "values"
  /\ UNCHANGED <<program, values, visiting, stack, todo, cancelled>>

Next == (\E id \in Ids : Begin(id)) \/ Ask \/ Finish \/ Cancel \/ Return

\* One goroutine calls and returns and waits for nothing.
Spec == Init /\ [][Next]_vars
----------------------------------------------------------------------------
(* The order of declarations: checkConstantOrder.                          *)

\* All names of an explicit expression, evaluated or not.
Mentions(c) ==
  CASE c.kind = "unary"  -> {c.operand}
    [] c.kind = "binary" -> {c.left, c.right}
    [] c.kind = "choice" -> {c.condition, c.consequence, c.alternative}
    [] OTHER -> {}
TooEarlyButItself(used, id) == used > id  \* a slip: it may use itself
\* A constant may be used only after its declaration, hence not in it.
TooEarly(used, id) == used >= id
OutOfOrder ==
  {use \in Ids \X Ids : use[2] \in Mentions(program[use[1]]) /\ TooEarly(use[2], use[1])}
----------------------------------------------------------------------------
(* What a constant means, without an order of evaluation.                  *)

\* v follows for id from the facts S about others.
Follows(S, id, v) ==
  LET c == program[id]
  IN CASE c.kind = "implicit" ->
            IF c.previous = None THEN v = Zero
            ELSE \E w \in Values : <<c.previous, w>> \in S /\ v = Successor[w]
       [] c.kind = "literal" -> v = c.value
       [] c.kind = "unary" -> \E w \in Values : <<c.operand, w>> \in S /\ v = Unary[c.op][w]
       [] c.kind = "binary" ->
            \E w, u \in Values :
              <<c.left, w>> \in S /\ <<c.right, u>> \in S /\ v = Binary[c.op][<<w, u>>]
       [] c.kind = "choice" ->
            \/ <<c.consequence, v>> \in S
                 /\ \E w \in Values \ {Zero} : <<c.condition, w>> \in S
            \/ <<c.alternative, v>> \in S /\ <<c.condition, Zero>> \in S
\* The least relation that holds whatever follows from it.
Closed(S) == \A id \in Ids : \A v \in Values : Follows(S, id, v) => <<id, v>> \in S
Means(id, v) == \A S \in SUBSET (Ids \X Values) : Closed(S) => <<id, v>> \in S
----------------------------------------------------------------------------
(* Properties.                                                             *)

\* Calls are calls.
TypeOK ==
  /\ program \in [Ids -> Candidates] /\ values \in [Ids -> Answers]
  /\ visiting \subseteq Ids /\ todo \subseteq Ids
  /\ stack \in Seq([id : Ids, got : Seq(Answers)])
  /\ cancelled \in BOOLEAN /\ outcome \in {"none", "values", "error"}

\* Whichever constant the loop begins with, and whatever part of a cycle it
\* meets first, the values returned are those that the declarations give:
\* every one of them, and no other (ResolveConstants, constant.go:168).
ValuesAreExact ==
  outcome = "values" =>
    \A id \in Ids : \A v \in Values : values[id] = v <=> Means(id, v)

\* No constant is evaluated inside its own evaluation, so that the recursion
\* is no deeper than there are constants.
RecursionEnds == \A i, j \in DOMAIN stack : stack[i].id = stack[j].id => i = j

\* A constant that is unknown because it is used in its own evaluation is
\* never unknown silently: the check of the order, a pass that knows nothing
\* of evaluation, reports an error at one of the uses that close this cycle,
\* and not only somewhere in the program.
CyclesAreReported ==
  stack # <<>> =>
    \A id \in Asked \cap visiting :
      \E i \in DOMAIN stack :
        /\ stack[i].id = id
        /\ \E j \in i..Len(stack) :
             <<stack[j].id, IF j = Len(stack) THEN id ELSE stack[j + 1].id>> \in OutOfOrder
=============================================================================
