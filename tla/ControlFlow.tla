---------------------------- MODULE ControlFlow ----------------------------
(***************************************************************************)
(* cfg/cfg.go: the control-flow graph of a function, and the warning about *)
(* unreachable statements that sema/controlflow.go draws from it.          *)
(*                                                                         *)
(* A body is written statement by statement, its graph is built, and then  *)
(* the body is executed, with every outcome of the conditions whose value  *)
(* is not known.  The meaning of the statements is defined without the     *)
(* graph, so that it can be compared with it.  `break' leaves the          *)
(* innermost loop or switch, as TestBreakExitsSwitch has it.               *)
(***************************************************************************)
EXTENDS Integers, Sequences, FiniteSetsExt

CONSTANTS
  Statements,    \* statements that can be written: kind, test, default, name
  MaxStatements, \* bound of this model: statements and blocks of a body
  End            \* execution has come to the end of the body

ASSUME StatementsAssumption ==
  Statements \subseteq [kind : STRING, parent : {0}, test : {"true", "false", "unknown"},
                        default : BOOLEAN, name : STRING]
ASSUME BoundAssumption == MaxStatements \in Nat
ASSUME EndAssumption == End \notin Int

VARIABLES
  tree,  \* the statements in the order of the text, each with its parent
  graph, \* the graph, once it is built
  pc     \* the statement to be executed next, or End; 0 before execution

vars == <<tree, graph, pc>>

Nodes == DOMAIN tree
Is(n, kind) == tree[n].kind = kind
\* A condition with a known value is evaluated by the builder's eval.
May(n, value) == tree[n].test \in {value, "unknown"}
Parent(n) == tree[n].parent
\* The parts of a statement: the least comes first in the text.
Children(n) == {m \in Nodes : Parent(m) = n}
----------------------------------------------------------------------------
(* The builder.  Blocks of the graph are statements; only { } has none.    *)

\* fragment, together with the edges inside it; 0 is no block.
Fragment(entry, exits, breaks, continues, edges) ==
  [entry |-> entry, exits |-> exits, breaks |-> breaks, continues |-> continues,
   edges |-> edges]
Nothing == Fragment(0, {}, {}, {}, {})
LinkAnything(from, to) == from \X {to}  \* a slip: no check for no block
\* edge: nothing comes from or goes to no block.
Link(from, to) == IF to = 0 THEN {} ELSE from \X {to}

\* What the sequence leaves by: a part that nothing leads into has no exits,
\* unless it is a label.
Exits(result, part, label) == IF result.exits # {} \/ label THEN part.exits ELSE {}

\* sequence: one more part, and the parts of n one after the other.
Then(result, part, label) ==
  IF part.entry = 0 THEN result
  ELSE IF result.entry = 0 THEN part
  ELSE Fragment(result.entry, Exits(result, part, label),
                result.breaks \cup part.breaks, result.continues \cup part.continues,
                result.edges \cup part.edges \cup Link(result.exits, part.entry))
Sequence(n, parts) ==
  LET upTo[i \in n..Len(tree)] ==
        IF i = n THEN Nothing
        ELSE IF Parent(i) # n THEN upTo[i - 1]
        ELSE Then(upTo[i - 1], parts[i], Is(i, "label"))
  IN upTo

\* branch: the consequence and, if there is one, the alternative.
Branch(n, parts) ==
  LET taken == {m \in Children(n) : May(n, IF m = Min(Children(n)) THEN "true" ELSE "false")}
      skipped == IF Cardinality(Children(n)) = 1 /\ May(n, "false") THEN {n} ELSE {}
  IN Fragment(n, skipped \cup UNION {parts[m].exits : m \in taken},
              UNION {parts[m].breaks : m \in taken}, UNION {parts[m].continues : m \in taken},
              (UNION {parts[m].edges : m \in Children(n)})
                \cup (UNION {Link({n}, parts[m].entry) : m \in taken}))

\* switchStatement: its clauses; an empty one leaves at the header.
Switch(n, parts) ==
  LET clauses == {parts[m] : m \in Children(n)}
      unmatched == ~tree[n].default \/ \E p \in clauses : p.entry = 0
      leaving == IF unmatched THEN {n} ELSE {}
  IN Fragment(n, leaving \cup UNION {p.exits \cup p.breaks : p \in clauses},
              {}, UNION {p.continues : p \in clauses},
              UNION {p.edges \cup Link({n}, p.entry) : p \in clauses})

\* loop, for `do': the header is passed before the body.
DoLoop(n, body) ==
  LET tested == body.exits \cup body.continues
  IN Fragment(n, (IF May(n, "false") THEN tested ELSE {}) \cup body.breaks, {}, {},
              body.edges \cup Link({n}, body.entry)
                \cup (IF May(n, "true") THEN Link(tested, n) ELSE {}))
\* loop, for `while' and `for'.
WhileLoop(n, body) ==
  LET entered == May(n, "true")
  IN Fragment(n, (IF May(n, "false") THEN {n} ELSE {}) \cup (IF entered THEN body.breaks ELSE {}),
              {}, {},
              body.edges \cup (IF entered THEN Link({n}, body.entry)
                                                 \cup Link(body.exits \cup body.continues, n)
                               ELSE {}))
LoopLosingContinue(n, body) ==  \* a slip: continue leads nowhere
  IF Is(n, "do") THEN DoLoop(n, [body EXCEPT !.continues = {}])
  ELSE WhileLoop(n, [body EXCEPT !.continues = {}])
Loop(n, body) == IF Is(n, "do") THEN DoLoop(n, body) ELSE WhileLoop(n, body)

\* statement.
Built[n \in Nodes] ==
  LET parts == [m \in Children(n) |-> Built[m]]
  IN CASE Is(n, "block") -> Sequence(n, parts)[Len(tree)]
       [] Is(n, "if") -> Branch(n, parts)
       [] Is(n, "switch") -> Switch(n, parts)
       [] tree[n].kind \in {"while", "do"} -> Loop(n, parts[Min(Children(n))])
       [] tree[n].kind \in {"return", "goto"} -> Fragment(n, {}, {}, {}, {})
       [] Is(n, "break") -> Fragment(n, {}, {n}, {}, {})
       [] Is(n, "continue") -> Fragment(n, {}, {}, {n}, {})
       [] OTHER -> Fragment(n, {n}, {}, {}, {})

\* gotoStatement and labelStatement: the first label of a name counts, for
\* jumps before and after it.
Labels(name) == {n \in Nodes : Is(n, "label") /\ tree[n].name = name}
LastTarget(name) == Max(Labels(name))  \* a slip: a later label takes over
Target(name) == Min(Labels(name))
Jumps ==
  {<<n, Target(tree[n].name)>> :
     n \in {m \in Nodes : Is(m, "goto") /\ Labels(tree[m].name) # {}}}

\* Reachable: blocks on a way of at most i edges from the entry.
Reachable(g) ==
  LET within[i \in 0..Len(tree)] ==
        IF i = 0 THEN {g.entry} \ {0}
        ELSE LET near == within[i - 1]
             IN near \cup {e[2] : e \in {d \in g.edges : d[1] \in near}}
  IN within[Len(tree)]

\* build.
Graph ==
  LET part == Built[1]
      g == [entry |-> part.entry, edges |-> part.edges \cup Jumps]
      reachable == Reachable(g)
  IN [entry |-> g.entry, edges |-> g.edges, exits |-> part.exits, reachable |-> reachable,
      fallsThrough |-> part.exits \cap reachable # {}]

\* unreachableDiagnostics: unreachable, and not where other dead code leads.
Blocks == {n \in Nodes : ~Is(n, "block")}
WarnedIfAlone(g) == {n \in Blocks : \A e \in g.edges : e[2] # n}  \* a slip: the entry too
Warned(g) == {n \in Blocks \ g.reachable : \A e \in g.edges : e[2] # n}
----------------------------------------------------------------------------
(* What the statements mean.                                               *)

\* The statement that n begins with; none if it is an empty block.
First[n \in Nodes] ==
  LET beginning == {m \in Children(n) : First[m] # {}}
  IN IF ~Is(n, "block") THEN {n}
     ELSE IF beginning = {} THEN {} ELSE First[Min(beginning)]

\* Where execution goes after n.
After[n \in Nodes] ==
  LET p == Parent(n)
      following == {m \in Children(p) : m > n /\ First[m] # {}}
  IN IF p = 0 THEN {End}
     ELSE CASE Is(p, "block") -> IF following = {} THEN After[p] ELSE First[Min(following)]
            [] Is(p, "while") -> {p}
            [] Is(p, "do") -> (IF May(p, "true") THEN {p} ELSE {})
                                \cup (IF May(p, "false") THEN After[p] ELSE {})
            [] OTHER -> After[p]
Begin(n) == IF First[n] = {} THEN After[n] ELSE First[n]

Around[n \in Nodes] == IF Parent(n) = 0 THEN {} ELSE {Parent(n)} \cup Around[Parent(n)]
Inside(n, kinds) == {m \in Around[n] : tree[m].kind \in kinds}

\* Where it goes when n is executed.
Steps(n) ==
  LET children == Children(n)
      left == Inside(n, {"while", "do", "switch"})
      repeated == Inside(n, {"while", "do"})
  IN CASE Is(n, "return") -> {}
       [] Is(n, "break") -> IF left = {} THEN {} ELSE After[Max(left)]
       [] Is(n, "continue") ->
            IF repeated = {} THEN {} ELSE After[Min(Children(Max(repeated)))]
       [] Is(n, "goto") ->
            IF Labels(tree[n].name) = {} THEN {} ELSE {Min(Labels(tree[n].name))}
       [] Is(n, "if") ->
            (IF May(n, "true") THEN Begin(Min(children)) ELSE {})
              \cup (IF ~May(n, "false") THEN {}
                    ELSE IF children = {Min(children)} THEN After[n] ELSE Begin(Max(children)))
       [] Is(n, "switch") ->
            (UNION {Begin(m) : m \in children})
              \cup (IF tree[n].default THEN {} ELSE After[n])
       [] Is(n, "while") ->
            (IF May(n, "true") THEN Begin(Min(children)) ELSE {})
              \cup (IF May(n, "false") THEN After[n] ELSE {})
       [] Is(n, "do") -> Begin(Min(children))
       [] OTHER -> After[n]
----------------------------------------------------------------------------
(* A body is written, its graph built, and the body executed.              *)

Branches(kind) == CASE kind = "if" -> 2 [] kind \in {"while", "do"} -> 1
                    [] kind \in {"block", "switch"} -> MaxStatements [] OTHER -> 0
\* Statements that another one can still be written into.
Open == {n \in Nodes : /\ n = Len(tree) \/ n \in Around[Len(tree)]
                       /\ Cardinality(Children(n)) < Branches(tree[n].kind)}
Complete ==
  \A n \in Nodes :
    tree[n].kind \in {"if", "while", "do"} \/ (Is(n, "switch") /\ tree[n].default)
      => Children(n) # {}

NoGraph ==
  [entry |-> 0, edges |-> {}, exits |-> {}, reachable |-> {}, fallsThrough |-> FALSE]
Init == tree = <<>> /\ graph = NoGraph /\ pc = 0

Write(s) ==
  /\ pc = 0 /\ Len(tree) < MaxStatements
  /\ \E p \in (IF tree = <<>> THEN {0} ELSE Open) :
       tree' = Append(tree, [s EXCEPT !.parent = p])
  /\ UNCHANGED <<graph, pc>>

Build ==
  /\ pc = 0 /\ tree # <<>> /\ Complete
  /\ graph' = Graph
  /\ pc' \in Begin(1)
  /\ UNCHANGED tree

Execute ==
  /\ pc \in Nodes /\ pc' \in Steps(pc)
  /\ UNCHANGED <<tree, graph>>

Next == (\E s \in Statements : Write(s)) \/ Build \/ Execute

Spec == Init /\ [][Next]_vars
----------------------------------------------------------------------------
(* Properties.                                                             *)

\* The builder loses the way on in two cases: at an empty block that is the
\* body of a `do', or a branch that an `if' may take, unless the `if' goes on
\* without it as well; and at a label inside of another statement, which may
\* be dead except for the jump.
LosesTheWay(n) ==
  LET p == Parent(n)
  IN /\ First[n] = {} /\ p # 0
     /\ \/ Is(p, "do")
        \/ /\ Is(p, "if") /\ May(p, IF n = Min(Children(p)) THEN "true" ELSE "false")
           /\ ~(Children(p) = {n} /\ May(p, "false"))
NoHollowBranch == \A n \in Nodes : ~LosesTheWay(n)
LabelsOutermost ==
  \A n \in Nodes : Is(n, "label") => Parent(n) = 0 \/ (Parent(n) = 1 /\ Is(1, "block"))
Regular == NoHollowBranch /\ LabelsOutermost

\* Statements and blocks.
TypeOK ==
  /\ tree \in Seq([kind : STRING, parent : 0..MaxStatements,
                   test : {"true", "false", "unknown"}, default : BOOLEAN, name : STRING])
  /\ graph.edges \subseteq Nodes \X Nodes /\ graph.reachable \subseteq Nodes
  /\ graph.exits \subseteq Nodes /\ pc \in Nodes \cup {0, End}

\* Execution begins at the graph's entry.  If there is none, the body has no
\* block at all: it ends at once, and does not count as falling through.
\* Every other step, if the builder loses no way, follows an edge of the graph
\* or leaves the body where the graph falls through.  So no missing return
\* goes unnoticed, except those of bodies without a block and of bodies in
\* which the builder loses the way.
ExecutionFollowsGraph ==
  [][IF pc = 0
     THEN IF graph'.entry = 0 THEN pc' = End /\ ~graph'.fallsThrough ELSE pc' = graph'.entry
     ELSE Regular => \/ pc' \in Nodes /\ <<pc, pc'>> \in graph.edges
                     \/ pc' = End /\ pc \in graph.exits /\ graph.fallsThrough]_pc

\* Every edge that leaves a statement that can be executed is a step: no
\* dead code counts as reachable, and no missing return is reported without
\* a way to the end.
GraphFollowsExecution ==
  pc \in Nodes =>
    /\ \A e \in graph.edges : e[1] = pc => e[2] \in Steps(pc)
    /\ pc \in graph.exits => End \in Steps(pc)

\* A statement that is executed is never reported as unreachable, if the
\* builder loses no way.
WarnedIsNeverExecuted == Regular => pc \notin Warned(graph)
=============================================================================
