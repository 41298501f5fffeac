---------------------------- MODULE SymbolTable ----------------------------
(***************************************************************************)
(* symbol/build.go, symbol.go and incremental.go: the symbol table of a    *)
(* file, and the patch that keeps a table when one identifier is edited.   *)
(*                                                                         *)
(* A text is the sequence of what the builder's walk meets: declarations,  *)
(* identifier uses, and the places where a function or a block begins and  *)
(* ends.  It is written event by event, its table is built in one of the   *)
(* three modes, and then uses inside functions are renamed: each time the  *)
(* table is patched instead of built again.  An event's position stands    *)
(* for its span.                                                           *)
(***************************************************************************)
EXTENDS Integers, FiniteSetsExt, SequencesExt

CONSTANTS
  Names,      \* identifiers
  Signatures, \* of functions: kind, test, state, min, max, body, own
  Arguments,  \* numbers of arguments of calls
  MaxEvents   \* bound of this model: events of a text

ASSUME SignaturesAssumption ==
  \A s \in Signatures : s.kind \in {"function", "forward"} /\ s.test \in BOOLEAN
                         /\ s.state \in BOOLEAN /\ s.body \in BOOLEAN /\ s.own \in BOOLEAN

VARIABLES
  text,   \* the events
  mode,   \* what the table was built for, or Unbuilt
  table,  \* the table
  patched \* the positions of the uses renamed since the table was built

vars == <<text, mode, table, patched>>

NotACall == -1
Unbuilt == "unbuilt"
\* The public builders: everything, the active file's details, or nothing
\* but declarations.
Modes == {"full", "navigation", "declarations"}
\* Variables stand for constants, enumerations and parameters, too.
Events == [what : {"variable"}, name : Names]
            \cup [what : {"function"}, name : Names, signature : Signatures]
            \cup [what : {"use"}, name : Names, args : Arguments \cup {NotACall}]
            \cup [what : {"block", "end"}]
----------------------------------------------------------------------------
(* The table.                                                              *)

Callable(symbol) == symbol.kind # "variable"
IsTestEntryPoint(symbol) == Callable(symbol) /\ symbol.test
Variable == [kind |-> "variable", test |-> FALSE, state |-> FALSE, min |-> 0, max |-> 0,
             body |-> FALSE, own |-> TRUE]

\* The scopes from s outwards; the nearest has the largest number.
Chain(t, s) ==
  LET outwards[i \in DOMAIN t.scopes] ==
        {i} \cup (IF t.scopes[i].parent = 0 THEN {} ELSE outwards[t.scopes[i].parent])
  IN outwards[s]

\* Lookup: the owner of the name in the nearest scope that has one; 0 is none.
Lookup(t, scope, name) ==
  LET owning == {s \in Chain(t, scope) : t.scopes[s].names[name] # 0}
  IN IF owning = {} THEN 0 ELSE t.scopes[Max(owning)].names[name]

\* Table.callables, whose order is that of the IDs.
Callables(t, scope, name) ==
  {id \in DOMAIN t.symbols : /\ t.symbols[id].scope = scope
                             /\ t.symbols[id].name = name
                             /\ Callable(t.symbols[id].signature)
                             /\ ~IsTestEntryPoint(t.symbols[id].signature)}
\* max is -1 for a variadic function.
Accepts(signature, args) ==
  /\ args >= signature.min
  /\ signature.max < 0 \/ args <= signature.max

\* LookupCallable: the first callable of the nearest scope that takes the
\* arguments, or the first one.
LookupCallable(t, scope, name, args) ==
  LET having == {s \in Chain(t, scope) : Callables(t, s, name) # {}}
      all == Callables(t, Max(having), name)
      fitting == {id \in all : Accepts(t.symbols[id].signature, args)}
  IN IF having = {} THEN 0 ELSE Min(IF fitting = {} THEN all ELSE fitting)

Or(first, second) == IF first # 0 THEN first ELSE second
\* How a use is resolved with what the table has so far.
Resolve(t, scope, name, args) ==
  Or(IF args = NotACall THEN 0 ELSE LookupCallable(t, scope, name, args),
     Lookup(t, scope, name))
----------------------------------------------------------------------------
(* The builder: the table and the scopes that are being walked, where 0 is *)
(* a function whose details are not kept.                                  *)

ForwardFirst(a, b) == a.kind = "forward" /\ Callable(b) /\ b.kind # "forward" \* a slip
ForwardPair(a, b) ==
  Callable(a) /\ Callable(b) /\ (a.kind = "forward") # (b.kind = "forward")

\* declare, with id for the name's owner.
Declaring(b, symbol, id) ==
  LET old == b.scopes[symbol.scope].names[symbol.name]
      former == b.symbols[old].signature
      test == IsTestEntryPoint(symbol.signature)
      pair == ForwardPair(former, symbol.signature)
      owns == ~test /\ (old # 0 => pair /\ former.kind = "forward")
      clashes == ~test /\ old # 0 /\ ~pair /\ ~(former.state /\ symbol.signature.state)
  IN [b EXCEPT !.symbols = Append(@, symbol),
               !.scopes[symbol.scope].names[symbol.name] = IF owns THEN id ELSE @,
               !.reported = @ \cup (IF clashes THEN {Len(b.symbols) + 1} ELSE {})]
DeclareOneOff(b, symbol) == Declaring(b, symbol, Len(b.symbols) + 2) \* a slip
Declare(b, symbol) == Declaring(b, symbol, Len(b.symbols) + 1)
Symbol(name, signature, scope, place) ==
  [name |-> name, signature |-> signature, scope |-> scope, place |-> place]

NewScope(b, parent) ==
  [b EXCEPT !.scopes = Append(@, [parent |-> parent, names |-> [n \in Names |-> 0]])]
Enter(b, scope) == [b EXCEPT !.at = Append(@, scope)]
EnterNew(b) == IF Last(b.at) = 0 THEN Enter(b, 0)
               ELSE Enter(NewScope(b, Last(b.at)), Len(b.scopes) + 1)

\* keepDetails of a function.
KeepDetails(m, signature) == m = "full" \/ (m = "navigation" /\ signature.own)

\* walkFunction: a function without a body is left at once.
WalkFunction(m, b, name, signature, place) ==
  LET declared == Declare(b, Symbol(name, signature, Last(b.at), place))
      opened == IF KeepDetails(m, signature) THEN EnterNew(declared)
                ELSE Enter(declared, 0)
  IN IF signature.body THEN opened ELSE [opened EXCEPT !.at = b.at]

\* reference: the initializers of file-scope variables are details, too.
WalkUse(m, b, name, args, place) ==
  IF m = "declarations" THEN b
  ELSE [b EXCEPT !.references = Append(@,
         [name |-> name, args |-> args, scope |-> Last(b.at), place |-> place,
          resolved |-> Resolve(b, Last(b.at), name, args)])]

\* walk
Walk(m, b, event, place) ==
  CASE event.what = "block" -> EnterNew(b)
    [] event.what = "end" -> [b EXCEPT !.at = Front(@)]
    [] event.what \in {"variable", "use", "function"} /\ Last(b.at) = 0 -> b
    [] event.what = "variable" /\ Last(b.at) # 0 ->
         Declare(b, Symbol(event.name, Variable, Last(b.at), place))
    [] event.what = "function" /\ Last(b.at) # 0 ->
         WalkFunction(m, b, event.name, event.signature, place)
    [] event.what = "use" /\ Last(b.at) # 0 ->
         WalkUse(m, b, event.name, event.args, place)

ResolvedAnywhere(t) == \* a slip: every use sees the locals declared after it
  [i \in DOMAIN t.references |->
     LET r == t.references[i]
     IN [r EXCEPT !.resolved = Or(@, Resolve(t, r.scope, r.name, r.args))]]
\* resolveFileReferences: what is still unresolved, with the whole file; a
\* use that is no call by the names of the file scope only.
Resolved(t) ==
  [i \in DOMAIN t.references |->
     LET r == t.references[i]
         late == IF r.args = NotACall THEN t.scopes[1].names[r.name]
                 ELSE Resolve(t, r.scope, r.name, r.args)
     IN [r EXCEPT !.resolved = Or(@, late)]]

\* build and buildDeclarations
Empty == [symbols |-> <<>>, scopes |-> <<>>, references |-> <<>>, reported |-> {}, at |-> <<>>]
Walked(m, events) ==
  LET walked[i \in 0..Len(events)] ==
        IF i = 0 THEN Enter(NewScope(Empty, 0), 1)
        ELSE LET b == walked[i - 1] IN Walk(m, b, events[i], i)
  IN walked
Built(m, events) ==
  LET b == Walked(m, events)[Len(events)]
  IN [b EXCEPT !.references = Resolved(b), !.at = <<>>]
----------------------------------------------------------------------------
(* PatchReference: the use at the position gets another name, resolved by  *)
(* Lookup in the table there is.                                           *)

PatchTooEarly(t, i, name) == \* a slip: resolved before it has its new name
  [t EXCEPT !.references[i].name = name,
            !.references[i].resolved = Lookup(t, t.references[i].scope, t.references[i].name)]
PatchReference(t, i, name) ==
  [t EXCEPT !.references[i].name = name,
            !.references[i].resolved = Lookup(t, t.references[i].scope, name)]
----------------------------------------------------------------------------
\* Functions and blocks that begin before i and have not ended.
Opens(k) == text[k].what = "block" \/ (text[k].what = "function" /\ text[k].signature.body)
Around[k \in 1..(Len(text) + 1)] ==
  IF k = 1 THEN {}
  ELSE IF Opens(k - 1) THEN Around[k - 1] \cup {k - 1}
  ELSE IF text[k - 1].what = "end" THEN Around[k - 1] \ {Max(Around[k - 1])}
  ELSE Around[k - 1]

Init == text = <<>> /\ mode = Unbuilt /\ table = Empty /\ patched = {}

\* Functions are declared at file scope, blocks inside functions only.
Fits(event) ==
  LET around == Around[Len(text) + 1]
  IN /\ event.what = "function" => around = {}
     /\ event.what \in {"block", "end"} => around # {}

Write(event) ==
  /\ mode = Unbuilt /\ Len(text) < MaxEvents /\ Fits(event)
  /\ text' = Append(text, event)
  /\ UNCHANGED <<mode, table, patched>>

Build(m) ==
  /\ mode = Unbuilt /\ text # <<>>
  /\ mode' = m /\ table' = Built(m, text)
  /\ UNCHANGED <<text, patched>>

\* patchedOriginalSymbols, for a table of the full mode and an edit inside a
\* function; what was and what becomes unresolved is left to a clean build.
Patch(i, name) ==
  LET place == table.references[i].place
  IN /\ mode = "full"
     /\ table.references[i].scope # 1
     /\ table.references[i].name # name
     /\ table.references[i].resolved # 0
     /\ PatchReference(table, i, name).references[i].resolved # 0
     /\ table' = PatchReference(table, i, name)
     /\ text' = [text EXCEPT ![place].name = name]
     /\ patched' = patched \cup {place}
     /\ UNCHANGED mode

Next == \/ \E event \in Events : Write(event)
        \/ \E m \in Modes : Build(m)
        \/ \E i \in DOMAIN table.references, name \in Names : Patch(i, name)

Spec == Init /\ [][Next]_vars
----------------------------------------------------------------------------
(* What the text means, position by position.                              *)

Declares(k) == text[k].what = "variable"
                 \/ (text[k].what = "function" /\ ~text[k].signature.test)
Function(k) == text[k].what = "function"
Forward(k) == Function(k) /\ text[k].signature.kind = "forward"
Nearest(places) == Max(places \cup {0})
First(places) == IF places = {} THEN 0 ELSE Min(places)
\* The positions up to `last' that declare the name directly in the function
\* or block that begins at `scope'; 0 is the file.
Declarations(scope, name, last) ==
  {k \in 1..last : Declares(k) /\ text[k].name = name /\ Nearest(Around[k]) = scope}

\* The declaration that has the name: the first, unless that is the forward
\* of a function that follows.
Owner(places) ==
  LET definitions == {k \in places : Function(k) /\ ~Forward(k)}
  IN IF places # {} /\ Forward(Min(places)) /\ definitions # {}
     THEN Min(definitions) ELSE First(places)

\* The nearest declaration around i, and the callee, up to `last'.
Named(i, last) ==
  LET scopes == {s \in Around[i] \cup {0} : Declarations(s, text[i].name, last) # {}}
  IN Owner(Declarations(Nearest(scopes), text[i].name, last))
Called(i, last) ==
  LET functions == {k \in Declarations(0, text[i].name, last) : Function(k)}
      fitting == {k \in functions : Accepts(text[k].signature, text[i].args)}
  IN IF text[i].args = NotACall THEN 0 ELSE First(IF fitting = {} THEN functions ELSE fitting)

\* What is declared before the use comes first, then the rest of the file.
Meaning(i) ==
  LET later == IF text[i].args = NotACall
               THEN Owner(Declarations(0, text[i].name, Len(text)))
               ELSE Named(i, Len(text))
  IN Or(Or(Called(i, i - 1), Named(i, i - 1)), Or(Called(i, Len(text)), later))

\* The uses that the table of a mode has to have.
Included(i) == \E o \in Around[i] : Function(o) /\ ~text[o].signature.own
Shown(i) == text[i].what = "use" /\ mode # "declarations" /\ (mode = "navigation" => ~Included(i))
PlaceOf(id) == IF id = 0 THEN 0 ELSE table.symbols[id].place
----------------------------------------------------------------------------
\* An owner of a name is a declaration of that name in that scope, no test,
\* and every ID of the table is one that it gave out.
TypeOK ==
  /\ \A i \in DOMAIN text : text[i] \in Events
  /\ mode \in Modes \cup {Unbuilt} /\ patched \subseteq DOMAIN text
  /\ \A s \in DOMAIN table.scopes : table.scopes[s].parent \in 0..(s - 1)
  /\ \A s \in DOMAIN table.scopes, n \in Names :
       LET id == table.scopes[s].names[n]
       IN /\ id \in 0..Len(table.symbols)
          /\ id # 0 => /\ table.symbols[id].name = n /\ table.symbols[id].scope = s
                       /\ ~IsTestEntryPoint(table.symbols[id].signature)
  /\ \A i \in DOMAIN table.references : /\ table.references[i].resolved \in 0..Len(table.symbols)
                                        /\ table.references[i].scope \in DOMAIN table.scopes

\* In every mode the table has the uses of that mode, and each of them is
\* resolved as the text has it: to what is declared before it in the nearest
\* scope, and only then to what the file declares later (build.go:241, 263);
\* leaving out the details of included functions changes nothing for the
\* active file.
UsesAreResolved ==
  mode # Unbuilt /\ patched = {} =>
    {<<r.place, PlaceOf(r.resolved)>> : r \in Range(table.references)}
      = {<<i, Meaning(i)>> : i \in {k \in DOMAIN text : Shown(k)}}

\* One at most, or functions that are each for states of its own.
Alike(places) ==
  (\A j, k \in places : j = k) \/ \A k \in places : Function(k) /\ text[k].signature.state
\* The declarations of a name in a scope go together: one declaration, or
\* functions whose definitions are alike and whose forwards before these are.
Together(places) ==
  LET definitions == {k \in places : ~Forward(k)}
  IN \/ \A j, k \in places : j = k
     \/ /\ \A k \in places : Function(k)
        /\ Alike(definitions) /\ Alike({k \in places : \A d \in definitions : k < d})

\* A name is reported as redeclared in a scope if and only if its
\* declarations there do not go together, whatever their order (declare,
\* build.go:217).  In the full mode every scope is looked at.
RedeclarationsAreReported ==
  mode = "full" =>
    \A k \in DOMAIN text : Declares(k) =>
      LET places == Declarations(Nearest(Around[k]), text[k].name, Len(text))
      IN Together(places) <=> \A id \in table.reported : table.symbols[id].place \notin places

\* The name of the use at i has one declaration in the scopes around it, and
\* if that is a local one it comes first.
Settled(i) ==
  LET places == UNION {Declarations(s, text[i].name, Len(text)) : s \in Around[i] \cup {0}}
  IN Cardinality(places) = 1 /\ \A k \in places : k < i \/ Nearest(Around[k]) = 0

\* After any number of renamed uses, the table is the one a clean build of
\* the edited text gives, as docs/architecture.md:91 has it of every edit, if
\* each of the new names was settled.  Without that it is not: a use patched
\* to the name of a local that is declared after it is resolved to the local,
\* and a call to a function with a forward to the definition.
PatchedIsClean ==
  mode = "full" /\ (\A i \in patched : Settled(i)) => table = Built("full", text)
============================================================================
