--------------------------- MODULE FunctionCaches --------------------------
(***************************************************************************)
(* sema/names.go, tags.go and controlflow.go: the checks of a file's       *)
(* functions, kept from one analysis to the next.                          *)
(*                                                                         *)
(* A file is edited, and analysed now and then: an analysis that was       *)
(* cancelled is one that did not take place.  Each analysis gets what the  *)
(* one before kept.  The body of a function is, as far as the checks can   *)
(* tell bodies apart, the name it uses in a condition and its size.        *)
(* `under' and `hides' are not in the code: they say what a check was made *)
(* with that its key leaves out, and only the properties look at them.     *)
(***************************************************************************)
EXTENDS Integers, FiniteSetsExt, SequencesExt

CONSTANTS
  Names,         \* names that bodies use and parameters have
  FunctionNames, \* names of functions
  Bodies,        \* use, a name or None, and size
  Minimum,       \* the size from which a check is worth keeping
  Values,        \* of constants
  MaxFunctions,  \* bound of this model: functions of a file
  MaxEdits,      \* bound of this model: edits between two analyses
  None

VARIABLES
  file,     \* the functions in order, the constants, the file's directives
  revision, \* the host's revision: the names that other files declare
  edits,    \* edits since the last analysis
  names,    \* name checks, and the key they were made under
  tags,     \* tag checks
  flows     \* control-flow graphs

vars == <<file, revision, edits, names, tags, flows>>

ASSUME BodiesAssumption == Bodies \subseteq [use : Names \cup {None}, size : Nat]
ASSUME BoundsAssumption == MaxFunctions \in Nat /\ MaxEdits \in Nat \ {0}
\* Nothing kept has no fingerprint of exports.
ASSUME NoneAssumption ==
  None \notin [functions : [FunctionNames -> Nat], constants : SUBSET Names]

Functions == [name : FunctionNames, parameter : Names \cup {None}, body : Bodies]
Large(f) == f.body.size >= Minimum
----------------------------------------------------------------------------
(* Positions in the text, and what identifies a function.                  *)

Header(f) == IF f.parameter = None THEN 1 ELSE 2
Start(i) ==
  LET size == [j \in 1..(i - 1) |-> Header(file.functions[j]) + file.functions[j].body.size]
      end[j \in 0..(i - 1)] == IF j = 0 THEN file.blank ELSE end[j - 1] + size[j]
  IN end[i - 1]
BodyStart(i) == Start(i) + Header(file.functions[i])

\* The stable ID: the signature, and the ordinal among equal signatures.
StableID(i) ==
  <<file.functions[i].name,
    Cardinality({j \in 1..(i - 1) : file.functions[j].name = file.functions[i].name})>>

Declared == {n \in Names : file.values[n] # None}
\* The export fingerprint: the signatures without order, values or bodies.
Exports ==
  [functions |-> [n \in FunctionNames |->
                    Cardinality({i \in DOMAIN file.functions : file.functions[i].name = n})],
   constants |-> Declared]
----------------------------------------------------------------------------
(* The checks themselves.                                                  *)

\* What the name that f uses is for the checkers: its parameter, a constant
\* of the file, a name of the file's own directives, one of another file.
Nothing == 5
Sees(f) ==
  LET views == <<{f.parameter}, Declared, file.visible, revision>>
  IN Min({v \in DOMAIN views : f.body.use \in views[v]} \cup {Nothing})
Using == {i \in DOMAIN file.functions : file.functions[i].body.use # None}

CheckNames(i) ==
  LET f == file.functions[i]
  IN [id |-> StableID(i), text |-> f, start |-> Start(i), under |-> file.visible,
      reported |-> IF Sees(f) = Nothing THEN {BodyStart(i)} ELSE {}]

\* The tag of an expression depends on what the name is.
CheckTags(i) ==
  LET f == file.functions[i]
  IN [id |-> StableID(i), text |-> f, start |-> Start(i), under |-> file.visible,
      found |-> IF f.body.use = None THEN {} ELSE {<<BodyStart(i), Sees(f)>>}]

\* The fingerprint of the constants has their values; unknown ones have none.
Fingerprint == file.values
Hides(f) == f.body.use # None /\ f.parameter = f.body.use
\* The condition has a known value if the name is a constant.
Truth(f) == IF f.body.use # None /\ Sees(f) = 2 THEN file.values[f.body.use] ELSE None
BuildGraph(i) ==
  LET f == file.functions[i]
  IN [id |-> StableID(i), body |-> f.body, constants |-> Fingerprint, start |-> BodyStart(i),
      hides |-> Hides(f), truth |-> Truth(f), at |-> BodyStart(i) + f.body.size]
----------------------------------------------------------------------------
(* What is kept, shifted to where the function is now.                     *)

NoCache(checks) == [exports |-> None, revision |-> None, checks |-> checks]
Keyed(checks) == [exports |-> Exports, revision |-> revision, checks |-> checks]
Current(cache) == cache.exports = Exports /\ cache.revision = revision

KeptByText(cache, i) == \* a slip: the exports and the revision are not compared
  {c \in cache.checks : c.id = StableID(i) /\ c.text = file.functions[i] /\ Large(c.text)}
Kept(cache, i) ==
  {c \in cache.checks : /\ Current(cache) /\ Large(c.text)
                        /\ c.id = StableID(i) /\ c.text = file.functions[i]}

StartStays(c, i) == \* a slip: the next analysis shifts from the old start again
  [c EXCEPT !.reported = {p + (Start(i) - c.start) : p \in @}]
ShiftNames(c, i) ==
  [c EXCEPT !.start = Start(i), !.reported = {p + (Start(i) - c.start) : p \in @}]
PositionsStay(c, i) == [c EXCEPT !.start = Start(i)] \* a slip
ShiftTags(c, i) ==
  [c EXCEPT !.start = Start(i),
            !.found = {<<p[1] + (Start(i) - c.start), p[2]>> : p \in @}]

\* Only functions that use a name are checked for names.
NameChecks(cache) ==
  Keyed({LET kept == Kept(cache, i)
         IN IF kept = {} THEN CheckNames(i) ELSE ShiftNames(CHOOSE c \in kept : TRUE, i)
           : i \in Using})
\* A file without a function worth keeping keeps no tag checks.
TagChecks(cache) ==
  LET checks == {LET kept == Kept(cache, i)
                 IN IF kept = {} THEN CheckTags(i) ELSE ShiftTags(CHOOSE c \in kept : TRUE, i)
                   : i \in DOMAIN file.functions}
  IN IF \E i \in DOMAIN file.functions : Large(file.functions[i])
     THEN Keyed(checks) ELSE NoCache(checks)

ShiftGraph(g, i) ==
  [g EXCEPT !.start = BodyStart(i), !.at = @ + (BodyStart(i) - g.start)]
ReuseAnyConstants(i) == \* a slip: the values of constants are not compared
  {g \in flows : g.id = StableID(i) /\ g.body = file.functions[i].body
                 /\ g.body.size >= Minimum}
\* reuseFlow: the text of the body and the known constants of the file.
ReuseFlow(i) ==
  {g \in flows : /\ g.id = StableID(i) /\ g.body.size >= Minimum
                 /\ g.body = file.functions[i].body /\ g.constants = Fingerprint}
Graphs(use) ==
  {LET kept == IF use THEN ReuseFlow(i) ELSE {}
   IN IF kept = {} THEN BuildGraph(i) ELSE ShiftGraph(CHOOSE g \in kept : TRUE, i)
     : i \in DOMAIN file.functions}
----------------------------------------------------------------------------
Files == [functions : SeqOf(Functions, MaxFunctions), values : [Names -> Values \cup {None}],
          visible : SUBSET Names, blank : {0, 1}]

Init ==
  /\ file \in Files /\ revision \in SUBSET Names
  /\ edits = MaxEdits
  /\ names = NoCache({}) /\ tags = NoCache({}) /\ flows = {}

\* CompleteContext.  `reliable' is that the parser found the declarations of
\* both versions; without it nothing is taken over, and no names are kept.
Complete(reliable) ==
  /\ edits > 0 /\ edits' = 0
  /\ names' = IF reliable THEN NameChecks(names) ELSE NoCache({CheckNames(i) : i \in Using})
  /\ tags' = TagChecks(IF reliable THEN tags ELSE NoCache({}))
  /\ flows' = Graphs(reliable)
  /\ UNCHANGED <<file, revision>>

Edit == edits < MaxEdits /\ edits' = edits + 1 /\ UNCHANGED <<names, tags, flows>>
EditFunction(i, f) ==
  /\ Edit /\ file' = [file EXCEPT !.functions[i] = f] /\ UNCHANGED revision
InsertFunction(i, f) ==
  /\ Edit /\ Len(file.functions) < MaxFunctions
  /\ file' = [file EXCEPT !.functions = InsertAt(@, i, f)] /\ UNCHANGED revision
RemoveFunction(i) ==
  /\ Edit /\ file' = [file EXCEPT !.functions = RemoveAt(@, i)] /\ UNCHANGED revision
\* A constant is declared, removed or changed; a directive is; a blank line.
EditFile(f) ==
  /\ Edit /\ f # file /\ f.functions = file.functions
  /\ Cardinality({n \in Names : f.values[n] # file.values[n]}) <= 1
  /\ file' = f /\ UNCHANGED revision
\* Other files, or the host's data, change: the revision says so.
NewRevision(r) == Edit /\ r # revision /\ revision' = r /\ UNCHANGED file

Next ==
  \/ \E reliable \in BOOLEAN : Complete(reliable)
  \/ \E i \in DOMAIN file.functions, f \in Functions : EditFunction(i, f)
  \/ \E i \in 1..(Len(file.functions) + 1), f \in Functions : InsertFunction(i, f)
  \/ \E i \in DOMAIN file.functions : RemoveFunction(i)
  \/ \E v \in [Names -> Values \cup {None}], d \in SUBSET Names, b \in {0, 1} :
       EditFile([file EXCEPT !.values = v, !.visible = d, !.blank = b])
  \/ \E r \in SUBSET Names : NewRevision(r)

Spec == Init /\ [][Next]_vars
----------------------------------------------------------------------------
\* After an analysis every function has one check of each kind, under its own
\* ID and at its own place; two functions never share one.
EachOnce(checks, functions) ==
  /\ Cardinality(checks) = Cardinality(functions)
  /\ {<<c.id, c.start>> : c \in checks} = {<<StableID(i), Start(i)>> : i \in functions}
TypeOK ==
  /\ Len(file.functions) <= MaxFunctions /\ Range(file.functions) \subseteq Functions
  /\ revision \subseteq Names /\ edits \in 0..MaxEdits
  /\ edits = 0 => /\ EachOnce(names.checks, Using)
                  /\ EachOnce(tags.checks, DOMAIN file.functions)
                  /\ Cardinality(flows) = Len(file.functions)

\* However the file was edited since, and whatever was kept through how many
\* analyses, the name checks (names.go:66) are those of a check made afresh,
\* at the present positions, unless the file's own directives changed.
NamesAreClean ==
  edits = 0 =>
    \A c \in names.checks : c.under = file.visible => c \in {CheckNames(i) : i \in Using}

\* The same of the tag checks (tags.go:138).
TagsAreClean ==
  edits = 0 =>
    \A c \in tags.checks :
      c.under = file.visible => c \in {CheckTags(i) : i \in DOMAIN file.functions}

\* A function's graph (controlflow.go:139) is the one that would be built
\* now, unless the function's parameter has come to hide, or no longer hides,
\* a name that the body uses.
FlowsAreClean ==
  edits = 0 =>
    \A g \in flows : (\E i \in DOMAIN file.functions :
                        g.id = StableID(i) /\ g.hides = Hides(file.functions[i]))
                       => g \in {BuildGraph(i) : i \in DOMAIN file.functions}

\* docs/architecture.md:91: an edit that is not safe falls back to a clean
\* run.  It does not hold: when a #define or an #include of the file goes, a
\* name that it made known is not reported in a function that stays.
ReportsAreClean ==
  edits = 0 => UNION {c.reported : c \in names.checks}
                 = UNION {CheckNames(i).reported : i \in Using}
============================================================================
