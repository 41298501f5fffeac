---------------------------- MODULE Preprocessor ----------------------------
(***************************************************************************)
(* Package preprocess, one run of the engine: the stack of frames (the     *)
(* recursive calls of engine.run), each with its stack of conditionals,    *)
(* the macro table, and the branches, includes and tokens it records.  An  *)
(* action handles one line: a directive, or text that is passed on.        *)
(*                                                                         *)
(* The content of a file is chosen while it is read, so that a resolver    *)
(* may answer with any content, also with another one the second time.     *)
(* A position is a line number; a line of text is one token.               *)
(***************************************************************************)
EXTENDS Naturals, Sequences, FiniteSets

CONSTANTS
  Uris,                 \* file names
  Root,                 \* Options.URI: the file the run starts with
  Names, Bodies, None,  \* macros: their names, their replacements, and none
  Lines,                \* lines a file may contain
  MaxConditionalDepth, MaxIncludeDepth, MaxOutputTokens,
  MayRead(_, _, _)      \* bound: whether, with `lines` read, file f may have this line

VARIABLES
  lines,     \* lines[k]: what has been read of file k
  files,     \* files[k]: the name of file k
  frames,    \* the frames: one for each file that is being read
  macros,    \* macros[n]: the replacement of macro n, or None
  branches,  \* every #if/#elseif/#else met so far, in the order met
  includes,  \* every #include handled so far
  out,       \* the expanded tokens
  outputTokens,
  truncated, \* a limit was exceeded: nothing is passed on any more
  stopped,   \* no frame reads on
  includeStack,      \* includeStack[u]: included files u being read
  depthLimitWarned,
  diags

record == <<branches, includes, macros>>
output == <<out, outputTokens, truncated, stopped>>
limits == <<includeStack, depthLimitWarned>>
vars == <<lines, files, frames, record, output, limits, diags>>

ASSUME RootAssumption == Root \in Uris
ASSUME LimitsAssumption ==
  /\ MaxConditionalDepth \in Nat \ {0} /\ MaxIncludeDepth \in Nat \ {0}
  /\ MaxOutputTokens \in Nat \ {0}

\* A condition is a constant, a name that must be defined, or beyond
\* evalCondition.  Diagnostics that change no other state are one kind.
Conditions == {"true", "false", "unknown"} \cup Names
AllLines ==
  [kind : {"text", "else", "endif", "endinput", "message"}]
    \cup [kind : {"use", "undef"}, name : Names]
    \cup [kind : {"define"}, name : Names, body : Bodies]
    \cup [kind : {"if", "elseif"}, cond : Conditions]
    \cup [kind : {"include"}, uri : Uris \cup {None}, optional : BOOLEAN]
ASSUME LinesAssumption == Lines \subseteq AllLines
ASSUME NoneAssumption == None \notin Bodies /\ None \notin Uris
----------------------------------------------------------------------------
(* The records of the engine.                                              *)

CondFrame(parentActive, branchActive, taken, openBranchIndex, overflow) ==
  [parentActive |-> parentActive, branchActive |-> branchActive,
   taken |-> taken, openBranchIndex |-> openBranchIndex, overflow |-> overflow]

Frame(uri, file, condStack, endinput) ==
  [uri |-> uri, file |-> file, condStack |-> condStack, endinput |-> endinput]

\* A branch of `file` whose directive is on line `from`; its body is what
\* lies between that line and line `to`.
Branch(file, directive, depth, from, to, active, evaluated) ==
  [file |-> file, directive |-> directive, depth |-> depth,
   from |-> from, to |-> to, active |-> active, evaluated |-> evaluated]

Include(file, line, uri, child) ==
  [file |-> file, line |-> line, uri |-> uri, child |-> child]

Top == frames[Len(frames)]
File == Top.file
Here == Len(lines[File]) + 1  \* the line being handled
Depth == Len(Top.condStack)
Cond == Top.condStack[Depth]

CurrentActive(f) ==
  f.condStack # <<>> => f.condStack[Len(f.condStack)].branchActive

Diag(code) == [code |-> code, file |-> File, line |-> Here]
\* A diagnostic that an inactive line does not give.
ActiveDiag(code) == IF CurrentActive(Top) THEN {Diag(code)} ELSE {}
----------------------------------------------------------------------------
Init ==
  /\ lines = <<<<>>>> /\ files = <<Root>>
  /\ frames = <<Frame(Root, 1, <<>>, FALSE)>>
  /\ macros \in [Names -> Bodies \cup {None}]  \* Options.Predefined
  /\ branches = <<>> /\ includes = <<>>
  /\ out = {} /\ outputTokens = 0 /\ truncated = FALSE /\ stopped = FALSE
  /\ includeStack = [u \in Uris |-> 0] /\ depthLimitWarned = FALSE
  /\ diags = {}

\* The innermost frame reads one more line.
Running == frames # <<>> /\ ~stopped /\ ~Top.endinput
Reading(line) ==
  /\ Running /\ MayRead(lines, File, line)
  /\ lines' = [lines EXCEPT ![File] = Append(lines[File], line)]

SetTop(condStack, endinput) ==
  frames' = [frames EXCEPT ![Len(frames)] =
               Frame(Top.uri, File, condStack, endinput)]

Replace(condFrame) == [Top.condStack EXCEPT ![Depth] = condFrame]

\* A slip: a token that is dropped is counted.
AppendOutCounting(as) ==
  /\ outputTokens' = outputTokens + 1
  /\ IF truncated \/ outputTokens < MaxOutputTokens
     THEN UNCHANGED <<truncated, stopped, diags>>
     ELSE /\ truncated' = TRUE /\ stopped' = TRUE
          /\ diags' = diags \cup {Diag("output limit")}
  /\ out' = IF truncated \/ outputTokens >= MaxOutputTokens THEN out
            ELSE out \cup {[file |-> File, line |-> Here, as |-> as]}

\* appendOut
AppendOut(as) ==
  \/ /\ truncated
     /\ UNCHANGED <<output, diags>>
  \/ /\ ~truncated /\ outputTokens < MaxOutputTokens
     /\ outputTokens' = outputTokens + 1
     /\ out' = out \cup {[file |-> File, line |-> Here, as |-> as]}
     /\ UNCHANGED <<truncated, stopped, diags>>
  \/ /\ ~truncated /\ outputTokens >= MaxOutputTokens
     /\ outputTokens' = outputTokens + 1
     /\ truncated' = TRUE /\ stopped' = TRUE
     /\ diags' = diags \cup {Diag("output limit")}
     /\ UNCHANGED out

\* emitActive: a token, or the name of a macro, which is replaced.
Text(line) ==
  /\ line.kind \in {"text", "use"} /\ Reading(line)
  /\ IF CurrentActive(Top)
     THEN AppendOut(IF line.kind = "use" THEN macros[line.name] ELSE None)
     ELSE UNCHANGED <<output, diags>>
  /\ UNCHANGED <<files, frames, record, limits>>

\* A depth limit is exceeded.  Conditionals and expansions share one warning.
DepthLimitLate(code) ==  \* a slip: the flag is set before it is looked at
  truncated' = TRUE /\ depthLimitWarned' = TRUE /\ UNCHANGED diags
DepthLimit(code) ==
  /\ truncated' = TRUE /\ depthLimitWarned' = TRUE
  /\ diags' = IF depthLimitWarned THEN diags ELSE diags \cup {Diag(code)}

\* The replacement of a macro nests deeper than MaxExpansionDepth.
ExpansionOverflow(line) ==
  /\ line.kind = "use" /\ Reading(line) /\ CurrentActive(Top)
  /\ macros[line.name] # None
  /\ DepthLimit("expansion depth")
  /\ UNCHANGED <<files, frames, record, out, outputTokens, stopped, includeStack>>

Define(line) ==
  /\ line.kind = "define" /\ Reading(line)
  /\ IF CurrentActive(Top)
     THEN /\ macros' = [macros EXCEPT ![line.name] = line.body]
          /\ diags' = IF macros[line.name] \in {None, line.body} THEN diags
                      ELSE diags \cup {Diag("redefined")}
     ELSE UNCHANGED <<macros, diags>>
  /\ UNCHANGED <<files, frames, branches, includes, output, limits>>

Undef(line) ==
  /\ line.kind = "undef" /\ Reading(line)
  /\ macros' = IF CurrentActive(Top) THEN [macros EXCEPT ![line.name] = None]
               ELSE macros
  /\ UNCHANGED <<files, frames, branches, includes, output, limits, diags>>

\* #error, #warning, #assert, unknown and malformed directives, #pragma.
Message(line) ==
  /\ line.kind = "message" /\ Reading(line)
  /\ diags' = diags \cup ActiveDiag("message")
  /\ UNCHANGED <<files, frames, record, output, limits>>
----------------------------------------------------------------------------
(* Conditionals.                                                           *)

Holds(cond) == cond = "true" \/ (cond \in Names /\ macros[cond] # None)
\* evaluateBranch: a condition beyond evaluation counts as false.
ConditionDiag(cond, parentActive) ==
  IF parentActive /\ cond = "unknown" THEN {Diag("condition")} ELSE {}

OpenBranchInRoot(known, directive, depth, active, evaluated) ==  \* a slip: which file
  Append(known, Branch(1, directive, depth, Here, Here, active, evaluated))

\* openBranch
OpenBranch(known, directive, depth, active, evaluated) ==
  Append(known, Branch(File, directive, depth, Here, Here, active, evaluated))
NextBranch == Len(branches) + 1

\* closeBranch: the body of the branch that was open ends here.
CloseBranch ==
  IF Cond.openBranchIndex \in DOMAIN branches
  THEN LET b == branches[Cond.openBranchIndex]
       IN [branches EXCEPT ![Cond.openBranchIndex] =
             Branch(b.file, b.directive, b.depth, b.from, Here, b.active, b.evaluated)]
  ELSE branches

If(line) ==
  LET parentActive == CurrentActive(Top)
      active == parentActive /\ Holds(line.cond)
  IN /\ line.kind = "if" /\ Reading(line) /\ Depth < MaxConditionalDepth
     /\ SetTop(Append(Top.condStack,
                      CondFrame(parentActive, active, active, NextBranch, FALSE)), FALSE)
     /\ branches' = OpenBranch(branches, "if", Depth + 1, active, parentActive)
     /\ diags' = diags \cup ConditionDiag(line.cond, parentActive)
     /\ UNCHANGED <<files, includes, macros, output, limits>>

\* Nested too deeply: the new conditional records no branch.  Its open
\* branch is the zero value, which is the index of the first one.
IfOverflow(line) ==
  /\ line.kind = "if" /\ Reading(line) /\ Depth >= MaxConditionalDepth
  /\ SetTop(Append(Top.condStack,
                   CondFrame(CurrentActive(Top), FALSE, TRUE, 1, TRUE)), FALSE)
  /\ DepthLimit("conditional depth")
  /\ UNCHANGED <<files, record, out, outputTokens, stopped, includeStack>>

Unmatched(line) ==
  /\ line.kind \in {"elseif", "else", "endif"} /\ Reading(line) /\ Depth = 0
  /\ diags' = diags \cup {Diag("unmatched")}
  /\ UNCHANGED <<files, frames, record, output, limits>>

\* #elseif and #else of a conditional that was nested too deeply.
AlternativeOverflow(line) ==
  /\ line.kind \in {"elseif", "else"} /\ Reading(line) /\ Depth > 0
  /\ Cond.overflow
  /\ branches' = CloseBranch
  /\ UNCHANGED <<files, frames, includes, macros, output, limits, diags>>

ElseifTaken(line) ==
  /\ line.kind = "elseif" /\ Reading(line) /\ Depth > 0
  /\ ~Cond.overflow /\ Cond.taken
  /\ SetTop(Replace(CondFrame(Cond.parentActive, FALSE, TRUE, NextBranch, FALSE)), FALSE)
  /\ branches' = OpenBranch(CloseBranch, "elseif", Depth, FALSE, FALSE)
  /\ UNCHANGED <<files, includes, macros, output, limits, diags>>

ElseifForgetting(line) ==  \* a slip: that a branch was taken is not kept
  LET active == Cond.parentActive /\ Holds(line.cond)
  IN /\ line.kind = "elseif" /\ Reading(line) /\ Depth > 0
     /\ ~Cond.overflow /\ ~Cond.taken
     /\ SetTop(Replace(CondFrame(Cond.parentActive, active, FALSE, NextBranch, FALSE)), FALSE)
     /\ branches' = OpenBranch(CloseBranch, "elseif", Depth, active, Cond.parentActive)
     /\ diags' = diags \cup ConditionDiag(line.cond, Cond.parentActive)
     /\ UNCHANGED <<files, includes, macros, output, limits>>

Elseif(line) ==
  LET active == Cond.parentActive /\ Holds(line.cond)
  IN /\ line.kind = "elseif" /\ Reading(line) /\ Depth > 0
     /\ ~Cond.overflow /\ ~Cond.taken
     /\ SetTop(Replace(CondFrame(Cond.parentActive, active, active, NextBranch, FALSE)), FALSE)
     /\ branches' = OpenBranch(CloseBranch, "elseif", Depth, active, Cond.parentActive)
     /\ diags' = diags \cup ConditionDiag(line.cond, Cond.parentActive)
     /\ UNCHANGED <<files, includes, macros, output, limits>>

ElseAnyParent(c) == ~c.taken    \* a slip: the enclosing branch is forgotten
ElseSelected(c) == c.parentActive /\ ~c.taken

Else(line) ==
  LET active == ElseSelected(Cond)
  IN /\ line.kind = "else" /\ Reading(line) /\ Depth > 0 /\ ~Cond.overflow
     /\ SetTop(Replace(CondFrame(Cond.parentActive, active, Cond.taken \/ active,
                                 NextBranch, FALSE)), FALSE)
     /\ branches' = OpenBranch(CloseBranch, "else", Depth, active, Cond.parentActive)
     /\ UNCHANGED <<files, includes, macros, output, limits, diags>>

Endif(line) ==
  /\ line.kind = "endif" /\ Reading(line) /\ Depth > 0
  /\ branches' = IF Cond.overflow THEN branches ELSE CloseBranch
  /\ SetTop(SubSeq(Top.condStack, 1, Depth - 1), FALSE)
  /\ UNCHANGED <<files, includes, macros, output, limits, diags>>

Endinput(line) ==
  /\ line.kind = "endinput" /\ Reading(line)
  /\ SetTop(Top.condStack, CurrentActive(Top))
  /\ UNCHANGED <<files, record, output, limits, diags>>
----------------------------------------------------------------------------
(* Includes.                                                               *)

Cyclic(u) == includeStack[u] >= 2
TooDeep == Len(frames) > MaxIncludeDepth   \* f.depth+1 > MaxIncludeDepth

\* An include that reads no file: inactive, without a target, in a cycle or
\* too deep.  Without a resolver it is one that is optional and not found.
IncludeInactive(line) ==
  /\ line.kind = "include" /\ Reading(line) /\ ~CurrentActive(Top)
  /\ UNCHANGED <<files, frames, record, output, limits, diags>>

IncludeNotFound(line) ==
  /\ line.kind = "include" /\ Reading(line) /\ CurrentActive(Top)
  /\ line.uri = None
  /\ includes' = Append(includes, Include(File, Here, None, 0))
  /\ diags' = IF line.optional THEN diags ELSE diags \cup {Diag("not found")}
  /\ UNCHANGED <<files, frames, branches, macros, output, limits>>

IncludeCycle(line) ==
  /\ line.kind = "include" /\ Reading(line) /\ CurrentActive(Top)
  /\ line.uri # None /\ Cyclic(line.uri)
  /\ includes' = Append(includes, Include(File, Here, line.uri, 0))
  /\ diags' = diags \cup {Diag("cycle")}
  /\ UNCHANGED <<files, frames, branches, macros, output, limits>>

IncludeRefused(line) ==
  /\ line.kind = "include" /\ Reading(line) /\ CurrentActive(Top)
  /\ line.uri # None /\ ~Cyclic(line.uri) /\ TooDeep
  /\ includes' = Append(includes, Include(File, Here, line.uri, 0))
  /\ truncated' = TRUE
  /\ UNCHANGED <<files, frames, branches, macros, out, outputTokens, stopped, limits>>

IncludeTooDeep(line) ==
  /\ IncludeRefused(line)
  /\ diags' = diags \cup {Diag("include depth")}

\* The included file is read by a frame of its own; its include is recorded
\* when that frame is left.
OpenFile(line) ==
  /\ line.kind = "include" /\ Running /\ MayRead(Append(lines, <<>>), File, line)
  /\ line.uri # None /\ ~Cyclic(line.uri) /\ ~TooDeep
  /\ lines' = Append([lines EXCEPT ![File] = Append(lines[File], line)], <<>>)
  /\ files' = Append(files, line.uri)
  /\ frames' = Append(frames, Frame(line.uri, Len(files) + 1, <<>>, FALSE))
  /\ includeStack' = [includeStack EXCEPT ![line.uri] = includeStack[line.uri] + 1]
  /\ UNCHANGED <<record, output, depthLimitWarned, diags>>

Enter(line) == Running /\ CurrentActive(Top) /\ OpenFile(line)

\* engine.run returns: at the end of the file, after #endinput, or stopped.
Unterminated ==
  IF Top.condStack # <<>> /\ ~Top.endinput /\ ~stopped
  THEN {[code |-> "unterminated", file |-> File, line |-> Len(lines[File])]} ELSE {}

LeaveRoot ==
  /\ Len(frames) = 1
  /\ frames' = <<>>
  /\ diags' = diags \cup Unterminated
  /\ UNCHANGED <<lines, files, record, output, limits>>

Parent == frames[Len(frames) - 1].file

ReturnKeepingCount ==  \* a slip: the file counts as being read for ever
  /\ Len(frames) > 1
  /\ frames' = SubSeq(frames, 1, Len(frames) - 1)
  /\ diags' = diags \cup Unterminated
  /\ UNCHANGED <<includeStack, lines, files, branches, macros, output, depthLimitWarned>>

Return ==
  /\ Len(frames) > 1
  /\ frames' = SubSeq(frames, 1, Len(frames) - 1)
  /\ diags' = diags \cup Unterminated
  /\ includeStack' = [includeStack EXCEPT ![Top.uri] = includeStack[Top.uri] - 1]
  /\ UNCHANGED <<lines, files, branches, macros, output, depthLimitWarned>>

LeaveUnlessStopped ==  \* a slip: a stopped run drops the include
  /\ Return
  /\ includes' = IF stopped THEN includes
                 ELSE Append(includes, Include(Parent, Len(lines[Parent]), Top.uri, File))

Leave ==
  /\ Return
  /\ includes' = Append(includes, Include(Parent, Len(lines[Parent]), Top.uri, File))

\* A poll, or the tokenizer of an included file, sees that the context is
\* cancelled.  The frames are left; the caller gets an error, not a result.
Cancel ==
  /\ Running
  /\ stopped' = TRUE
  /\ UNCHANGED <<lines, files, frames, record, out, outputTokens, truncated, limits, diags>>

Handle(line) ==
  \/ Text(line) \/ ExpansionOverflow(line) \/ Define(line) \/ Undef(line) \/ Message(line)
  \/ If(line) \/ IfOverflow(line) \/ Unmatched(line) \/ AlternativeOverflow(line)
  \/ ElseifTaken(line) \/ Elseif(line) \/ Else(line) \/ Endif(line) \/ Endinput(line)
  \/ IncludeInactive(line) \/ IncludeNotFound(line) \/ IncludeCycle(line)
  \/ IncludeTooDeep(line) \/ Enter(line)

Next == (\E line \in Lines : Handle(line)) \/ LeaveRoot \/ Leave \/ Cancel

Spec == Init /\ [][Next]_vars
----------------------------------------------------------------------------
(* Types.                                                                  *)

CondFrameType ==
  [parentActive : BOOLEAN, branchActive : BOOLEAN, taken : BOOLEAN,
   openBranchIndex : Nat, overflow : BOOLEAN]
FrameType ==
  [uri : Uris, file : Nat, condStack : Seq(CondFrameType), endinput : BOOLEAN]
BranchType ==
  [file : Nat, directive : {"if", "elseif", "else"}, depth : Nat, from : Nat,
   to : Nat, active : BOOLEAN, evaluated : BOOLEAN]
IncludeType ==
  [file : Nat, line : Nat, uri : Uris \cup {None}, child : Nat]
Codes ==
  {"redefined", "message", "condition", "unmatched", "unterminated", "not found",
   "cycle", "expansion depth", "conditional depth", "include depth", "output limit"}

\* The engine's fields and the frames hold what their Go types promise, the
\* indices they hold are in range, and counters stay within their limits.
TypeOK ==
  /\ lines \in Seq(Seq(Lines)) /\ files \in Seq(Uris) /\ Len(lines) = Len(files)
  /\ frames \in Seq(FrameType)
  /\ \A n \in DOMAIN frames : frames[n].file \in DOMAIN files
  /\ macros \in [Names -> Bodies \cup {None}]
  /\ branches \in Seq(BranchType) /\ includes \in Seq(IncludeType)
  /\ out \subseteq [file : Nat, line : Nat, as : Bodies \cup {None}]
  /\ outputTokens \in 0..MaxOutputTokens + 1
  /\ truncated \in BOOLEAN /\ stopped \in BOOLEAN
  /\ includeStack \in [Uris -> Nat] /\ depthLimitWarned \in BOOLEAN
  /\ diags \subseteq [code : Codes, file : Nat, line : Nat]
----------------------------------------------------------------------------
(* Properties.                                                             *)

\* Only the innermost conditional is asked whether a line is passed on.
\* That is enough: if it is selected, so is every conditional around it, in
\* its own file and in the files that include it.
SelectedThroughout ==
  frames # <<>> /\ CurrentActive(Top) =>
    \A n \in DOMAIN frames : \A d \in DOMAIN frames[n].condStack :
      frames[n].condStack[d].branchActive

\* Of the branches of one conditional at most one is selected, and one with
\* an #else that was evaluated has a selected one.
SameConditional(i, j) ==
  /\ i < j /\ branches[i].file = branches[j].file
  /\ branches[i].depth = branches[j].depth
  /\ \A k \in i+1..j : branches[k].file = branches[j].file
       /\ branches[k].depth = branches[j].depth => branches[k].directive # "if"
OneBranchSelected ==
  \A j \in DOMAIN branches :
    /\ \A i \in 1..j-1 :
         SameConditional(i, j) => ~(branches[i].active /\ branches[j].active)
    /\ branches[j].directive = "else" /\ branches[j].evaluated =>
         \E i \in 1..j : branches[i].active /\ (i = j \/ SameConditional(i, j))

\* Branches are recorded "so callers can reconstruct active and inactive
\* views of the original source" (engine.go:80): within no limits exceeded, a
\* line of any file was passed on if and only if all branches around it are
\* active, in the published result as well as during the run.  A branch that
\* nothing closed has no body (to = from); it is around all the lines after
\* it, which a caller who reads only the bodies gets wrong.
Unclosed(branch) == branch.to = branch.from
Around(k, l) ==
  {i \in DOMAIN branches : /\ branches[i].file = k /\ branches[i].from < l
                           /\ l < branches[i].to \/ Unclosed(branches[i])}
PassedOn(k, l) == \E t \in out : t.file = k /\ t.line = l
BranchesTellTheView ==
  ~truncated =>
    \A k \in DOMAIN files : \A l \in DOMAIN lines[k] :
      lines[k][l].kind \in {"text", "use"} =>
        (PassedOn(k, l) <=> \A i \in Around(k, l) : branches[i].active)

\* includeStack agrees with the frames, however they are left, so that the
\* engine's recursion is bounded and no file is included more than twice
\* into itself.
BeingRead(u) == {n \in 2..Len(frames) : frames[n].uri = u}
IncludesBounded ==
  /\ Len(frames) <= MaxIncludeDepth + 1
  /\ \A u \in Uris : includeStack[u] = Cardinality(BeingRead(u)) /\ includeStack[u] <= 2

\* Every file that was read is either being read or the target of exactly
\* one recorded include, which stands in an earlier file.
FilesAccounted ==
  \A k \in 2..Len(files) :
    IF \E n \in DOMAIN frames : frames[n].file = k
    THEN \A i \in DOMAIN includes : includes[i].child # k
    ELSE \E i \in DOMAIN includes :
           /\ includes[i].child = k /\ includes[i].file < k
           /\ \A j \in DOMAIN includes : includes[j].child = k => i = j

\* A result that is cut off says why: the warning that conditionals and
\* expansions share is given once, but never left out the first time.
LimitCodes ==
  {"expansion depth", "conditional depth", "include depth", "output limit"}
TruncatedIsReported == truncated => \E d \in diags : d.code \in LimitCodes
=============================================================================
