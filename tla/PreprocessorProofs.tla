------------------------- MODULE PreprocessorProofs -------------------------
(***************************************************************************)
(* Proofs about Preprocessor, for every value of its constants: the types, *)
(* the bounds on recursion and output, the selection of lines, that a      *)
(* result that is cut off is reported, and what a run records; and, in the *)
(* last part, about PreprocessReuse, whose names are other ones.           *)
(*                                                                         *)
(* The inductive invariant is Inv.  Types need the two bounds, because     *)
(* leaving a file subtracts from includeStack, and the output has room for *)
(* one token more only until it is cut off.  SelectedThroughout needs that *)
(* the conditionals are chained, each knowing whether those around it are  *)
(* selected, also where a file is read from inside a conditional.          *)
(***************************************************************************)
EXTENDS Preprocessor, PreprocessReuse, FiniteSetTheorems, SequenceTheorems,
        WellFoundedInduction, TLAPS

\* While a limit is not exceeded there is room for the token that exceeds it.
Counted == ~truncated => outputTokens <= MaxOutputTokens

\* Replacing an element of a sequence leaves a sequence of the same length.
LEMMA SeqExcept ==
  ASSUME NEW S, NEW s \in Seq(S), NEW i \in DOMAIN s, NEW x \in S
  PROVE  /\ [s EXCEPT ![i] = x] \in Seq(S)
         /\ Len([s EXCEPT ![i] = x]) = Len(s)
         /\ DOMAIN [s EXCEPT ![i] = x] = DOMAIN s
         /\ [s EXCEPT ![i] = x][i] = x
         /\ \A j \in DOMAIN s : j # i => [s EXCEPT ![i] = x][j] = s[j]
OBVIOUS

\* The innermost frame is a frame, and reads a file that is known.
LEMMA TopType ==
  ASSUME TypeOK, frames # <<>>
  PROVE  /\ Len(frames) \in Nat \ {0} /\ Len(frames) \in DOMAIN frames
         /\ Top \in FrameType /\ File \in Nat
         /\ File \in DOMAIN files /\ File \in DOMAIN lines
         /\ lines[File] \in Seq(Lines) /\ Here \in Nat /\ Depth \in Nat
         /\ Depth > 0 => Cond \in CondFrameType
<1>1. Len(frames) \in Nat \ {0} /\ Len(frames) \in DOMAIN frames
  BY DEF TypeOK
<1>2. Top \in FrameType /\ File \in DOMAIN files
  BY <1>1 DEF TypeOK, Top, File
<1>3. File \in Nat /\ File \in DOMAIN lines
  BY <1>2 DEF TypeOK, File
<1>4. lines[File] \in Seq(Lines)
  BY <1>3 DEF TypeOK
<1>5. Top.condStack \in Seq(CondFrameType)
  BY <1>2 DEF FrameType
<1> QED BY <1>1, <1>2, <1>3, <1>4, <1>5 DEF Here, Depth, Cond

\* Reading a line makes the text of the innermost frame's file longer.
LEMMA ReadingType ==
  ASSUME TypeOK, NEW line \in Lines, Reading(line)
  PROVE  /\ frames # <<>> /\ ~Top.endinput
         /\ lines' \in Seq(Seq(Lines)) /\ Len(lines') = Len(lines)
<1>1. frames # <<>> /\ ~Top.endinput
  BY DEF Reading, Running
<1>2. Append(lines[File], line) \in Seq(Lines)
  BY <1>1, TopType
<1>3. lines \in Seq(Seq(Lines)) /\ File \in DOMAIN lines
  BY <1>1, TopType DEF TypeOK
<1>4. lines' = [lines EXCEPT ![File] = Append(lines[File], line)]
  BY DEF Reading
<1> QED BY <1>1, <1>2, <1>3, <1>4, SeqExcept

\* A frame whose conditionals changed is a frame of the same file.
LEMMA SetTopType ==
  ASSUME TypeOK, frames # <<>>, NEW cs \in Seq(CondFrameType), NEW e \in BOOLEAN,
         SetTop(cs, e)
  PROVE  /\ frames' \in Seq(FrameType) /\ Len(frames') = Len(frames)
         /\ \A n \in DOMAIN frames :
              frames'[n].file = frames[n].file /\ frames'[n].uri = frames[n].uri
         /\ \A n \in DOMAIN frames : n # Len(frames) => frames'[n] = frames[n]
         /\ frames'[Len(frames)] = Frame(Top.uri, File, cs, e)
<1>1. Frame(Top.uri, File, cs, e) \in FrameType
  BY TopType DEF Frame, FrameType
<1>2. frames' = [frames EXCEPT ![Len(frames)] = Frame(Top.uri, File, cs, e)]
  BY DEF SetTop
<1>3. Frame(Top.uri, File, cs, e).file = File /\ Frame(Top.uri, File, cs, e).uri = Top.uri
  BY DEF Frame
<1>4. frames \in Seq(FrameType) /\ Len(frames) \in DOMAIN frames
  BY TopType DEF TypeOK
<1> QED BY <1>1, <1>2, <1>3, <1>4, SeqExcept DEF Top, File

\* Branches stay branches when one is closed, or a new one is opened.
LEMMA BranchesType ==
  ASSUME TypeOK, frames # <<>>
  PROVE  /\ Depth > 0 => CloseBranch \in Seq(BranchType)
         /\ NextBranch \in Nat
         /\ \A known \in Seq(BranchType), d \in Nat, a, v \in BOOLEAN,
               k \in {"if", "elseif", "else"} :
              OpenBranch(known, k, d, a, v) \in Seq(BranchType)
<1>1. ASSUME Depth > 0 PROVE CloseBranch \in Seq(BranchType)
  <2> DEFINE i == Cond.openBranchIndex
             b == branches[i]
             c == Branch(b.file, b.directive, b.depth, b.from, Here, b.active, b.evaluated)
  <2>1. CASE i \in DOMAIN branches
    <3>1. b \in BranchType
      BY <2>1 DEF TypeOK
    <3>2. c \in BranchType
      BY <3>1, TopType DEF Branch, BranchType
    <3>3. CloseBranch = [branches EXCEPT ![i] = c]
      BY <2>1 DEF CloseBranch
    <3>4. branches \in Seq(BranchType)
      BY DEF TypeOK
    <3> HIDE DEF c, b, i
    <3> QED BY <2>1, <3>2, <3>3, <3>4, SeqExcept
  <2>2. CASE i \notin DOMAIN branches
    BY <2>2 DEF CloseBranch, TypeOK
  <2> QED BY <2>1, <2>2
<1>2. ASSUME NEW d \in Nat, NEW a \in BOOLEAN, NEW v \in BOOLEAN,
             NEW k \in {"if", "elseif", "else"}
      PROVE  Branch(File, k, d, Here, Here, a, v) \in BranchType
  BY TopType DEF Branch, BranchType
<1>3. NextBranch \in Nat
  BY DEF NextBranch, TypeOK
<1> QED BY <1>1, <1>2, <1>3 DEF OpenBranch

\* A diagnostic at the line being handled is one.
LEMMA DiagType ==
  ASSUME TypeOK, frames # <<>>, NEW code \in Codes
  PROVE  Diag(code) \in [code : Codes, file : Nat, line : Nat]
BY TopType DEF Diag
-----------------------------------------------------------------------------
(* Types, with the bounds they rest on.                                     *)

FramesOK ==
  /\ lines \in Seq(Seq(Lines)) /\ files \in Seq(Uris) /\ Len(lines) = Len(files)
  /\ frames \in Seq(FrameType)
  /\ \A n \in DOMAIN frames : frames[n].file \in DOMAIN files
RecordOK ==
  /\ macros \in [Names -> Bodies \cup {None}]
  /\ branches \in Seq(BranchType) /\ includes \in Seq(IncludeType)
OutputOK ==
  /\ out \subseteq [file : Nat, line : Nat, as : Bodies \cup {None}]
  /\ outputTokens \in 0..MaxOutputTokens + 1
  /\ truncated \in BOOLEAN /\ stopped \in BOOLEAN
LimitsOK ==
  includeStack \in [Uris -> Nat] /\ depthLimitWarned \in BOOLEAN
DiagsOK == diags \subseteq [code : Codes, file : Nat, line : Nat]

TypeInv == TypeOK /\ Counted /\ IncludesBounded

\* The type invariant, part by part.
LEMMA TypeParts == TypeOK <=> FramesOK /\ RecordOK /\ OutputOK /\ LimitsOK /\ DiagsOK
BY DEF TypeOK, FramesOK, RecordOK, OutputOK, LimitsOK, DiagsOK

\* A line that leaves the frames as they are.
LEMMA FramesStay ==
  ASSUME TypeInv, NEW line \in Lines, Reading(line), UNCHANGED <<files, frames, includeStack>>
  PROVE  FramesOK' /\ IncludesBounded'
<1>1. FramesOK'
  BY ReadingType DEF TypeInv, TypeOK, FramesOK
<1>2. IncludesBounded'
  BY DEF TypeInv, IncludesBounded, BeingRead
<1> QED BY <1>1, <1>2

\* A line that changes the conditionals of the innermost frame.
LEMMA FramesSet ==
  ASSUME TypeInv, NEW line \in Lines, Reading(line), UNCHANGED <<files, includeStack>>,
         NEW cs \in Seq(CondFrameType), NEW e \in BOOLEAN, SetTop(cs, e)
  PROVE  FramesOK' /\ IncludesBounded'
<1>1. frames # <<>> /\ lines' \in Seq(Seq(Lines)) /\ Len(lines') = Len(lines)
  BY ReadingType DEF TypeInv
<1>2. /\ frames' \in Seq(FrameType) /\ Len(frames') = Len(frames)
      /\ \A n \in DOMAIN frames :
           frames'[n].file = frames[n].file /\ frames'[n].uri = frames[n].uri
  BY <1>1, SetTopType DEF TypeInv
<1>3. FramesOK'
  <2>1. FramesOK
    BY TypeParts DEF TypeInv
  <2>2. DOMAIN frames' = DOMAIN frames
    BY <1>2, <2>1 DEF FramesOK
  <2> QED BY <1>1, <1>2, <2>1, <2>2 DEF FramesOK
<1>4. ASSUME NEW u \in Uris PROVE BeingRead(u)' = BeingRead(u)
  BY <1>2 DEF BeingRead, TypeInv, TypeOK
<1>5. IncludesBounded'
  BY <1>2, <1>4 DEF TypeInv, IncludesBounded
<1> QED BY <1>3, <1>5

\* Diagnostics may grow by one of the known codes.
LEMMA DiagsGrow ==
  ASSUME TypeInv, frames # <<>>, NEW code \in Codes,
         diags' = diags \/ diags' = diags \cup {Diag(code)}
  PROVE  DiagsOK'
BY DiagType DEF TypeInv, TypeOK, DiagsOK

\* Passing a token on.
LEMMA AppendOutType ==
  ASSUME TypeInv, frames # <<>>, NEW as \in Bodies \cup {None}, AppendOut(as)
  PROVE  OutputOK' /\ DiagsOK' /\ Counted'
<1>0. /\ outputTokens \in Nat /\ outputTokens <= MaxOutputTokens + 1
      /\ ~truncated => outputTokens <= MaxOutputTokens
      /\ MaxOutputTokens \in Nat
      /\ OutputOK /\ DiagsOK
  BY TypeParts, LimitsAssumption DEF TypeInv, OutputOK, Counted
<1>1. CASE truncated /\ UNCHANGED <<output, diags>>
  BY <1>0, <1>1 DEF output, OutputOK, DiagsOK, Counted
<1>2. CASE /\ ~truncated /\ outputTokens < MaxOutputTokens
           /\ outputTokens' = outputTokens + 1
           /\ out' = out \cup {[file |-> File, line |-> Here, as |-> as]}
           /\ UNCHANGED <<truncated, stopped, diags>>
  <2>1. [file |-> File, line |-> Here, as |-> as]
          \in [file : Nat, line : Nat, as : Bodies \cup {None}]
    BY TopType DEF TypeInv
  <2>2. outputTokens' \in 0..MaxOutputTokens + 1 /\ outputTokens' <= MaxOutputTokens
    BY <1>0, <1>2
  <2>3. out' \subseteq [file : Nat, line : Nat, as : Bodies \cup {None}]
    BY <1>0, <1>2, <2>1 DEF OutputOK
  <2> QED BY <1>0, <1>2, <2>2, <2>3 DEF OutputOK, DiagsOK, Counted
<1>3. CASE /\ ~truncated /\ outputTokens >= MaxOutputTokens
           /\ outputTokens' = outputTokens + 1
           /\ truncated' = TRUE /\ stopped' = TRUE
           /\ diags' = diags \cup {Diag("output limit")}
           /\ UNCHANGED out
  <2>0. outputTokens <= MaxOutputTokens /\ outputTokens' = outputTokens + 1
    BY <1>0, <1>3
  <2>1. outputTokens' \in 0..MaxOutputTokens + 1
    BY <1>0, <2>0
  <2>2. DiagsOK'
    BY <1>3, DiagsGrow DEF Codes
  <2> QED BY <1>0, <1>3, <2>1, <2>2 DEF OutputOK, Counted
<1> QED BY <1>1, <1>2, <1>3 DEF AppendOut

\* Output that stays, or is cut off, stays in its bounds.
LEMMA OutputStays ==
  ASSUME TypeInv, UNCHANGED <<out, outputTokens>>, stopped' \in BOOLEAN,
         truncated' = truncated \/ truncated' = TRUE
  PROVE  OutputOK' /\ Counted'
BY DEF TypeInv, TypeOK, OutputOK, Counted

\* Lines that change no conditional and enter no file keep the invariant.
LEMMA PlainStep ==
  ASSUME TypeInv, NEW line \in Lines,
         \/ Text(line) \/ ExpansionOverflow(line) \/ Define(line) \/ Undef(line)
         \/ Message(line) \/ Unmatched(line) \/ AlternativeOverflow(line)
         \/ IncludeInactive(line) \/ IncludeNotFound(line) \/ IncludeCycle(line)
         \/ IncludeTooDeep(line)
  PROVE  TypeInv'
<1> USE DEF record, output, limits
<1>0. line \in AllLines
  BY LinesAssumption
<1>1. Reading(line) /\ UNCHANGED <<files, frames, includeStack>>
  BY DEF Text, ExpansionOverflow, Define, Undef, Message, Unmatched, AlternativeOverflow,
         IncludeInactive, IncludeNotFound, IncludeCycle, IncludeTooDeep, IncludeRefused
<1>2. FramesOK' /\ IncludesBounded' /\ frames # <<>>
  BY <1>1, FramesStay, ReadingType DEF TypeInv
<1>3. RecordOK /\ OutputOK /\ LimitsOK /\ DiagsOK
  BY TypeParts DEF TypeInv
<1>4. RecordOK' /\ LimitsOK' /\ OutputOK' /\ Counted' /\ DiagsOK'
  <2>1. CASE Text(line)
    <3>1. CASE CurrentActive(Top)
      <4>1. IF line.kind = "use" THEN line.name \in Names ELSE TRUE
        BY <1>0 DEF AllLines
      <4>2. (IF line.kind = "use" THEN macros[line.name] ELSE None) \in Bodies \cup {None}
        BY <4>1 DEF TypeInv, TypeOK
      <4>3. AppendOut(IF line.kind = "use" THEN macros[line.name] ELSE None)
        BY <2>1, <3>1 DEF Text
      <4>4. OutputOK' /\ DiagsOK' /\ Counted'
        BY <1>2, <4>2, <4>3, AppendOutType
      <4> QED BY <1>3, <2>1, <4>4 DEF Text, RecordOK, LimitsOK
    <3>2. CASE ~CurrentActive(Top)
      BY <1>3, <2>1, <3>2 DEF Text, RecordOK, LimitsOK, OutputOK, DiagsOK, Counted, TypeInv
    <3> QED BY <3>1, <3>2
  <2>2. CASE ExpansionOverflow(line)
    <3>1. OutputOK' /\ Counted'
      BY <2>2, <1>3, OutputStays DEF ExpansionOverflow, DepthLimit, OutputOK
    <3>2. DiagsOK'
      BY <2>2, <1>2, DiagsGrow DEF ExpansionOverflow, DepthLimit, Codes
    <3> QED BY <1>3, <2>2, <3>1, <3>2 DEF ExpansionOverflow, DepthLimit, RecordOK, LimitsOK
  <2>3. CASE Define(line) \/ Undef(line) \/ Message(line)
    <3>1. /\ line.kind = "define" => line.name \in Names /\ line.body \in Bodies
          /\ line.kind = "undef" => line.name \in Names
      BY <1>0 DEF AllLines
    <3>2. RecordOK'
      BY <1>3, <2>3, <3>1 DEF Define, Undef, Message, RecordOK
    <3>3. DiagsOK'
      BY <1>2, <2>3, DiagsGrow DEF Define, Undef, Message, Codes, ActiveDiag
    <3>4. OutputOK' /\ Counted' /\ LimitsOK'
      BY <1>3, <2>3, OutputStays DEF Define, Undef, Message, OutputOK, LimitsOK
    <3> QED BY <3>2, <3>3, <3>4
  <2>4. CASE Unmatched(line) \/ AlternativeOverflow(line)
    <3>1. RecordOK'
      BY <1>2, <1>3, <2>4, BranchesType DEF Unmatched, AlternativeOverflow, RecordOK, TypeInv
    <3>2. DiagsOK'
      BY <1>2, <2>4, DiagsGrow DEF Unmatched, AlternativeOverflow, Codes
    <3>3. OutputOK' /\ Counted' /\ LimitsOK'
      BY <1>3, <2>4, OutputStays DEF Unmatched, AlternativeOverflow, OutputOK, LimitsOK
    <3> QED BY <3>1, <3>2, <3>3
  <2>5. CASE \/ IncludeInactive(line) \/ IncludeNotFound(line) \/ IncludeCycle(line)
             \/ IncludeTooDeep(line)
    <3>1. line.kind = "include" => line.uri \in Uris \cup {None}
      BY <1>0 DEF AllLines
    <3>2. \A u \in Uris \cup {None} : Include(File, Here, u, 0) \in IncludeType
      BY <1>2, TopType DEF Include, IncludeType, TypeInv
    <3>3. RecordOK'
      <4> HIDE DEF Include, IncludeType
      <4>1. includes \in Seq(IncludeType)
        BY <1>3 DEF RecordOK
      <4>0. \/ includes' = includes
            \/ \E u \in Uris \cup {None} :
                 includes' = Append(includes, Include(File, Here, u, 0))
        BY <2>5, <3>1 DEF IncludeInactive, IncludeNotFound, IncludeCycle,
           IncludeTooDeep, IncludeRefused
      <4>2. includes' \in Seq(IncludeType)
        BY <3>2, <4>0, <4>1
      <4>3. macros' = macros /\ branches' = branches
        BY <2>5 DEF IncludeInactive, IncludeNotFound, IncludeCycle, IncludeTooDeep,
           IncludeRefused
      <4> QED BY <1>3, <4>2, <4>3 DEF RecordOK
    <3>4. DiagsOK'
      BY <1>2, <2>5, DiagsGrow DEF IncludeInactive, IncludeNotFound, IncludeCycle,
         IncludeTooDeep, IncludeRefused, Codes
    <3>5. OutputOK' /\ Counted' /\ LimitsOK'
      BY <1>3, <2>5, OutputStays DEF IncludeInactive, IncludeNotFound, IncludeCycle,
         IncludeTooDeep, IncludeRefused, OutputOK, LimitsOK
    <3> QED BY <3>3, <3>4, <3>5
  <2> QED BY <2>1, <2>2, <2>3, <2>4, <2>5
<1> QED BY <1>2, <1>4, TypeParts DEF TypeInv, TypeOK, FramesOK, RecordOK, OutputOK, LimitsOK, DiagsOK

\* The stacks of conditionals that the handlers build.
LEMMA StackTypes ==
  ASSUME TypeOK, frames # <<>>
  PROVE  /\ Top.condStack \in Seq(CondFrameType)
         /\ \A c \in CondFrameType :
              /\ Append(Top.condStack, c) \in Seq(CondFrameType)
              /\ Depth > 0 => Replace(c) \in Seq(CondFrameType)
         /\ Depth > 0 => SubSeq(Top.condStack, 1, Depth - 1) \in Seq(CondFrameType)
<1>1. Top.condStack \in Seq(CondFrameType) /\ Depth = Len(Top.condStack) /\ Depth \in Nat
  BY TopType DEF FrameType, Depth
<1>2. ASSUME NEW c \in CondFrameType
      PROVE  /\ Append(Top.condStack, c) \in Seq(CondFrameType)
             /\ Depth > 0 => Replace(c) \in Seq(CondFrameType)
  BY <1>1, SeqExcept DEF Replace
<1>3. ASSUME Depth > 0 PROVE SubSeq(Top.condStack, 1, Depth - 1) \in Seq(CondFrameType)
  <2>1. ASSUME NEW i \in 1..Depth - 1 PROVE Top.condStack[i] \in CondFrameType
    BY <1>1, <1>3
  <2> QED BY <1>1, <1>3, <2>1
<1> QED BY <1>1, <1>2, <1>3
-----------------------------------------------------------------------------
(* Conditionals.                                                            *)

\* A conditional that is selected, or could be, stands inside selected ones.
Chained(condStack) ==
  \A d \in DOMAIN condStack :
    condStack[d].parentActive \/ condStack[d].branchActive =>
      \A e \in 1..d-1 : condStack[e].branchActive

\* The same across files: an include is read only while its line is active.
Nested ==
  \A n \in DOMAIN frames :
    Chained(frames[n].condStack) /\ (n < Len(frames) => CurrentActive(frames[n]))

\* If the innermost conditional is selected then all of its file are.
LEMMA ActiveThroughout ==
  ASSUME NEW f \in FrameType, Chained(f.condStack), CurrentActive(f)
  PROVE  \A d \in DOMAIN f.condStack : f.condStack[d].branchActive
<1>1. f.condStack \in Seq(CondFrameType)
  BY DEF FrameType
<1>2. ASSUME NEW d \in DOMAIN f.condStack PROVE f.condStack[d].branchActive
  <2>1. Len(f.condStack) \in DOMAIN f.condStack /\ d \in 1..Len(f.condStack)
        /\ f.condStack # <<>> /\ Len(f.condStack) \in Nat
    BY <1>1, <1>2
  <2>2. f.condStack[Len(f.condStack)].branchActive
    BY <2>1 DEF CurrentActive
  <2> QED BY <2>1, <2>2 DEF Chained
<1> QED BY <1>2

\* A new innermost conditional is chained if it is not selected on its own.
LEMMA ChainedAppend ==
  ASSUME TypeOK, Nested, frames # <<>>, NEW c \in CondFrameType,
         c.parentActive = CurrentActive(Top), c.branchActive => c.parentActive
  PROVE  Chained(Append(Top.condStack, c))
<1> DEFINE s == Top.condStack
           r == Append(s, c)
<1>1. s \in Seq(CondFrameType) /\ Top \in FrameType
  BY TopType DEF FrameType
<1>2. Chained(s)
  BY TopType DEF Nested, Top
<1>3. ASSUME NEW d \in DOMAIN r, r[d].parentActive \/ r[d].branchActive, NEW e \in 1..d-1
      PROVE  r[e].branchActive
  <2>1. d \in 1..Len(s) + 1 /\ e \in 1..Len(s) /\ r[e] = s[e] /\ Len(s) \in Nat
    BY <1>1, <1>3
  <2>2. CASE d = Len(s) + 1
    <3>1. c.parentActive
      BY <1>1, <1>3, <2>2
    <3>2. CurrentActive(Top)
      BY <3>1
    <3> QED BY <1>1, <1>2, <2>1, <3>2, ActiveThroughout
  <2>3. CASE d # Len(s) + 1
    <3>1. d \in DOMAIN s /\ r[d] = s[d]
      BY <1>1, <2>1, <2>3
    <3> QED BY <1>2, <1>3, <2>1, <3>1 DEF Chained
  <2> QED BY <2>2, <2>3
<1> HIDE DEF r
<1>4. Chained(r)
  BY <1>3 DEF Chained
<1> QED BY <1>4 DEF r

\* Another branch of the innermost conditional, if selected only when it may.
LEMMA ChainedReplace ==
  ASSUME TypeOK, Nested, frames # <<>>, Depth > 0, NEW c \in CondFrameType,
         c.parentActive = Cond.parentActive, c.branchActive => c.parentActive
  PROVE  Chained(Replace(c))
<1> DEFINE s == Top.condStack
           r == Replace(c)
<1>1. s \in Seq(CondFrameType) /\ Depth \in DOMAIN s /\ Depth = Len(s) /\ Depth \in Nat
  BY TopType DEF FrameType, Depth
<1>2. Chained(s)
  BY TopType DEF Nested, Top
<1>3. /\ DOMAIN r = DOMAIN s /\ r[Depth] = c
      /\ \A d \in DOMAIN s : d # Depth => r[d] = s[d]
  BY <1>1, SeqExcept DEF Replace
<1> HIDE DEF r
<1>4. ASSUME NEW d \in DOMAIN r, r[d].parentActive \/ r[d].branchActive, NEW e \in 1..d-1
      PROVE  r[e].branchActive
  <2>1. s[d].parentActive \/ s[d].branchActive
    BY <1>3, <1>4 DEF Cond
  <2>2. e \in DOMAIN s /\ e # Depth
    BY <1>1, <1>3, <1>4
  <2>3. s[e].branchActive
    BY <1>2, <1>3, <1>4, <2>1 DEF Chained
  <2> QED BY <1>3, <2>2, <2>3
<1>5. Chained(r)
  BY <1>4 DEF Chained
<1> QED BY <1>5 DEF r

\* What is left when the innermost conditional ends.
LEMMA ChainedFront ==
  ASSUME TypeOK, Nested, frames # <<>>, Depth > 0
  PROVE  Chained(SubSeq(Top.condStack, 1, Depth - 1))
<1> DEFINE s == Top.condStack
           r == SubSeq(s, 1, Depth - 1)
<1>1. s \in Seq(CondFrameType) /\ Depth = Len(s) /\ Depth \in Nat
  BY TopType DEF FrameType, Depth
<1>2. Chained(s)
  BY TopType DEF Nested, Top
<1>3. DOMAIN r = 1..Depth - 1 /\ \A d \in DOMAIN r : d \in DOMAIN s /\ r[d] = s[d]
  BY <1>1
<1> HIDE DEF r
<1>4. Chained(r)
  BY <1>1, <1>2, <1>3 DEF Chained
<1> QED BY <1>4 DEF r

\* The frames stay nested when the innermost one has another chained stack.
LEMMA NestedSet ==
  ASSUME TypeOK, Nested, frames # <<>>, NEW cs \in Seq(CondFrameType), NEW e \in BOOLEAN,
         Chained(cs), SetTop(cs, e)
  PROVE  Nested'
<1>1. /\ frames' \in Seq(FrameType) /\ Len(frames') = Len(frames)
      /\ \A n \in DOMAIN frames : n # Len(frames) => frames'[n] = frames[n]
      /\ frames'[Len(frames)] = Frame(Top.uri, File, cs, e)
  BY SetTopType
<1>2. DOMAIN frames' = DOMAIN frames /\ Len(frames) \in Nat
  BY <1>1 DEF TypeOK
<1>3. ASSUME NEW n \in DOMAIN frames
      PROVE  Chained(frames'[n].condStack)
             /\ (n < Len(frames) => CurrentActive(frames'[n]))
  <2>1. CASE n = Len(frames)
    BY <1>1, <1>2, <2>1 DEF Frame
  <2>2. CASE n # Len(frames)
    BY <1>1, <2>2 DEF Nested
  <2> QED BY <2>1, <2>2
<1> QED BY <1>1, <1>2, <1>3 DEF Nested, Chained, CurrentActive

Inv == TypeInv /\ Nested

\* A handler that gives the innermost frame another chained stack, and at most
\* records branches and one diagnostic, keeps the invariant.
LEMMA StackStep ==
  ASSUME Inv, NEW line \in Lines, Reading(line),
         NEW cs \in Seq(CondFrameType), NEW e \in BOOLEAN, Chained(cs), SetTop(cs, e),
         branches' \in Seq(BranchType), NEW code \in Codes,
         diags' = diags \/ diags' = diags \cup {Diag(code)},
         truncated' = truncated \/ truncated' = TRUE, depthLimitWarned' \in BOOLEAN,
         UNCHANGED <<files, includes, macros, out, outputTokens, stopped, includeStack>>
  PROVE  Inv'
<1>1. frames # <<>> /\ RecordOK /\ OutputOK /\ LimitsOK /\ DiagsOK
  BY ReadingType, TypeParts DEF Inv, TypeInv
<1>2. FramesOK' /\ IncludesBounded'
  BY FramesSet DEF Inv
<1>3. Nested'
  BY <1>1, NestedSet DEF Inv, TypeInv
<1>4. OutputOK' /\ Counted'
  BY <1>1, OutputStays DEF Inv, OutputOK
<1>5. DiagsOK'
  BY <1>1, DiagsGrow DEF Inv
<1>6. RecordOK' /\ LimitsOK'
  BY <1>1 DEF RecordOK, LimitsOK
<1>7. TypeOK'
  BY <1>2, <1>4, <1>5, <1>6
     DEF TypeOK, FramesOK, RecordOK, OutputOK, LimitsOK, DiagsOK
<1> QED BY <1>2, <1>3, <1>4, <1>7 DEF Inv, TypeInv

\* Conditionals and #endinput keep the invariant.
LEMMA ConditionalStep ==
  ASSUME Inv, NEW line \in Lines,
         \/ If(line) \/ IfOverflow(line) \/ ElseifTaken(line) \/ Elseif(line)
         \/ Else(line) \/ Endif(line) \/ Endinput(line)
  PROVE  Inv'
<1> USE DEF output, limits, record
<1>1. Reading(line) /\ frames # <<>> /\ TypeOK /\ Nested /\ RecordOK /\ OutputOK /\ LimitsOK
  <2>1. Reading(line)
    BY DEF If, IfOverflow, ElseifTaken, Elseif, Else, Endif, Endinput
  <2> QED BY <2>1, ReadingType, TypeParts DEF Inv, TypeInv
<1>2. /\ CurrentActive(Top) \in BOOLEAN /\ NextBranch \in Nat /\ Depth \in Nat
      /\ Depth > 0 => /\ Cond.parentActive \in BOOLEAN /\ Cond.branchActive \in BOOLEAN
                      /\ Cond.taken \in BOOLEAN /\ CloseBranch \in Seq(BranchType)
      /\ branches \in Seq(BranchType)
  <2>1. CurrentActive(Top) \in BOOLEAN
    BY DEF CurrentActive
  <2>2. Depth > 0 => Cond \in CondFrameType
    BY <1>1, TopType
  <2> QED BY <1>1, <2>1, <2>2, TopType, BranchesType DEF CondFrameType, RecordOK
<1>3. \A c \in CondFrameType :
        /\ Append(Top.condStack, c) \in Seq(CondFrameType)
        /\ Depth > 0 => Replace(c) \in Seq(CondFrameType)
  BY <1>1, StackTypes
<1>4. CASE If(line)
  <2> DEFINE p == CurrentActive(Top)
             a == p /\ Holds(line.cond)
             c == CondFrame(p, a, a, NextBranch, FALSE)
  <2>1. p \in BOOLEAN /\ a \in BOOLEAN /\ (a => p)
    BY <1>2
  <2>2. c \in CondFrameType /\ c.parentActive = p /\ c.branchActive = a
        /\ Append(Top.condStack, c) \in Seq(CondFrameType)
    <3>1. c \in CondFrameType /\ c.parentActive = p /\ c.branchActive = a
      BY <1>2, <2>1 DEF CondFrame, CondFrameType
    <3> HIDE DEF c
    <3> QED BY <1>3, <2>1, <3>1
  <2>3. SetTop(Append(Top.condStack, c), FALSE)
    BY <1>4 DEF If
  <2>4. branches' \in Seq(BranchType)
    <3>1. branches' = OpenBranch(branches, "if", Depth + 1, a, p)
      BY <1>4 DEF If
    <3> HIDE DEF a, p
    <3> QED BY <1>1, <1>2, <2>1, <3>1, BranchesType
  <2>5. diags' = diags \/ diags' = diags \cup {Diag("condition")}
    BY <1>4 DEF If, ConditionDiag
  <2>6. UNCHANGED <<files, includes, macros, output, limits>>
    BY <1>4 DEF If
  <2> HIDE DEF c, a
  <2>7. Chained(Append(Top.condStack, c))
    BY <1>1, <2>1, <2>2, ChainedAppend
  <2> QED BY <1>1, <2>2, <2>3, <2>4, <2>5, <2>6, <2>7, StackStep DEF Codes, LimitsOK
<1>5. CASE IfOverflow(line)
  <2> DEFINE p == CurrentActive(Top)
             c == CondFrame(p, FALSE, TRUE, 1, TRUE)
  <2>1. c \in CondFrameType /\ c.parentActive = p /\ c.branchActive = FALSE
        /\ Append(Top.condStack, c) \in Seq(CondFrameType)
    <3>1. c \in CondFrameType /\ c.parentActive = p /\ c.branchActive = FALSE
      BY <1>2 DEF CondFrame, CondFrameType
    <3> HIDE DEF c
    <3> QED BY <1>3, <3>1
  <2>2. SetTop(Append(Top.condStack, c), FALSE)
    BY <1>5 DEF IfOverflow
  <2>3. diags' = diags \/ diags' = diags \cup {Diag("conditional depth")}
    BY <1>5 DEF IfOverflow, DepthLimit
  <2>4. /\ UNCHANGED <<files, record, out, outputTokens, stopped, includeStack>>
        /\ truncated' = TRUE /\ depthLimitWarned' = TRUE
    BY <1>5 DEF IfOverflow, DepthLimit
  <2> HIDE DEF c
  <2>5. Chained(Append(Top.condStack, c))
    BY <1>1, <2>1, ChainedAppend
  <2> QED BY <1>1, <1>2, <2>1, <2>2, <2>3, <2>4, <2>5, StackStep DEF Codes
<1>6. CASE ElseifTaken(line)
  <2> DEFINE c == CondFrame(Cond.parentActive, FALSE, TRUE, NextBranch, FALSE)
  <2>0. Depth > 0
    BY <1>6 DEF ElseifTaken
  <2>1. c \in CondFrameType /\ c.parentActive = Cond.parentActive /\ c.branchActive = FALSE
        /\ Replace(c) \in Seq(CondFrameType)
    <3>1. c \in CondFrameType /\ c.parentActive = Cond.parentActive /\ c.branchActive = FALSE
      BY <1>2, <2>0 DEF CondFrame, CondFrameType
    <3> HIDE DEF c
    <3> QED BY <1>3, <2>0, <3>1
  <2>2. SetTop(Replace(c), FALSE)
    BY <1>6 DEF ElseifTaken
  <2>3. branches' \in Seq(BranchType)
    BY <1>1, <1>2, <1>6, <2>0, BranchesType DEF ElseifTaken
  <2>4. UNCHANGED <<files, includes, macros, output, limits, diags>>
    BY <1>6 DEF ElseifTaken
  <2> HIDE DEF c
  <2>5. Chained(Replace(c))
    BY <1>1, <2>0, <2>1, ChainedReplace
  <2> QED BY <1>1, <2>1, <2>2, <2>3, <2>4, <2>5, StackStep DEF Codes, LimitsOK
<1>7. CASE Elseif(line)
  <2> DEFINE a == Cond.parentActive /\ Holds(line.cond)
             c == CondFrame(Cond.parentActive, a, a, NextBranch, FALSE)
  <2>0. Depth > 0 /\ a \in BOOLEAN /\ (a => Cond.parentActive)
    BY <1>7 DEF Elseif
  <2>1. c \in CondFrameType /\ c.parentActive = Cond.parentActive /\ c.branchActive = a
        /\ Replace(c) \in Seq(CondFrameType)
    <3>1. c \in CondFrameType /\ c.parentActive = Cond.parentActive /\ c.branchActive = a
      BY <1>2, <2>0 DEF CondFrame, CondFrameType
    <3> HIDE DEF c
    <3> QED BY <1>3, <2>0, <3>1
  <2>2. SetTop(Replace(c), FALSE)
    BY <1>7 DEF Elseif
  <2>3. branches' \in Seq(BranchType)
    <3>1. branches' = OpenBranch(CloseBranch, "elseif", Depth, a, Cond.parentActive)
      BY <1>7 DEF Elseif
    <3> HIDE DEF a
    <3> QED BY <1>1, <1>2, <2>0, <3>1, BranchesType
  <2>4. diags' = diags \/ diags' = diags \cup {Diag("condition")}
    BY <1>7 DEF Elseif, ConditionDiag
  <2>5. UNCHANGED <<files, includes, macros, output, limits>>
    BY <1>7 DEF Elseif
  <2> HIDE DEF c, a
  <2>6. Chained(Replace(c))
    BY <1>1, <2>0, <2>1, ChainedReplace
  <2> QED BY <1>1, <2>1, <2>2, <2>3, <2>4, <2>5, <2>6, StackStep DEF Codes, LimitsOK
<1>8. CASE Else(line)
  <2> DEFINE a == ElseSelected(Cond)
             t == Cond.taken \/ a
             c == CondFrame(Cond.parentActive, a, t, NextBranch, FALSE)
  <2>0. Depth > 0 /\ a \in BOOLEAN /\ t \in BOOLEAN /\ (a => Cond.parentActive)
    BY <1>2, <1>8 DEF Else, ElseSelected
  <2>1. c \in CondFrameType /\ c.parentActive = Cond.parentActive /\ c.branchActive = a
        /\ Replace(c) \in Seq(CondFrameType)
    <3>1. c \in CondFrameType /\ c.parentActive = Cond.parentActive /\ c.branchActive = a
      BY <1>2, <2>0 DEF CondFrame, CondFrameType
    <3> HIDE DEF c
    <3> QED BY <1>3, <2>0, <3>1
  <2>2. SetTop(Replace(c), FALSE)
    BY <1>8 DEF Else
  <2>3. branches' \in Seq(BranchType)
    <3>1. branches' = OpenBranch(CloseBranch, "else", Depth, a, Cond.parentActive)
      BY <1>8 DEF Else
    <3> HIDE DEF a
    <3> QED BY <1>1, <1>2, <2>0, <3>1, BranchesType
  <2>4. UNCHANGED <<files, includes, macros, output, limits, diags>>
    BY <1>8 DEF Else
  <2> HIDE DEF c, a, t
  <2>5. Chained(Replace(c))
    BY <1>1, <2>0, <2>1, ChainedReplace
  <2> QED BY <1>1, <2>1, <2>2, <2>3, <2>4, <2>5, StackStep DEF Codes, LimitsOK
<1>9. CASE Endif(line)
  <2> DEFINE s == SubSeq(Top.condStack, 1, Depth - 1)
  <2>0. Depth > 0 /\ SetTop(s, FALSE)
    BY <1>9 DEF Endif
  <2>1. s \in Seq(CondFrameType) /\ Chained(s)
    BY <1>1, <2>0, StackTypes, ChainedFront
  <2>2. branches' \in Seq(BranchType)
    BY <1>2, <1>9, <2>0 DEF Endif
  <2>3. UNCHANGED <<files, includes, macros, output, limits, diags>>
    BY <1>9 DEF Endif
  <2> HIDE DEF s
  <2> QED BY <1>1, <2>0, <2>1, <2>2, <2>3, StackStep DEF Codes, LimitsOK
<1>10. CASE Endinput(line)
  <2>1. Top.condStack \in Seq(CondFrameType) /\ Chained(Top.condStack)
    BY <1>1, StackTypes, TopType DEF Nested, Top
  <2>2. SetTop(Top.condStack, CurrentActive(Top))
    BY <1>10 DEF Endinput
  <2>3. UNCHANGED <<files, record, output, limits, diags>>
    BY <1>10 DEF Endinput
  <2> QED BY <1>1, <1>2, <2>1, <2>2, <2>3, StackStep DEF Codes, LimitsOK
<1> QED BY <1>4, <1>5, <1>6, <1>7, <1>8, <1>9, <1>10
-----------------------------------------------------------------------------
(* Files.                                                                   *)

\* What holds of the frames when a file is entered, or left.
LEMMA EnterFrames ==
  ASSUME Inv, NEW line \in Lines, Enter(line)
  PROVE  FramesOK' /\ Nested'
<1>1. /\ Running /\ CurrentActive(Top) /\ line.kind = "include" /\ line.uri # None
      /\ lines' = Append([lines EXCEPT ![File] = Append(lines[File], line)], <<>>)
      /\ files' = Append(files, line.uri)
      /\ frames' = Append(frames, Frame(line.uri, Len(files) + 1, <<>>, FALSE))
  BY DEF Enter, OpenFile
<1>2. frames # <<>> /\ TypeOK /\ FramesOK /\ Nested
  BY <1>1, TypeParts DEF Running, Inv, TypeInv
<1>3. line.uri \in Uris
  <2>1. line \in AllLines
    BY LinesAssumption
  <2> QED BY <1>1, <2>1 DEF AllLines
<1>4. lines' \in Seq(Seq(Lines)) /\ Len(lines') = Len(lines) + 1
  <2> DEFINE m == [lines EXCEPT ![File] = Append(lines[File], line)]
  <2>1. Append(lines[File], line) \in Seq(Lines) /\ File \in DOMAIN lines
    BY <1>2, TopType
  <2>2. m \in Seq(Seq(Lines)) /\ Len(m) = Len(lines)
    BY <1>2, <2>1, SeqExcept DEF FramesOK
  <2> HIDE DEF m
  <2>3. <<>> \in Seq(Lines) /\ lines' = Append(m, <<>>)
    BY <1>1 DEF m
  <2> QED BY <2>2, <2>3
<1>5. files \in Seq(Uris) /\ files' \in Seq(Uris) /\ Len(files') = Len(files) + 1
      /\ Len(files) \in Nat
  BY <1>1, <1>2, <1>3 DEF FramesOK
<1> DEFINE f == Frame(line.uri, Len(files) + 1, <<>>, FALSE)
<1>6. f \in FrameType /\ f.file = Len(files) + 1 /\ f.condStack = <<>>
  BY <1>3, <1>5 DEF Frame, FrameType
<1>7. frames' = Append(frames, f)
  BY <1>1
<1> HIDE DEF f
<1>8. /\ frames \in Seq(FrameType) /\ frames' \in Seq(FrameType)
      /\ Len(frames') = Len(frames) + 1 /\ Len(frames) \in Nat
      /\ frames'[Len(frames) + 1] = f
      /\ \A n \in DOMAIN frames : frames'[n] = frames[n]
  BY <1>2, <1>6, <1>7 DEF FramesOK
<1>9. FramesOK'
  <2>1. ASSUME NEW n \in DOMAIN frames' PROVE frames'[n].file \in DOMAIN files'
    <3>1. CASE n = Len(frames) + 1
      BY <1>5, <1>6, <1>8, <3>1
    <3>2. CASE n # Len(frames) + 1
      <4>1. n \in DOMAIN frames /\ frames'[n] = frames[n]
        BY <1>8, <3>2
      <4> QED BY <1>2, <1>5, <4>1 DEF FramesOK
    <3> QED BY <3>1, <3>2
  <2> QED BY <1>2, <1>4, <1>5, <1>8, <2>1 DEF FramesOK
<1>10. Nested'
  <2>1. ASSUME NEW n \in DOMAIN frames'
        PROVE  Chained(frames'[n].condStack)
               /\ (n < Len(frames') => CurrentActive(frames'[n]))
    <3>1. CASE n = Len(frames) + 1
      BY <1>6, <1>8, <3>1 DEF Chained
    <3>2. CASE n # Len(frames) + 1
      <4>1. n \in DOMAIN frames /\ frames'[n] = frames[n] /\ n \in 1..Len(frames)
        BY <1>8, <3>2
      <4>2. CurrentActive(frames[n])
        BY <1>1, <1>2, <1>8, <4>1 DEF Nested, Top
      <4> QED BY <1>2, <4>1, <4>2 DEF Nested
    <3> QED BY <3>1, <3>2
  <2> QED BY <2>1 DEF Nested, Chained, CurrentActive
<1> QED BY <1>9, <1>10

\* The frames that read u are finitely many.
LEMMA BeingReadFinite ==
  ASSUME FramesOK, NEW u \in Uris
  PROVE  IsFiniteSet(BeingRead(u)) /\ Cardinality(BeingRead(u)) \in Nat
<1>1. Len(frames) \in Nat
  BY DEF FramesOK
<1>2. IsFiniteSet(2..Len(frames))
  BY <1>1, FS_Interval
<1>3. BeingRead(u) \subseteq 2..Len(frames)
  BY DEF BeingRead
<1>4. IsFiniteSet(BeingRead(u))
  BY <1>2, <1>3, FS_Subset
<1> QED BY <1>4, FS_CardinalityType

\* Entering a file counts it once more, and at most twice.
LEMMA EnterBounded ==
  ASSUME Inv, NEW line \in Lines, Enter(line)
  PROVE  IncludesBounded' /\ includeStack' \in [Uris -> Nat]
<1>1. /\ Running /\ line.kind = "include" /\ line.uri # None
      /\ ~Cyclic(line.uri) /\ ~TooDeep
      /\ frames' = Append(frames, Frame(line.uri, Len(files) + 1, <<>>, FALSE))
      /\ includeStack' = [includeStack EXCEPT ![line.uri] = includeStack[line.uri] + 1]
  BY DEF Enter, OpenFile
<1>2. /\ frames # <<>> /\ TypeOK /\ FramesOK /\ IncludesBounded
      /\ includeStack \in [Uris -> Nat]
  BY <1>1, TypeParts DEF Running, Inv, TypeInv, LimitsOK
<1>3. line.uri \in Uris
  <2>1. line \in AllLines
    BY LinesAssumption
  <2> QED BY <1>1, <2>1 DEF AllLines
<1> DEFINE f == Frame(line.uri, Len(files) + 1, <<>>, FALSE)
<1>4. f.uri = line.uri /\ frames' = Append(frames, f)
  BY <1>1 DEF Frame
<1> HIDE DEF f
<1>5. /\ Len(frames') = Len(frames) + 1 /\ Len(frames) \in Nat \ {0}
      /\ frames'[Len(frames) + 1] = f
      /\ \A n \in 1..Len(frames) : frames'[n] = frames[n]
  <2>1. frames \in Seq(FrameType) /\ Len(frames) \in Nat \ {0}
    BY <1>2, TopType DEF FramesOK
  <2> QED BY <1>4, <2>1
<1>6. includeStack' \in [Uris -> Nat]
  BY <1>1, <1>2, <1>3
<1>7. Len(frames') <= MaxIncludeDepth + 1
  <2>1. Len(frames) <= MaxIncludeDepth
    BY <1>1, <1>5, LimitsAssumption DEF TooDeep
  <2> QED BY <1>5, <2>1, LimitsAssumption
<1>8. ASSUME NEW u \in Uris
      PROVE  includeStack'[u] = Cardinality(BeingRead(u)') /\ includeStack'[u] <= 2
  <2>1. /\ includeStack[u] = Cardinality(BeingRead(u)) /\ includeStack[u] <= 2
        /\ IsFiniteSet(BeingRead(u)) /\ Cardinality(BeingRead(u)) \in Nat
    BY <1>2, BeingReadFinite DEF IncludesBounded
  <2>2. CASE u = line.uri
    <3>1. BeingRead(u)' = BeingRead(u) \cup {Len(frames) + 1}
      BY <1>4, <1>5, <2>2 DEF BeingRead
    <3>2. Len(frames) + 1 \notin BeingRead(u)
      BY <1>5 DEF BeingRead
    <3>3. Cardinality(BeingRead(u)') = Cardinality(BeingRead(u)) + 1
      BY <2>1, <3>1, <3>2, FS_AddElement
    <3>4. includeStack'[u] = includeStack[u] + 1
      BY <1>1, <1>2, <1>3, <2>2
    <3>5. includeStack[u] < 2
      BY <1>1, <2>1, <2>2 DEF Cyclic
    <3> QED BY <2>1, <3>3, <3>4, <3>5
  <2>3. CASE u # line.uri
    <3>1. BeingRead(u)' = BeingRead(u)
      BY <1>4, <1>5, <2>3 DEF BeingRead
    <3>2. includeStack'[u] = includeStack[u]
      BY <1>1, <1>2, <2>3
    <3> QED BY <2>1, <3>1, <3>2
  <2> QED BY <2>2, <2>3
<1> QED BY <1>6, <1>7, <1>8 DEF IncludesBounded

\* Entering a file keeps the invariant.
LEMMA EnterStep ==
  ASSUME Inv, NEW line \in Lines, Enter(line)
  PROVE  Inv'
<1>1. UNCHANGED <<record, output, depthLimitWarned, diags>>
  BY DEF Enter, OpenFile
<1>2. /\ RecordOK /\ OutputOK /\ DiagsOK /\ Counted /\ depthLimitWarned \in BOOLEAN
  BY TypeParts DEF Inv, TypeInv, LimitsOK
<1>3. RecordOK' /\ OutputOK' /\ DiagsOK' /\ Counted' /\ depthLimitWarned' \in BOOLEAN
  BY <1>1, <1>2 DEF record, output, RecordOK, OutputOK, DiagsOK, Counted
<1>4. TypeOK'
  BY <1>3, EnterFrames, EnterBounded
     DEF TypeOK, FramesOK, RecordOK, OutputOK, LimitsOK, DiagsOK
<1> QED BY <1>3, <1>4, EnterFrames, EnterBounded DEF Inv, TypeInv

\* Leaving a frame: the files around it are as they were.
LEMMA LeaveFrames ==
  ASSUME Inv, Return
  PROVE  FramesOK' /\ Nested'
<1>1. /\ frames' = SubSeq(frames, 1, Len(frames) - 1) /\ Len(frames) > 1
      /\ UNCHANGED <<lines, files>>
  BY DEF Return
<1>2. FramesOK /\ Nested /\ frames \in Seq(FrameType) /\ Len(frames) \in Nat
  BY TypeParts DEF Inv, TypeInv, FramesOK
<1>3. /\ Len(frames') = Len(frames) - 1 /\ DOMAIN frames' = 1..Len(frames) - 1
      /\ \A n \in 1..Len(frames) - 1 : frames'[n] = frames[n] /\ n \in DOMAIN frames
      /\ \A n \in 1..Len(frames) - 1 : n < Len(frames)
  BY <1>1, <1>2
<1>4. frames' \in Seq(FrameType)
  <2>1. \A n \in 1..Len(frames) - 1 : frames[n] \in FrameType
    BY <1>2
  <2> QED BY <1>1, <1>2, <2>1
<1>5. FramesOK'
  BY <1>1, <1>2, <1>3, <1>4 DEF FramesOK
<1>6. Nested'
  BY <1>2, <1>3 DEF Nested, Chained, CurrentActive
<1> QED BY <1>5, <1>6

\* Leaving a file counts it once less, however it is left.
LEMMA LeaveBounded ==
  ASSUME Inv, Return
  PROVE  IncludesBounded' /\ includeStack' \in [Uris -> Nat]
<1>1. /\ Len(frames) > 1
      /\ frames' = SubSeq(frames, 1, Len(frames) - 1)
      /\ includeStack' = [includeStack EXCEPT ![Top.uri] = includeStack[Top.uri] - 1]
  BY DEF Return
<1>2. /\ TypeOK /\ FramesOK /\ IncludesBounded /\ includeStack \in [Uris -> Nat]
      /\ frames \in Seq(FrameType) /\ Len(frames) \in Nat
  BY TypeParts DEF Inv, TypeInv, LimitsOK, FramesOK
<1>3. /\ Len(frames') = Len(frames) - 1
      /\ \A n \in 1..Len(frames) - 1 : frames'[n] = frames[n]
      /\ Top = frames[Len(frames)] /\ Top.uri \in Uris
  <2>1. frames # <<>>
    BY <1>1, <1>2
  <2>2. Top.uri \in Uris
    BY <1>2, <2>1, TopType DEF FrameType
  <2> QED BY <1>1, <1>2, <2>2 DEF Top
<1>4. Len(frames') <= MaxIncludeDepth + 1
  BY <1>2, <1>3, LimitsAssumption DEF IncludesBounded
<1>5. ASSUME NEW u \in Uris
      PROVE  /\ includeStack'[u] \in Nat
             /\ includeStack'[u] = Cardinality(BeingRead(u)') /\ includeStack'[u] <= 2
  <2>1. /\ includeStack[u] = Cardinality(BeingRead(u)) /\ includeStack[u] <= 2
        /\ IsFiniteSet(BeingRead(u)) /\ Cardinality(BeingRead(u)) \in Nat
    BY <1>2, BeingReadFinite DEF IncludesBounded
  <2>2. CASE u = Top.uri
    <3>1. Len(frames) \in BeingRead(u)
      BY <1>1, <1>2, <1>3, <2>2 DEF BeingRead
    <3>2. BeingRead(u)' = BeingRead(u) \ {Len(frames)}
      BY <1>1, <1>2, <1>3 DEF BeingRead
    <3>3. Cardinality(BeingRead(u)') = Cardinality(BeingRead(u)) - 1
      BY <2>1, <3>1, <3>2, FS_RemoveElement
    <3>4. Cardinality(BeingRead(u)) # 0
      BY <2>1, <3>1, FS_EmptySet
    <3>5. includeStack'[u] = includeStack[u] - 1
      BY <1>1, <1>2, <1>3, <2>2
    <3> QED BY <2>1, <3>3, <3>4, <3>5
  <2>3. CASE u # Top.uri
    <3>1. BeingRead(u)' = BeingRead(u)
      BY <1>1, <1>2, <1>3, <2>3 DEF BeingRead
    <3>2. includeStack'[u] = includeStack[u]
      BY <1>1, <1>2, <1>3, <2>3
    <3> QED BY <2>1, <3>1, <3>2
  <2> QED BY <2>2, <2>3
<1>6. includeStack' \in [Uris -> Nat]
  BY <1>1, <1>2, <1>3, <1>5
<1> QED BY <1>4, <1>5, <1>6 DEF IncludesBounded

\* The diagnostic given at the end of a file is one.
LEMMA UnterminatedType ==
  ASSUME TypeOK, frames # <<>>
  PROVE  DiagsOK /\ Unterminated \subseteq [code : Codes, file : Nat, line : Nat]
<1>1. DiagsOK
  BY TypeParts
<1>2. File \in Nat /\ Len(lines[File]) \in Nat
  BY TopType
<1>3. [code |-> "unterminated", file |-> File, line |-> Len(lines[File])]
        \in [code : Codes, file : Nat, line : Nat]
  BY <1>2 DEF Codes
<1> QED BY <1>1, <1>3 DEF Unterminated

\* Leaving an included file keeps the invariant.
LEMMA LeaveStep ==
  ASSUME Inv, Leave
  PROVE  Inv'
<1>1. /\ Return /\ Len(frames) > 1
      /\ includes' = Append(includes, Include(Parent, Len(lines[Parent]), Top.uri, File))
      /\ diags' = diags \cup Unterminated
      /\ UNCHANGED <<branches, macros, output, depthLimitWarned>>
  BY DEF Leave, Return
<1>2. /\ TypeOK /\ FramesOK /\ RecordOK /\ OutputOK /\ DiagsOK /\ Counted
      /\ depthLimitWarned \in BOOLEAN
  BY TypeParts DEF Inv, TypeInv, LimitsOK
<1>3. frames # <<>> /\ Len(frames) \in Nat /\ Len(frames) - 1 \in DOMAIN frames
  BY <1>1, <1>2 DEF FramesOK
<1>4. includes' \in Seq(IncludeType)
  <2>1. Top.uri \in Uris /\ File \in Nat
    BY <1>2, <1>3, TopType DEF FrameType
  <2>2. Parent \in Nat /\ Len(lines[Parent]) \in Nat
    <3>1. Parent \in DOMAIN files
      BY <1>2, <1>3 DEF FramesOK, Parent
    <3> QED BY <1>2, <3>1 DEF FramesOK
  <2> DEFINE i == Include(Parent, Len(lines[Parent]), Top.uri, File)
  <2>3. i \in IncludeType /\ includes' = Append(includes, i)
    BY <1>1, <2>1, <2>2 DEF Include, IncludeType
  <2> HIDE DEF i
  <2> QED BY <1>2, <2>3 DEF RecordOK
<1>5. RecordOK' /\ OutputOK' /\ Counted' /\ depthLimitWarned' \in BOOLEAN
  BY <1>1, <1>2, <1>4 DEF RecordOK, output, OutputOK, Counted
<1>6. DiagsOK'
  BY <1>1, <1>2, <1>3, UnterminatedType DEF DiagsOK
<1>7. TypeOK'
  BY <1>1, <1>5, <1>6, LeaveFrames, LeaveBounded
     DEF TypeOK, FramesOK, RecordOK, OutputOK, LimitsOK, DiagsOK
<1> QED BY <1>1, <1>5, <1>7, LeaveFrames, LeaveBounded DEF Inv, TypeInv

\* The end of the run, and its cancellation, keep the invariant.
LEMMA LeaveRootStep ==
  ASSUME Inv, LeaveRoot
  PROVE  Inv'
<1>1. /\ Len(frames) = 1 /\ frames' = <<>> /\ diags' = diags \cup Unterminated
      /\ UNCHANGED <<lines, files, record, output, limits>>
  BY DEF LeaveRoot
<1>2. /\ TypeOK /\ FramesOK /\ RecordOK /\ OutputOK /\ LimitsOK /\ Counted
      /\ IncludesBounded /\ frames # <<>>
  BY <1>1, TypeParts DEF Inv, TypeInv
<1>3. DiagsOK'
  BY <1>1, <1>2, UnterminatedType DEF DiagsOK
<1>4. RecordOK' /\ OutputOK' /\ LimitsOK' /\ Counted'
  BY <1>1, <1>2 DEF record, output, limits, RecordOK, OutputOK, LimitsOK, Counted
<1>5. FramesOK' /\ Nested' /\ Len(frames') = 0
  BY <1>1, <1>2 DEF FramesOK, Nested
<1>6. ASSUME NEW u \in Uris
      PROVE  includeStack'[u] = Cardinality(BeingRead(u)') /\ includeStack'[u] <= 2
  <2>1. BeingRead(u) = {} /\ BeingRead(u)' = {}
    BY <1>1, <1>5 DEF BeingRead
  <2> QED BY <1>1, <1>2, <2>1 DEF limits, IncludesBounded
<1>7. IncludesBounded'
  BY <1>5, <1>6, LimitsAssumption DEF IncludesBounded
<1> QED BY <1>3, <1>4, <1>5, <1>7
       DEF Inv, TypeInv, TypeOK, FramesOK, RecordOK, OutputOK, LimitsOK, DiagsOK

\* A step that changes no variable, or only stops the run, keeps the invariant.
LEMMA StoppedStep ==
  ASSUME Inv, Cancel \/ UNCHANGED vars
  PROVE  Inv'
<1>1. stopped' \in BOOLEAN
  BY DEF Cancel, vars, output, Inv, TypeInv, TypeOK
<1>2. UNCHANGED <<lines, files, frames, record, out, outputTokens, truncated, limits, diags>>
  BY DEF Cancel, vars, output
<1>3. TypeOK'
  BY <1>1, <1>2 DEF Inv, TypeInv, TypeOK, record, limits
<1>4. IncludesBounded' /\ Nested' /\ Counted'
  BY <1>2 DEF Inv, TypeInv, IncludesBounded, BeingRead, Nested, Chained, CurrentActive,
     Counted, limits
<1> QED BY <1>3, <1>4 DEF Inv, TypeInv

\* The invariant holds when the engine starts.
LEMMA InitInv == Init => Inv
<1> SUFFICES ASSUME Init PROVE Inv
  OBVIOUS
<1> DEFINE f == Frame(Root, 1, <<>>, FALSE)
<1>1. f \in FrameType /\ f.file = 1 /\ f.condStack = <<>>
  BY RootAssumption DEF Frame, FrameType
<1>2. frames = <<f>> /\ lines = <<<<>>>> /\ files = <<Root>>
  BY DEF Init
<1> HIDE DEF f
<1>3. FramesOK
  <2>1. lines \in Seq(Seq(Lines)) /\ files \in Seq(Uris) /\ Len(lines) = Len(files)
    BY <1>2, RootAssumption
  <2> QED BY <1>1, <1>2, <2>1 DEF FramesOK
<1>4. Nested
  BY <1>1, <1>2 DEF Nested, Chained
<1>5. /\ macros \in [Names -> Bodies \cup {None}]
      /\ branches = <<>> /\ includes = <<>>
      /\ includeStack = [u \in Uris |-> 0] /\ depthLimitWarned = FALSE /\ diags = {}
      /\ out = {} /\ outputTokens = 0 /\ truncated = FALSE /\ stopped = FALSE
  BY Zenon DEF Init
<1>6. includeStack \in [Uris -> Nat]
  <2>1. includeStack = [u \in Uris |-> 0]
    BY <1>5
  <2> QED BY <2>1
<1>7. RecordOK /\ LimitsOK /\ DiagsOK
  <2>1. branches \in Seq(BranchType) /\ includes \in Seq(IncludeType)
    <3>1. branches = <<>> /\ includes = <<>>
      BY <1>5
    <3> QED BY <3>1
  <2>2. macros \in [Names -> Bodies \cup {None}]
    BY <1>5
  <2> QED BY <1>5, <1>6, <2>1, <2>2 DEF RecordOK, LimitsOK, DiagsOK
<1>8. OutputOK /\ Counted
  <2>1. outputTokens \in 0..MaxOutputTokens + 1 /\ outputTokens <= MaxOutputTokens
    BY <1>5, LimitsAssumption
  <2>2. out \subseteq [file : Nat, line : Nat, as : Bodies \cup {None}]
    BY <1>5
  <2> QED BY <1>5, <2>1, <2>2 DEF OutputOK, Counted
<1>9. IncludesBounded
  <2>1. ASSUME NEW u \in Uris PROVE includeStack[u] = 0 /\ BeingRead(u) = {}
    BY <1>2 DEF Init, BeingRead
  <2>2. Len(frames) = 1
    BY <1>2
  <2> QED BY <2>1, <2>2, FS_EmptySet, LimitsAssumption DEF IncludesBounded
<1> QED BY <1>3, <1>4, <1>7, <1>8, <1>9, TypeParts DEF Inv, TypeInv

\* Every step keeps the invariant.
LEMMA NextInv == Inv /\ [Next]_vars => Inv'
<1> SUFFICES ASSUME Inv, [Next]_vars PROVE Inv'
  OBVIOUS
<1>1. ASSUME NEW line \in Lines,
             \/ Text(line) \/ ExpansionOverflow(line) \/ Define(line) \/ Undef(line)
             \/ Message(line) \/ Unmatched(line) \/ AlternativeOverflow(line)
             \/ IncludeInactive(line) \/ IncludeNotFound(line) \/ IncludeCycle(line)
             \/ IncludeTooDeep(line)
      PROVE  Inv'
  <2>1. TypeInv'
    BY <1>1, PlainStep DEF Inv
  <2>2. frames' = frames
    BY <1>1 DEF Text, ExpansionOverflow, Define, Undef, Message, Unmatched,
       AlternativeOverflow, IncludeInactive, IncludeNotFound, IncludeCycle,
       IncludeTooDeep, IncludeRefused
  <2>3. Nested'
    BY <2>2 DEF Inv, Nested, Chained, CurrentActive
  <2> QED BY <2>1, <2>3 DEF Inv
<1>2. ASSUME NEW line \in Lines,
             \/ If(line) \/ IfOverflow(line) \/ ElseifTaken(line) \/ Elseif(line)
             \/ Else(line) \/ Endif(line) \/ Endinput(line)
      PROVE  Inv'
  BY <1>2, ConditionalStep
<1>3. ASSUME NEW line \in Lines, Enter(line) PROVE Inv'
  BY <1>3, EnterStep
<1>4. CASE LeaveRoot
  BY <1>4, LeaveRootStep
<1>5. CASE Leave
  BY <1>5, LeaveStep
<1>6. CASE Cancel \/ UNCHANGED vars
  BY <1>6, StoppedStep
<1> QED BY <1>1, <1>2, <1>3, <1>4, <1>5, <1>6 DEF Next, Handle

\* The invariant of the engine.
THEOREM Invariance == Spec => []Inv
<1> QED BY InitInv, NextInv, PTL DEF Spec

\* Every run of the engine keeps its fields and frames in their types, its
\* indices in range, and its output within MaxOutputTokens.
THEOREM TypesCorrect == Spec => []TypeOK
<1>1. Inv => TypeOK
  BY DEF Inv, TypeInv
<1> QED BY <1>1, Invariance, PTL

\* A line that the innermost conditional passes on is selected by every
\* conditional around it, in its file and in the files that include it.
THEOREM SelectedEverywhere == Spec => []SelectedThroughout
<1>1. Inv => SelectedThroughout
  <2> SUFFICES ASSUME Inv, frames # <<>>, CurrentActive(Top), NEW n \in DOMAIN frames
               PROVE  \A d \in DOMAIN frames[n].condStack :
                        frames[n].condStack[d].branchActive
    BY DEF SelectedThroughout
  <2>1. frames \in Seq(FrameType) /\ Nested
    BY DEF Inv, TypeInv, TypeOK
  <2>2. frames[n] \in FrameType /\ Chained(frames[n].condStack)
    BY <2>1 DEF Nested
  <2>3. CurrentActive(frames[n])
    <3>1. n = Len(frames) \/ n < Len(frames)
      BY <2>1
    <3> QED BY <2>1, <3>1 DEF Nested, Top
  <2> QED BY <2>2, <2>3, ActiveThroughout
<1> QED BY <1>1, Invariance, PTL

\* The recursion of the engine is bounded, and includeStack counts the frames
\* of a file exactly, so that a file is included into itself at most twice.
THEOREM IncludesStayBounded == Spec => []IncludesBounded
<1>1. Inv => IncludesBounded
  BY DEF Inv, TypeInv
<1> QED BY <1>1, Invariance, PTL
-----------------------------------------------------------------------------
(* Limits.                                                                  *)

\* The flags of both limits, together: the shared warning was given.
Reported == truncated \/ depthLimitWarned => \E d \in diags : d.code \in LimitCodes

\* A diagnostic about a limit makes the invariant true, and none is withdrawn.
LEMMA ReportedGrows ==
  ASSUME Reported, diags \subseteq diags',
         \/ UNCHANGED <<truncated, depthLimitWarned>>
         \/ \E code \in LimitCodes : Diag(code) \in diags'
         \/ depthLimitWarned
  PROVE  Reported'
<1>1. \A code \in LimitCodes : Diag(code).code \in LimitCodes
  BY DEF Diag
<1> QED BY <1>1 DEF Reported

\* A result that is cut off says that a limit was exceeded.
THEOREM TruncationReported == Spec => []TruncatedIsReported
<1>1. Init => Reported
  BY DEF Init, Reported
<1>2. Reported /\ [Next]_vars => Reported'
  <2> SUFFICES ASSUME Reported, [Next]_vars PROVE Reported'
    OBVIOUS
  <2> USE DEF output, limits, LimitCodes
  <2>1. ASSUME NEW line \in Lines, Text(line) PROVE Reported'
    BY <2>1, ReportedGrows DEF Text, AppendOut
  <2>2. ASSUME NEW line \in Lines, ExpansionOverflow(line) \/ IfOverflow(line)
        PROVE  Reported'
    BY <2>2, ReportedGrows DEF ExpansionOverflow, IfOverflow, DepthLimit
  <2>3. ASSUME NEW line \in Lines,
               \/ Define(line) \/ Undef(line) \/ Message(line) \/ If(line) \/ Unmatched(line)
               \/ AlternativeOverflow(line) \/ ElseifTaken(line) \/ Elseif(line)
               \/ Else(line) \/ Endif(line) \/ Endinput(line) \/ IncludeInactive(line)
               \/ IncludeNotFound(line) \/ IncludeCycle(line) \/ Enter(line)
        PROVE  Reported'
    <3>1. diags \subseteq diags' /\ UNCHANGED <<truncated, depthLimitWarned>>
      BY <2>3 DEF Define, Undef, Message, If, Unmatched, AlternativeOverflow,
         ElseifTaken, Elseif, Else, Endif, Endinput, IncludeInactive, IncludeNotFound,
         IncludeCycle, Enter, OpenFile
    <3> QED BY <3>1, ReportedGrows
  <2>4. ASSUME NEW line \in Lines, IncludeTooDeep(line) PROVE Reported'
    BY <2>4, ReportedGrows DEF IncludeTooDeep, IncludeRefused
  <2>5. CASE LeaveRoot \/ Leave \/ Cancel \/ UNCHANGED vars
    <3>1. diags \subseteq diags' /\ UNCHANGED <<truncated, depthLimitWarned>>
      BY <2>5 DEF LeaveRoot, Leave, Return, Cancel, vars
    <3> QED BY <3>1, ReportedGrows
  <2> QED BY <2>1, <2>2, <2>3, <2>4, <2>5 DEF Next, Handle
<1>3. Reported => TruncatedIsReported
  BY DEF Reported, TruncatedIsReported
<1> QED BY <1>1, <1>2, <1>3, PTL DEF Spec
----------------------------------------------------------------------------
(***************************************************************************)
(* What a run of the engine records: that every file read is accounted for *)
(* by one include, that of the branches of a conditional one is selected   *)
(* at most, and that the branches tell which lines were passed on.         *)
(*                                                                         *)
(* None of the three is inductive.  The first needs that the frames read   *)
(* files in the order in which these were opened (Increasing); the second  *)
(* that each conditional on a stack knows its last branch, and whether one *)
(* of its branches was selected (Linked); the third that no branch says    *)
(* anything about lines not read yet (Behind), and that of the files being *)
(* read just the open branches have no body (OnlyOpen).  The third holds   *)
(* while no limit is exceeded only: an #else of a conditional nested too   *)
(* deeply ends the first branch recorded, whichever file that is in.       *)
(***************************************************************************)

\* Frames read different files, an includer an earlier one than the included.
Increasing ==
  /\ frames # <<>> => frames[1].file = 1
  /\ \A m, n \in DOMAIN frames : m < n => frames[m].file < frames[n].file
\* Includes name files that have been opened.
Opened == \A i \in DOMAIN includes : includes[i].child <= Len(files)
Accounted == Increasing /\ Opened /\ FilesAccounted

\* j is a later branch of the conditional that branch i belongs to.
SameIn(b, i, j) ==
  /\ i < j /\ b[i].file = b[j].file /\ b[i].depth = b[j].depth
  /\ \A k \in i+1..j :
       b[k].file = b[j].file /\ b[k].depth = b[j].depth => b[k].directive # "if"
\* A branch of o's conditional, up to o, is selected.
Chosen(b, o) == \E i \in 1..o : b[i].active /\ (i = o \/ SameIn(b, i, o))
OneIn(b) ==
  \A j \in DOMAIN b :
    /\ \A i \in 1..j-1 : SameIn(b, i, j) => ~(b[i].active /\ b[j].active)
    /\ b[j].directive = "else" /\ b[j].evaluated => Chosen(b, j)

\* Conditional c, the d-th of its file, has branch c.openBranchIndex of b,
\* and no later one.
Links(b, file, d, c) ==
  LET o == c.openBranchIndex
  IN /\ o \in DOMAIN b /\ b[o].file = file /\ b[o].depth = d
     /\ b[o].active = c.branchActive /\ (c.taken <=> Chosen(b, o))
     /\ \A i \in DOMAIN b : i > o => ~(b[i].file = file /\ b[i].depth = d)
Linked(b, f) ==
  \A d \in DOMAIN f.condStack :
    ~f.condStack[d].overflow => Links(b, f.file, d, f.condStack[d])
Recorded ==
  /\ OneIn(branches)
  /\ \A n \in DOMAIN frames : Linked(branches, frames[n])
  /\ \A i \in DOMAIN branches : branches[i].file \in DOMAIN files

\* Nothing recorded is about lines that have not been read.
Behind ==
  /\ \A i \in DOMAIN branches :
       /\ branches[i].from <= Len(lines[branches[i].file])
       /\ branches[i].to <= Len(lines[branches[i].file])
  /\ \A t \in out : t.file \in DOMAIN files /\ t.line <= Len(lines[t.file])

\* The branches b tell which lines of the text of file k are passed on, in o.
AroundIn(b, k, l) ==
  {i \in DOMAIN b : b[i].file = k /\ b[i].from < l /\ (l < b[i].to \/ Unclosed(b[i]))}
Passes(o, k, l) == \E t \in o : t.file = k /\ t.line = l
IsText(line) == line.kind \in {"text", "use"}
Tells(b, k, o, read) ==
  \A l \in DOMAIN read : IsText(read[l]) =>
    (Passes(o, k, l) <=> \A i \in AroundIn(b, k, l) : b[i].active)

\* Of the file that f reads, the branches without a body are those of the
\* conditionals on the stack.
OpenBranches(f) == {f.condStack[d].openBranchIndex : d \in DOMAIN f.condStack}
OnlyOpen(b, f) ==
  \A i \in DOMAIN b : b[i].file = f.file => (Unclosed(b[i]) <=> i \in OpenBranches(f))
NoOverflow(f) == \A d \in DOMAIN f.condStack : ~f.condStack[d].overflow
Viewed ==
  ~truncated =>
    /\ Behind
    /\ \A n \in DOMAIN frames : NoOverflow(frames[n]) /\ OnlyOpen(branches, frames[n])
    /\ \A k \in DOMAIN files : Tells(branches, k, out, lines[k])
-----------------------------------------------------------------------------
(* Frames, files and includes.                                              *)

\* The same files are being read, at the same places.
SameFiles ==
  /\ files' = files /\ Len(lines') = Len(lines) /\ DOMAIN frames' = DOMAIN frames
  /\ \A n \in DOMAIN frames : frames'[n].file = frames[n].file

\* A line that does not enter a file, and a stopped run, read the same files,
\* and record an include at most that has read none.
LEMMA FilesStay ==
  ASSUME Inv,
         \/ \E line \in Lines : Handle(line) /\ ~Enter(line)
         \/ Cancel \/ UNCHANGED vars
  PROVE  /\ SameFiles
         /\ \/ includes' = includes
            \/ \E i \in IncludeType : i.child = 0 /\ includes' = Append(includes, i)
<1> USE DEF record, output, limits
<1>1. TypeOK /\ frames \in Seq(FrameType) /\ includes \in Seq(IncludeType)
  BY DEF Inv, TypeInv, TypeOK
<1>2. CASE Cancel \/ UNCHANGED vars
  BY <1>2 DEF Cancel, vars, SameFiles
<1>3. ASSUME NEW line \in Lines,
             \/ Text(line) \/ ExpansionOverflow(line) \/ Define(line) \/ Undef(line)
             \/ Message(line) \/ Unmatched(line) \/ AlternativeOverflow(line)
             \/ IncludeInactive(line)
      PROVE  SameFiles /\ includes' = includes
  <2>1. Reading(line) /\ UNCHANGED <<files, frames, includes>>
    BY <1>3 DEF Text, ExpansionOverflow, Define, Undef, Message, Unmatched,
       AlternativeOverflow, IncludeInactive
  <2> QED BY <1>1, <2>1, ReadingType DEF SameFiles
<1>4. ASSUME NEW line \in Lines,
             IncludeNotFound(line) \/ IncludeCycle(line) \/ IncludeTooDeep(line)
      PROVE  /\ SameFiles
             /\ \E i \in IncludeType : i.child = 0 /\ includes' = Append(includes, i)
  <2>1. Reading(line) /\ UNCHANGED <<files, frames>>
    BY <1>4 DEF IncludeNotFound, IncludeCycle, IncludeTooDeep, IncludeRefused
  <2>2. line.uri \in Uris \cup {None}
    <3>1. line.kind = "include" /\ line \in AllLines
      BY <1>4, LinesAssumption DEF IncludeNotFound, IncludeCycle, IncludeTooDeep, IncludeRefused
    <3> QED BY <3>1 DEF AllLines
  <2>3. \E u \in Uris \cup {None} : includes' = Append(includes, Include(File, Here, u, 0))
    BY <1>4, <2>2 DEF IncludeNotFound, IncludeCycle, IncludeTooDeep, IncludeRefused
  <2>4. File \in Nat /\ Here \in Nat
    BY <1>1, <2>1, ReadingType, TopType
  <2>5. ASSUME NEW u \in Uris \cup {None}
        PROVE  /\ Include(File, Here, u, 0) \in IncludeType
               /\ Include(File, Here, u, 0).child = 0
    BY <2>4 DEF Include, IncludeType
  <2> HIDE DEF Include
  <2> QED BY <1>1, <2>1, <2>3, <2>5, ReadingType DEF SameFiles
<1>5. ASSUME NEW line \in Lines,
             \/ If(line) \/ IfOverflow(line) \/ ElseifTaken(line) \/ Elseif(line)
             \/ Else(line) \/ Endif(line) \/ Endinput(line)
      PROVE  SameFiles /\ includes' = includes
  <2>1. Reading(line) /\ UNCHANGED <<files, includes>>
    BY <1>5 DEF If, IfOverflow, ElseifTaken, Elseif, Else, Endif, Endinput
  <2>2. \E cs, e : SetTop(cs, e)
    BY <1>5 DEF If, IfOverflow, ElseifTaken, Elseif, Else, Endif, Endinput
  <2>3. PICK f : f.file = File /\ frames' = [frames EXCEPT ![Len(frames)] = f]
    BY <2>2 DEF SetTop, Frame
  <2>4. /\ DOMAIN frames' = DOMAIN frames
        /\ \A n \in DOMAIN frames : frames'[n].file = frames[n].file
    BY <1>1, <2>3 DEF File, Top
  <2> QED BY <1>1, <2>1, <2>4, ReadingType DEF SameFiles
<1> QED BY <1>2, <1>3, <1>4, <1>5 DEF Handle

\* Such a step keeps files accounted for.
LEMMA AccountedStay ==
  ASSUME Inv, Inv', Accounted, SameFiles,
         \/ includes' = includes
         \/ \E i \in IncludeType : i.child = 0 /\ includes' = Append(includes, i)
  PROVE  Accounted'
<1>1. /\ frames \in Seq(FrameType) /\ frames' \in Seq(FrameType)
      /\ includes \in Seq(IncludeType) /\ files' = files
      /\ Len(files) \in Nat /\ DOMAIN frames' = DOMAIN frames
      /\ \A n \in DOMAIN frames : frames'[n].file = frames[n].file
  BY DEF Inv, TypeInv, TypeOK, SameFiles
<1>2. Increasing'
  <2>1. frames' # <<>> => 1 \in DOMAIN frames /\ frames # <<>>
    BY <1>1
  <2> QED BY <1>1, <2>1 DEF Accounted, Increasing
<1>3. /\ DOMAIN includes \subseteq DOMAIN includes'
      /\ \A i \in DOMAIN includes : includes'[i] = includes[i]
      /\ \A i \in DOMAIN includes' : i \in DOMAIN includes \/ includes'[i].child = 0
  <2>1. CASE includes' = includes
    BY <2>1
  <2>2. ASSUME NEW r \in IncludeType, r.child = 0, includes' = Append(includes, r)
        PROVE  <1>3!:
    <3> HIDE DEF IncludeType
    <3> QED BY <1>1, <2>2
  <2> QED BY <2>1, <2>2
<1>4. Opened'
  BY <1>1, <1>3 DEF Accounted, Opened
<1>5. FilesAccounted'
  <2> SUFFICES ASSUME NEW k \in 2..Len(files)
      PROVE IF \E n \in DOMAIN frames : frames[n].file = k
            THEN \A i \in DOMAIN includes' : includes'[i].child # k
            ELSE \E i \in DOMAIN includes' :
                   /\ includes'[i].child = k /\ includes'[i].file < k
                   /\ \A j \in DOMAIN includes' : includes'[j].child = k => i = j
    BY <1>1 DEF FilesAccounted
  <2>1. k # 0
    BY <1>1
  <2> QED BY <1>3, <2>1 DEF Accounted, FilesAccounted
<1> QED BY <1>2, <1>4, <1>5 DEF Accounted

\* The files read by the frames when one is entered.
LEMMA Entered ==
  ASSUME Inv, NEW line \in Lines, Enter(line)
  PROVE  /\ frames # <<>> /\ Len(frames') = Len(frames) + 1
         /\ \A n \in DOMAIN frames : frames'[n] = frames[n] /\ n # Len(frames')
         /\ frames'[Len(frames')].file = Len(files) + 1
         /\ frames'[Len(frames')].condStack = <<>>
         /\ Len(files') = Len(files) + 1 /\ Len(files) \in Nat
         /\ Len(frames) \in Nat /\ frames' \in Seq(FrameType)
         /\ lines' = Append([lines EXCEPT ![File] = Append(lines[File], line)], <<>>)
         /\ UNCHANGED <<record, output>>
<1>1. /\ frames # <<>> /\ files' = Append(files, line.uri)
      /\ lines' = Append([lines EXCEPT ![File] = Append(lines[File], line)], <<>>)
      /\ frames' = Append(frames, Frame(line.uri, Len(files) + 1, <<>>, FALSE))
      /\ UNCHANGED <<record, output>>
  BY DEF Enter, OpenFile, Running
<1>2. frames \in Seq(FrameType) /\ frames' \in Seq(FrameType) /\ files \in Seq(Uris)
  BY EnterFrames DEF Inv, TypeInv, TypeOK, FramesOK
<1> DEFINE f == Frame(line.uri, Len(files) + 1, <<>>, FALSE)
<1>3. f.file = Len(files) + 1 /\ f.condStack = <<>> /\ frames' = Append(frames, f)
  BY <1>1 DEF Frame
<1> HIDE DEF f
<1>4. f \in FrameType
  <2>1. Len(frames') \in DOMAIN frames' /\ frames'[Len(frames')] = f
    BY <1>2, <1>3
  <2> QED BY <1>2, <2>1
<1>5. /\ Len(frames') = Len(frames) + 1 /\ Len(frames) \in Nat
      /\ \A n \in DOMAIN frames : frames'[n] = frames[n] /\ n # Len(frames')
      /\ frames'[Len(frames')] = f
  BY <1>2, <1>3, <1>4
<1>6. Len(files') = Len(files) + 1 /\ Len(files) \in Nat
  BY <1>1, <1>2
<1> QED BY <1>1, <1>2, <1>3, <1>5, <1>6

\* Entering a file keeps files accounted for: the new one is the last.
LEMMA AccountedEnter ==
  ASSUME Inv, Accounted, NEW line \in Lines, Enter(line)
  PROVE  Accounted'
<1>1. /\ frames \in Seq(FrameType) /\ includes \in Seq(IncludeType) /\ includes' = includes
      /\ \A n \in DOMAIN frames : frames[n].file \in 1..Len(files)
  BY Entered DEF Inv, TypeInv, TypeOK, record
<1> DEFINE N == Len(frames)
<1>2. /\ N \in Nat \ {0} /\ frames' \in Seq(FrameType) /\ DOMAIN frames' = 1..N+1
      /\ \A n \in 1..N : frames'[n] = frames[n]
      /\ frames'[N+1].file = Len(files) + 1
      /\ Len(files') = Len(files) + 1 /\ Len(files) \in Nat
  BY <1>1, Entered
<1>3. Increasing'
  <2>1. \A m, n \in 1..N+1 : m < n => frames'[m].file < frames'[n].file
    <3> TAKE m, n \in 1..N+1
    <3> HAVE m < n
    <3>1. m \in 1..N /\ m \in DOMAIN frames
      BY <1>1, <1>2
    <3>2. CASE n \in 1..N
      BY <1>1, <1>2, <3>1, <3>2 DEF Accounted, Increasing
    <3>3. CASE n = N + 1
      <4>1. frames'[m].file = frames[m].file /\ frames[m].file \in 1..Len(files)
        BY <1>1, <1>2, <3>1
      <4> QED BY <1>2, <3>3, <4>1
    <3> QED BY <1>2, <3>2, <3>3
  <2>2. frames'[1].file = 1
    BY <1>1, <1>2 DEF Accounted, Increasing
  <2> QED BY <1>2, <2>1, <2>2 DEF Increasing
<1>4. \A i \in DOMAIN includes : includes[i].child \in Nat /\ includes[i].child <= Len(files)
  <2>1. \A i \in DOMAIN includes : includes[i] \in IncludeType
    BY <1>1
  <2> QED BY <2>1 DEF Accounted, Opened, IncludeType
<1>5. Opened'
  BY <1>1, <1>2, <1>4 DEF Opened
<1>6. FilesAccounted'
  <2> SUFFICES ASSUME NEW k \in 2..Len(files')
      PROVE IF \E n \in DOMAIN frames' : frames'[n].file = k
            THEN \A i \in DOMAIN includes' : includes'[i].child # k
            ELSE \E i \in DOMAIN includes' :
                   /\ includes'[i].child = k /\ includes'[i].file < k
                   /\ \A j \in DOMAIN includes' : includes'[j].child = k => i = j
    BY DEF FilesAccounted
  <2>1. CASE k = Len(files) + 1
    <3>1. \E n \in DOMAIN frames' : frames'[n].file = k
      BY <1>2, <2>1
    <3>2. \A i \in DOMAIN includes' : includes'[i].child # k
      BY <1>1, <1>2, <1>4, <2>1
    <3> QED BY <3>1, <3>2
  <2>2. CASE k \in 2..Len(files)
    <3>1. k # Len(files) + 1
      BY <1>2, <2>2
    <3>2. (\E n \in DOMAIN frames' : frames'[n].file = k)
            <=> \E n \in DOMAIN frames : frames[n].file = k
      <4>1. DOMAIN frames = 1..N /\ DOMAIN frames' = 1..N \cup {N+1}
        BY <1>1, <1>2
      <4> QED BY <1>2, <3>1, <4>1
    <3> QED BY <1>1, <2>2, <3>2 DEF Accounted, FilesAccounted
  <2> QED BY <1>2, <2>1, <2>2
<1> QED BY <1>3, <1>5, <1>6 DEF Accounted

\* Leaving a file accounts for it, by the include recorded now and no other.
LEMMA AccountedLeave ==
  ASSUME Inv, Accounted, Leave
  PROVE  Accounted'
<1> DEFINE N == Len(frames)
           r == Include(Parent, Len(lines[Parent]), Top.uri, File)
<1>1. /\ N > 1 /\ frames' = SubSeq(frames, 1, N - 1) /\ files' = files
      /\ includes' = Append(includes, r)
      /\ frames \in Seq(FrameType) /\ includes \in Seq(IncludeType)
      /\ \A n \in DOMAIN frames : frames[n].file \in DOMAIN files
      /\ files \in Seq(Uris)
  BY DEF Leave, Return, Inv, TypeInv, TypeOK
<1>2. /\ N \in Nat /\ DOMAIN frames = 1..N /\ DOMAIN frames' = 1..N-1
      /\ \A n \in 1..N-1 : frames'[n] = frames[n] /\ n \in DOMAIN frames
      /\ Len(files) \in Nat /\ DOMAIN files = 1..Len(files)
  BY <1>1
<1>3. /\ File = frames[N].file /\ Parent = frames[N-1].file
      /\ r.child = File /\ r.file = Parent
  BY DEF File, Top, Parent, Include
<1>4. /\ \A n \in 1..N-1 : frames[n].file < File
      /\ File \in 2..Len(files) /\ Parent < File
  <2>1. /\ N \in DOMAIN frames /\ N-1 \in DOMAIN frames /\ 1 \in DOMAIN frames
        /\ 1 < N /\ N-1 < N /\ frames # <<>>
        /\ \A n \in 1..N-1 : n < N /\ n \in DOMAIN frames
    BY <1>1, <1>2
  <2>2. \A n \in 1..N-1 : frames[n].file < frames[N].file
    BY <2>1 DEF Accounted, Increasing
  <2>3. frames[1].file = 1
    BY <2>1 DEF Accounted, Increasing
  <2>4. File \in 1..Len(files)
    <3>1. \A n \in DOMAIN frames : frames[n].file \in DOMAIN files
      BY <1>1
    <3>2. N \in DOMAIN frames /\ File = frames[N].file /\ DOMAIN files = 1..Len(files)
      BY <1>2, <1>3, <2>1, Zenon
    <3> HIDE DEF N
    <3> QED BY <3>1, <3>2
  <2>5. \A n \in 1..N-1 : frames[n].file < File
    BY <1>3, <2>2
  <2>6. 1 \in 1..N-1 /\ N-1 \in 1..N-1
    BY <1>1, <1>2
  <2>7. 1 < File /\ Parent < File
    BY <1>3, <2>3, <2>5, <2>6
  <2>8. File \in 2..Len(files)
    <3> HIDE DEF N, r
    <3> QED BY <1>2, <2>4, <2>7
  <2> QED BY <2>5, <2>7, <2>8
<1>5. r \in IncludeType
  <2>1. includes' \in Seq(IncludeType)
    BY LeaveStep DEF Inv, TypeInv, TypeOK
  <2>2. Len(includes') \in DOMAIN includes' /\ includes'[Len(includes')] = r
    BY <1>1
  <2> HIDE DEF r
  <2> QED BY <2>1, <2>2
<1> HIDE DEF r
<1>6. /\ DOMAIN includes' = DOMAIN includes \cup {Len(includes) + 1}
      /\ Len(includes) + 1 \notin DOMAIN includes
      /\ includes'[Len(includes) + 1] = r
      /\ \A i \in DOMAIN includes : includes'[i] = includes[i]
  BY <1>1, <1>5
<1>7. Increasing'
  <2>1. 1 \in 1..N-1 /\ frames # <<>>
    BY <1>1, <1>2
  <2>2. frames'[1].file = 1
    BY <1>2, <2>1 DEF Accounted, Increasing
  <2> QED BY <1>2, <2>2 DEF Accounted, Increasing
<1>8. Opened'
  <2>1. r.child <= Len(files)
    BY <1>2, <1>3, <1>4
  <2> QED BY <1>1, <1>6, <2>1 DEF Accounted, Opened
<1>9. FilesAccounted'
  <2> SUFFICES ASSUME NEW k \in 2..Len(files)
      PROVE IF \E n \in DOMAIN frames' : frames'[n].file = k
            THEN \A i \in DOMAIN includes' : includes'[i].child # k
            ELSE \E i \in DOMAIN includes' :
                   /\ includes'[i].child = k /\ includes'[i].file < k
                   /\ \A j \in DOMAIN includes' : includes'[j].child = k => i = j
    BY <1>1 DEF FilesAccounted
  <2>1. CASE k = File
    <3>1. ~\E n \in DOMAIN frames' : frames'[n].file = k
      <4>1. \A n \in 1..N-1 : frames[n].file # File
        BY <1>1, <1>2, <1>3, <1>4
      <4> QED BY <1>2, <2>1, <4>1
    <3>2. \A i \in DOMAIN includes : includes[i].child # k
      <4>0. N \in DOMAIN frames /\ frames[N].file = File
        BY <1>1, <1>2, <1>3
      <4>1. \E n \in DOMAIN frames : frames[n].file = k
        BY <2>1, <4>0
      <4> QED BY <4>1 DEF Accounted, FilesAccounted
    <3> QED BY <1>3, <1>4, <1>6, <2>1, <3>1, <3>2
  <2>2. CASE k # File
    <3>1. (\E n \in DOMAIN frames' : frames'[n].file = k)
            <=> \E n \in DOMAIN frames : frames[n].file = k
      <4>1. \A n \in DOMAIN frames : n \in 1..N-1 \/ n = N
        BY <1>1, <1>2
      <4> QED BY <1>2, <1>3, <2>2, <4>1
    <3>2. \A i \in DOMAIN includes' :
            includes'[i].child = k => i \in DOMAIN includes /\ includes[i].child = k
      BY <1>3, <1>6, <2>2
    <3> QED BY <1>6, <3>1, <3>2 DEF Accounted, FilesAccounted
  <2> QED BY <2>1, <2>2
<1> QED BY <1>7, <1>8, <1>9 DEF Accounted

\* When the run ends, only the file it started with is still being read.
LEMMA AccountedLeaveRoot ==
  ASSUME Inv, Accounted, LeaveRoot
  PROVE  Accounted'
<1>1. /\ Len(frames) = 1 /\ frames' = <<>> /\ UNCHANGED <<files, includes>>
      /\ frames \in Seq(FrameType)
  BY DEF LeaveRoot, Inv, TypeInv, TypeOK, record
<1>2. \A n \in DOMAIN frames : frames[n].file = 1
  BY <1>1 DEF Accounted, Increasing
<1>3. Increasing' /\ Opened'
  BY <1>1 DEF Accounted, Increasing, Opened
<1>4. FilesAccounted'
  <2>1. \A k \in 2..Len(files) : k # 1
    OBVIOUS
  <2> QED BY <1>1, <1>2, <2>1 DEF Accounted, FilesAccounted
<1> QED BY <1>3, <1>4 DEF Accounted

\* Files are accounted for at the start, and by every step.
LEMMA AccountedInit == Init => Accounted
<1> SUFFICES ASSUME Init PROVE Accounted
  OBVIOUS
<1>1. frames = <<Frame(Root, 1, <<>>, FALSE)>> /\ includes = <<>> /\ files = <<Root>>
  BY DEF Init
<1>2. Increasing
  BY <1>1 DEF Increasing, Frame
<1> QED BY <1>1, <1>2 DEF Accounted, Opened, FilesAccounted

\* Every step keeps the account of the files.
LEMMA AccountedNext == Inv /\ Accounted /\ [Next]_vars => Accounted'
<1> SUFFICES ASSUME Inv, Accounted, [Next]_vars PROVE Accounted'
  OBVIOUS
<1>1. Inv'
  BY NextInv
<1>2. ASSUME NEW line \in Lines, Enter(line) PROVE Accounted'
  BY <1>2, AccountedEnter
<1>3. CASE \/ \E line \in Lines : Handle(line) /\ ~Enter(line)
           \/ Cancel \/ UNCHANGED vars
  BY <1>1, <1>3, FilesStay, AccountedStay
<1>4. CASE Leave
  BY <1>4, AccountedLeave
<1>5. CASE LeaveRoot
  BY <1>5, AccountedLeaveRoot
<1> QED BY <1>2, <1>3, <1>4, <1>5 DEF Next

\* Every file that was read is either being read or the target of exactly one
\* recorded include, which stands in an earlier file.
THEOREM FilesAreAccounted == Spec => []FilesAccounted
<1>1. Accounted => FilesAccounted
  BY DEF Accounted
<1> QED BY <1>1, AccountedInit, AccountedNext, Invariance, PTL DEF Spec
-----------------------------------------------------------------------------
(* The branches of a conditional.                                           *)

\* c is b, with other ends of the branches' bodies, and perhaps more branches.
Extends(b, c) ==
  /\ DOMAIN b \subseteq DOMAIN c
  /\ \A i \in DOMAIN b :
       /\ c[i].file = b[i].file /\ c[i].directive = b[i].directive
       /\ c[i].depth = b[i].depth /\ c[i].from = b[i].from
       /\ c[i].active = b[i].active /\ c[i].evaluated = b[i].evaluated

\* What is known of the branches of a conditional stays known.
LEMMA SameExtends ==
  ASSUME NEW b \in Seq(BranchType), NEW c \in Seq(BranchType), Extends(b, c),
         NEW o \in DOMAIN b
  PROVE  /\ \A i \in 1..o : SameIn(c, i, o) <=> SameIn(b, i, o)
         /\ Chosen(c, o) <=> Chosen(b, o)
<1>1. \A i \in 1..o : i \in DOMAIN b /\ i+1..o \subseteq DOMAIN b
  OBVIOUS
<1>2. ASSUME NEW i \in 1..o PROVE SameIn(c, i, o) <=> SameIn(b, i, o)
  <2>1. \A k \in i+1..o : k \in DOMAIN b
    BY <1>1, <1>2
  <2>2. i \in DOMAIN b
    BY <1>1, <1>2
  <2> QED BY <2>1, <2>2 DEF Extends, SameIn
<1>3. \A i \in 1..o : c[i].active = b[i].active
  BY <1>1 DEF Extends
<1> QED BY <1>2, <1>3 DEF Chosen

\* A conditional keeps its last branch when it is given none.
LEMMA LinksExtend ==
  ASSUME NEW b \in Seq(BranchType), NEW c \in Seq(BranchType), Extends(b, c),
         NEW file, NEW d, NEW cond, Links(b, file, d, cond),
         \A i \in DOMAIN c \ DOMAIN b : ~(c[i].file = file /\ c[i].depth = d)
  PROVE  Links(c, file, d, cond)
<1> DEFINE o == cond.openBranchIndex
<1>1. o \in DOMAIN b /\ (cond.taken <=> Chosen(b, o))
  BY DEF Links
<1>2. Chosen(c, o) <=> Chosen(b, o)
  BY <1>1, SameExtends
<1>3. o \in DOMAIN c /\ c[o].file = file /\ c[o].depth = d /\ c[o].active = cond.branchActive
  BY <1>1 DEF Links, Extends
<1>4. ASSUME NEW i \in DOMAIN c, i > o PROVE ~(c[i].file = file /\ c[i].depth = d)
  BY <1>4 DEF Links, Extends
<1> QED BY <1>1, <1>2, <1>3, <1>4 DEF Links

\* No more than one branch is selected if that holds for each new one.
LEMMA OneExtends ==
  ASSUME NEW b \in Seq(BranchType), NEW c \in Seq(BranchType), Extends(b, c), OneIn(b),
         \A j \in DOMAIN c \ DOMAIN b :
           /\ \A i \in 1..j-1 : SameIn(c, i, j) => ~(c[i].active /\ c[j].active)
           /\ c[j].directive = "else" /\ c[j].evaluated => Chosen(c, j)
  PROVE  OneIn(c)
<1>1. ASSUME NEW j \in DOMAIN b
      PROVE  /\ \A i \in 1..j-1 : SameIn(c, i, j) => ~(c[i].active /\ c[j].active)
             /\ c[j].directive = "else" /\ c[j].evaluated => Chosen(c, j)
  <2>1. \A i \in 1..j-1 : i \in 1..j /\ i \in DOMAIN b
    OBVIOUS
  <2>2. /\ \A i \in 1..j : SameIn(c, i, j) <=> SameIn(b, i, j)
        /\ Chosen(c, j) <=> Chosen(b, j)
    BY SameExtends
  <2> QED BY <2>1, <2>2 DEF OneIn, Extends
<1> QED BY <1>1 DEF OneIn

\* The first branch of a conditional stands alone.
LEMMA FirstBranch ==
  ASSUME NEW c \in Seq(BranchType), NEW n \in DOMAIN c, c[n].directive = "if"
  PROVE  /\ \A i \in 1..n-1 : ~SameIn(c, i, n)
         /\ Chosen(c, n) <=> c[n].active
<1>1. \A i \in 1..n-1 : n \in i+1..n
  OBVIOUS
<1>2. \A i \in 1..n-1 : ~SameIn(c, i, n)
  BY <1>1 DEF SameIn
<1>3. \A i \in 1..n : i = n \/ i \in 1..n-1
  OBVIOUS
<1>4. n \in 1..n
  OBVIOUS
<1> QED BY <1>2, <1>3, <1>4 DEF Chosen

\* Another branch of a conditional follows its last one.
LEMMA LaterBranch ==
  ASSUME NEW b \in Seq(BranchType), NEW c \in Seq(BranchType), Extends(b, c),
         Len(c) = Len(b) + 1, NEW cond,
         Links(b, c[Len(c)].file, c[Len(c)].depth, cond), c[Len(c)].directive # "if"
  PROVE  /\ \A i \in 1..Len(b) :
              SameIn(c, i, Len(c)) <=>
                i = cond.openBranchIndex \/ SameIn(b, i, cond.openBranchIndex)
         /\ Chosen(c, Len(c)) <=> c[Len(c)].active \/ cond.taken
<1> DEFINE n == Len(c)
           o == cond.openBranchIndex
<1>1. /\ o \in DOMAIN b /\ b[o].file = c[n].file /\ b[o].depth = c[n].depth
      /\ (cond.taken <=> Chosen(b, o))
      /\ \A i \in DOMAIN b : i > o => ~(b[i].file = c[n].file /\ b[i].depth = c[n].depth)
  BY DEF Links
<1>2. /\ n = Len(b) + 1 /\ Len(b) \in Nat /\ DOMAIN b = 1..Len(b) /\ o \in 1..Len(b)
      /\ \A i \in DOMAIN b : c[i].file = b[i].file /\ c[i].depth = b[i].depth
                             /\ c[i].directive = b[i].directive /\ c[i].active = b[i].active
  BY <1>1 DEF Extends
<1> HIDE DEF n, o
<1>3. ASSUME NEW i \in 1..Len(b)
      PROVE  SameIn(c, i, n) <=> i = o \/ SameIn(b, i, o)
  <2>1. i \in DOMAIN b /\ i < n
    BY <1>2, <1>3
  <2>2. ASSUME SameIn(c, i, n) PROVE i = o \/ SameIn(b, i, o)
    <3>1. b[i].file = c[n].file /\ b[i].depth = c[n].depth
      BY <1>2, <2>1, <2>2 DEF SameIn
    <3>2. i <= o
      BY <1>1, <1>2, <2>1, <3>1
    <3>3. \A k \in i+1..o : k \in i+1..n /\ k \in DOMAIN b
      BY <1>2
    <3> QED BY <1>1, <1>2, <2>2, <3>1, <3>2, <3>3 DEF SameIn
  <2>3. ASSUME i = o \/ SameIn(b, i, o) PROVE SameIn(c, i, n)
    <3>1. i <= o /\ c[i].file = c[n].file /\ c[i].depth = c[n].depth
      BY <1>1, <1>2, <2>1, <2>3 DEF SameIn
    <3>2. ASSUME NEW k \in i+1..n, c[k].file = c[n].file /\ c[k].depth = c[n].depth
          PROVE  c[k].directive # "if"
      <4>1. CASE k = n
        BY <4>1 DEF n
      <4>2. CASE k # n
        <5>1. k \in DOMAIN b
          BY <1>2, <2>1, <3>2, <4>2
        <5>2. k <= o
          BY <1>1, <1>2, <3>2, <5>1
        <5>3. SameIn(b, i, o) /\ k \in i+1..o
          BY <1>2, <2>3, <3>2, <5>2
        <5> QED BY <1>1, <1>2, <3>2, <5>1, <5>3 DEF SameIn
      <4> QED BY <4>1, <4>2
    <3> QED BY <2>1, <3>1, <3>2 DEF SameIn
  <2> QED BY <2>2, <2>3
<1>4. Chosen(c, n) <=> c[n].active \/ cond.taken
  <2>1. 1..n = 1..Len(b) \cup {n} /\ n \notin 1..Len(b)
    BY <1>2
  <2>2. Chosen(c, n) <=> c[n].active \/ \E i \in 1..Len(b) : c[i].active /\ SameIn(c, i, n)
    <3>1. ~SameIn(c, n, n)
      BY <1>2 DEF SameIn
    <3> QED BY <2>1, <3>1 DEF Chosen
  <2>3. (\E i \in 1..Len(b) : c[i].active /\ SameIn(c, i, n)) <=> Chosen(b, o)
    <3>1. \A i \in 1..Len(b) : SameIn(b, i, o) => i \in 1..o
      BY <1>2 DEF SameIn
    <3>2. o \in 1..o /\ 1..o \subseteq 1..Len(b)
      BY <1>2
    <3> QED BY <1>2, <1>3, <3>1, <3>2 DEF Chosen
  <2> QED BY <1>1, <2>2, <2>3
<1> QED BY <1>3, <1>4 DEF n, o

\* A branch that is closed only gets another end.
LEMMA Closed ==
  ASSUME TypeOK, frames # <<>>, Depth > 0
  PROVE  /\ CloseBranch \in Seq(BranchType) /\ DOMAIN CloseBranch = DOMAIN branches
         /\ Len(CloseBranch) = Len(branches)
         /\ Extends(branches, CloseBranch)
         /\ \A i \in DOMAIN branches :
              CloseBranch[i].to = IF i = Cond.openBranchIndex THEN Here ELSE branches[i].to
<1> DEFINE o == Cond.openBranchIndex
           b == branches[o]
           c == Branch(b.file, b.directive, b.depth, b.from, Here, b.active, b.evaluated)
<1>1. branches \in Seq(BranchType) /\ CloseBranch \in Seq(BranchType)
  BY BranchesType DEF TypeOK
<1>2. CASE o \in DOMAIN branches
  <2>1. c \in BranchType
    <3>1. b \in BranchType
      BY <1>1, <1>2
    <3> QED BY <3>1, TopType DEF Branch, BranchType
  <2>2. CloseBranch = [branches EXCEPT ![o] = c]
    BY <1>2 DEF CloseBranch
  <2>3. /\ c.file = b.file /\ c.directive = b.directive /\ c.depth = b.depth
        /\ c.from = b.from /\ c.to = Here /\ c.active = b.active
        /\ c.evaluated = b.evaluated
    BY DEF Branch
  <2> HIDE DEF c, o
  <2>4. /\ DOMAIN CloseBranch = DOMAIN branches /\ Len(CloseBranch) = Len(branches)
        /\ CloseBranch[o] = c
        /\ \A i \in DOMAIN branches : i # o => CloseBranch[i] = branches[i]
    BY <1>1, <1>2, <2>1, <2>2, SeqExcept
  <2> QED BY <1>1, <2>3, <2>4 DEF Extends, o
<1>3. CASE o \notin DOMAIN branches
  BY <1>1, <1>3 DEF CloseBranch, Extends
<1> QED BY <1>2, <1>3

\* A branch that is opened becomes the last one.
AddsBranch(known, c, k, d, a, v) ==
  /\ c \in Seq(BranchType) /\ Extends(known, c) /\ Len(c) = NextBranch
  /\ DOMAIN c = DOMAIN known \cup {NextBranch} /\ NextBranch \notin DOMAIN known
  /\ c[NextBranch].file = File /\ c[NextBranch].directive = k
  /\ c[NextBranch].depth = d /\ c[NextBranch].from = Here /\ c[NextBranch].to = Here
  /\ c[NextBranch].active = a /\ c[NextBranch].evaluated = v
  /\ \A i \in DOMAIN known : c[i] = known[i]

\* What opening a branch adds to the record.
LEMMA OpenedBranch ==
  ASSUME TypeOK, frames # <<>>
  PROVE  \A known \in Seq(BranchType), k \in {"if", "elseif", "else"}, d \in Nat,
            a, v \in BOOLEAN :
           Len(known) = Len(branches) =>
             AddsBranch(known, OpenBranch(known, k, d, a, v), k, d, a, v)
<1> TAKE known \in Seq(BranchType), k \in {"if", "elseif", "else"}, d \in Nat,
         a, v \in BOOLEAN
<1> HAVE Len(known) = Len(branches)
<1> DEFINE b == Branch(File, k, d, Here, Here, a, v)
           c == OpenBranch(known, k, d, a, v)
<1>1. b \in BranchType /\ c = Append(known, b)
  BY TopType DEF Branch, BranchType, OpenBranch
<1>2. /\ b.file = File /\ b.directive = k /\ b.depth = d /\ b.from = Here
      /\ b.to = Here /\ b.active = a /\ b.evaluated = v
  BY DEF Branch
<1> HIDE DEF b, c
<1>3. /\ c \in Seq(BranchType) /\ Len(c) = Len(known) + 1 /\ c[Len(known) + 1] = b
      /\ \A i \in DOMAIN known : c[i] = known[i]
      /\ DOMAIN c = DOMAIN known \cup {Len(known) + 1} /\ Len(known) + 1 \notin DOMAIN known
  BY <1>1
<1>4. Len(known) + 1 = NextBranch
  BY DEF NextBranch
<1>5. Extends(known, c)
  BY <1>3 DEF Extends
<1> QED BY <1>2, <1>3, <1>4, <1>5 DEF AddsBranch, c

\* The conditional that #if opens.
LEMMA NewConditional ==
  ASSUME TypeOK, frames # <<>>, OneIn(branches), NEW a \in BOOLEAN, NEW v \in BOOLEAN,
         NEW c, c = OpenBranch(branches, "if", Depth + 1, a, v)
  PROVE  /\ OneIn(c)
         /\ \A p : Links(c, File, Depth + 1, CondFrame(p, a, a, NextBranch, FALSE))
<1> DEFINE n == NextBranch
<1>0. branches \in Seq(BranchType) /\ Depth + 1 \in Nat
  <2>1. branches \in Seq(BranchType)
    BY DEF TypeOK
  <2>2. Depth \in Nat
    BY TopType
  <2> QED BY <2>1, <2>2
<1>1. /\ c \in Seq(BranchType) /\ Extends(branches, c)
      /\ DOMAIN c = DOMAIN branches \cup {n} /\ n \notin DOMAIN branches
      /\ c[n].file = File /\ c[n].directive = "if" /\ c[n].depth = Depth + 1
      /\ c[n].active = a /\ Len(c) = n
  <2>1. AddsBranch(branches, c, "if", Depth + 1, a, v)
    BY <1>0, OpenedBranch
  <2> QED BY <2>1 DEF AddsBranch
<1>2. /\ \A i \in 1..n-1 : ~SameIn(c, i, n)
      /\ Chosen(c, n) <=> c[n].active
  BY <1>1, FirstBranch
<1> HIDE DEF n
<1>3. OneIn(c)
  BY <1>0, <1>1, <1>2, OneExtends
<1>4. \A i \in DOMAIN c : ~(i > n)
  BY <1>1
<1>5. ASSUME NEW p PROVE Links(c, File, Depth + 1, CondFrame(p, a, a, n, FALSE))
  <2> DEFINE cond == CondFrame(p, a, a, n, FALSE)
  <2>1. cond.openBranchIndex = n /\ cond.branchActive = a /\ cond.taken = a
    BY DEF CondFrame
  <2> DEFINE i == cond.openBranchIndex
  <2>2. i \in DOMAIN c /\ c[i].file = File /\ c[i].depth = Depth + 1
        /\ c[i].active = cond.branchActive
    BY <1>1, <2>1
  <2>3. cond.taken <=> Chosen(c, i)
    BY <1>1, <1>2, <2>1
  <2>4. \A j \in DOMAIN c : j > i => ~(c[j].file = File /\ c[j].depth = Depth + 1)
    BY <1>4, <2>1
  <2> HIDE DEF cond
  <2>5. Links(c, File, Depth + 1, cond)
    BY <2>2, <2>3, <2>4 DEF Links
  <2> QED BY <2>5 DEF cond
<1> QED BY <1>3, <1>5 DEF n

\* Another branch of the innermost conditional, selected only if none was.
LEMMA NewAlternative ==
  ASSUME TypeOK, frames # <<>>, Depth > 0, ~Cond.overflow, OneIn(branches),
         Links(branches, File, Depth, Cond),
         NEW k \in {"elseif", "else"}, NEW a \in BOOLEAN, NEW v \in BOOLEAN,
         a => ~Cond.taken, k = "else" /\ v => a \/ Cond.taken,
         NEW c, c = OpenBranch(CloseBranch, k, Depth, a, v)
  PROVE  /\ OneIn(c)
         /\ \A p, t : (t <=> Cond.taken \/ a) =>
              Links(c, File, Depth, CondFrame(p, a, t, NextBranch, FALSE))
<1> DEFINE n == NextBranch
           b == CloseBranch
           o == Cond.openBranchIndex
<1>1. /\ branches \in Seq(BranchType) /\ Depth \in Nat /\ b \in Seq(BranchType)
      /\ Len(b) = Len(branches) /\ DOMAIN b = DOMAIN branches /\ Extends(branches, b)
  BY TopType, Closed DEF TypeOK
<1> HIDE DEF b
<1>2. /\ c \in Seq(BranchType) /\ Extends(b, c)
      /\ DOMAIN c = DOMAIN b \cup {n} /\ n \notin DOMAIN b
      /\ c[n].file = File /\ c[n].directive = k /\ c[n].depth = Depth
      /\ c[n].active = a /\ c[n].evaluated = v /\ Len(c) = n /\ n = Len(b) + 1
  <2>1. AddsBranch(b, c, k, Depth, a, v)
    BY <1>1, OpenedBranch DEF b
  <2> QED BY <1>1, <2>1 DEF AddsBranch, NextBranch
<1>3. Links(b, File, Depth, Cond)
  BY <1>1, LinksExtend
<1>4. OneIn(b)
  BY <1>1, OneExtends
<1> HIDE DEF n
<1>5. /\ \A i \in 1..Len(b) : SameIn(c, i, n) <=> i = o \/ SameIn(b, i, o)
      /\ Chosen(c, n) <=> a \/ Cond.taken
  <2>1. k # "if"
    OBVIOUS
  <2> QED BY <1>1, <1>2, <1>3, <2>1, LaterBranch
<1>6. ASSUME NEW i \in 1..n-1, SameIn(c, i, n), c[i].active, a PROVE FALSE
  <2>1. i \in 1..Len(b) /\ i \in DOMAIN b /\ o \in DOMAIN b
    BY <1>1, <1>2, <1>3 DEF Links
  <2>2. i = o \/ SameIn(b, i, o)
    BY <1>5, <1>6, <2>1
  <2>3. b[i].active
    BY <1>2, <1>6, <2>1 DEF Extends
  <2>4. i \in 1..o
    BY <1>1, <2>1, <2>2 DEF SameIn
  <2>5. Chosen(b, o)
    BY <2>2, <2>3, <2>4 DEF Chosen
  <2> QED BY <1>3, <1>6, <2>5 DEF Links
<1>7. OneIn(c)
  <2>1. \A j \in DOMAIN c \ DOMAIN b : j = n
    BY <1>2
  <2>2. c[n].directive = "else" /\ c[n].evaluated => Chosen(c, n)
    BY <1>2, <1>5
  <2> QED BY <1>1, <1>2, <1>4, <1>6, <2>1, <2>2, OneExtends
<1>8. \A i \in DOMAIN c : ~(i > n)
  BY <1>2
<1>9. ASSUME NEW p, NEW t, t <=> Cond.taken \/ a
      PROVE  Links(c, File, Depth, CondFrame(p, a, t, n, FALSE))
  <2> DEFINE cond == CondFrame(p, a, t, n, FALSE)
  <2>1. cond.openBranchIndex = n /\ cond.branchActive = a /\ cond.taken = t
    BY DEF CondFrame
  <2> DEFINE i == cond.openBranchIndex
  <2>2. i \in DOMAIN c /\ c[i].file = File /\ c[i].depth = Depth
        /\ c[i].active = cond.branchActive
    BY <1>2, <2>1
  <2>3. cond.taken <=> Chosen(c, i)
    BY <1>5, <1>9, <2>1
  <2>4. \A j \in DOMAIN c : j > i => ~(c[j].file = File /\ c[j].depth = Depth)
    BY <1>8, <2>1
  <2> HIDE DEF cond
  <2>5. Links(c, File, Depth, cond)
    BY <2>2, <2>3, <2>4 DEF Links
  <2> QED BY <2>5 DEF cond
<1> QED BY <1>7, <1>9 DEF n

\* Steps that record no branch, and give no frame other conditionals.
LEMMA RecordedSame ==
  ASSUME Inv, Inv', Recorded, Extends(branches, branches'),
         DOMAIN branches' = DOMAIN branches, DOMAIN files \subseteq DOMAIN files',
         \A n \in DOMAIN frames' :
           \/ n \in DOMAIN frames /\ frames'[n] = frames[n]
           \/ frames'[n].condStack = <<>>
  PROVE  Recorded'
<1>1. branches \in Seq(BranchType) /\ branches' \in Seq(BranchType)
  BY DEF Inv, TypeInv, TypeOK
<1>2. OneIn(branches')
  BY <1>1, OneExtends DEF Recorded
<1>3. ASSUME NEW n \in DOMAIN frames' PROVE Linked(branches', frames'[n])
  <2>1. CASE n \in DOMAIN frames /\ frames'[n] = frames[n]
    <3>1. Linked(branches, frames'[n])
      BY <2>1 DEF Recorded
    <3> QED BY <1>1, <3>1, LinksExtend DEF Linked
  <2>2. CASE frames'[n].condStack = <<>>
    BY <2>2 DEF Linked
  <2> QED BY <1>3, <2>1, <2>2
<1>4. \A i \in DOMAIN branches' : branches'[i].file \in DOMAIN files'
  BY DEF Recorded, Extends
<1> QED BY <1>2, <1>3, <1>4 DEF Recorded

\* Steps that give the innermost frame other conditionals, and record at most
\* branches of its file.
LEMMA RecordedTop ==
  ASSUME Inv, Inv', Accounted, Recorded, frames # <<>>, UNCHANGED files,
         Extends(branches, branches'), OneIn(branches'),
         \A i \in DOMAIN branches' \ DOMAIN branches : branches'[i].file = File,
         NEW cs \in Seq(CondFrameType), NEW e \in BOOLEAN, SetTop(cs, e),
         \A d \in DOMAIN cs :
           \/ cs[d].overflow
           \/ Links(branches', File, d, cs[d])
           \/ /\ d \in DOMAIN Top.condStack /\ cs[d] = Top.condStack[d]
              /\ \A i \in DOMAIN branches' \ DOMAIN branches : branches'[i].depth # d
  PROVE  Recorded'
<1>1. /\ branches \in Seq(BranchType) /\ branches' \in Seq(BranchType)
      /\ frames \in Seq(FrameType) /\ TypeOK /\ frames' \in Seq(FrameType)
      /\ \A n \in DOMAIN frames : frames[n].file \in Nat
  BY DEF Inv, TypeInv, TypeOK
<1>2. /\ Len(frames) \in DOMAIN frames /\ DOMAIN frames' = DOMAIN frames
      /\ \A n \in DOMAIN frames : n # Len(frames) => frames'[n] = frames[n]
      /\ frames'[Len(frames)].file = File /\ frames'[Len(frames)].condStack = cs
      /\ File \in DOMAIN files
  <2>1. Len(frames') = Len(frames) /\ frames'[Len(frames)] = Frame(Top.uri, File, cs, e)
    BY <1>1, SetTopType
  <2> QED BY <1>1, <2>1, SetTopType, TopType DEF Frame
<1>3. ASSUME NEW n \in DOMAIN frames, n # Len(frames)
      PROVE  Linked(branches', frames'[n])
  <2>1. Linked(branches, frames[n]) /\ frames'[n] = frames[n]
    BY <1>2, <1>3 DEF Recorded
  <2>2. frames[n].file # File
    <3>1. n < Len(frames)
      BY <1>1, <1>3
    <3>2. frames[n].file < frames[Len(frames)].file
      BY <1>2, <3>1 DEF Accounted, Increasing
    <3> QED BY <1>1, <1>2, <3>2 DEF File, Top
  <2>3. ASSUME NEW d \in DOMAIN frames[n].condStack, ~frames[n].condStack[d].overflow
        PROVE  Links(branches', frames[n].file, d, frames[n].condStack[d])
    <3>1. Links(branches, frames[n].file, d, frames[n].condStack[d])
      BY <2>1, <2>3 DEF Linked
    <3>2. \A i \in DOMAIN branches' \ DOMAIN branches : branches'[i].file # frames[n].file
      BY <2>2
    <3> QED BY <1>1, <3>1, <3>2, LinksExtend
  <2> QED BY <2>1, <2>3 DEF Linked
<1>4. Linked(branches', frames'[Len(frames)])
  <2> SUFFICES ASSUME NEW d \in DOMAIN cs, ~cs[d].overflow
               PROVE  Links(branches', File, d, cs[d])
    BY <1>2 DEF Linked
  <2>1. CASE /\ d \in DOMAIN Top.condStack /\ cs[d] = Top.condStack[d]
             /\ \A i \in DOMAIN branches' \ DOMAIN branches : branches'[i].depth # d
    <3>1. Linked(branches, Top)
      BY <1>2 DEF Recorded, Top
    <3>2. Links(branches, File, d, cs[d])
      BY <2>1, <3>1 DEF Linked, File
    <3> QED BY <1>1, <2>1, <3>2, LinksExtend
  <2>2. CASE Links(branches', File, d, cs[d])
    BY <2>2
  <2> QED BY <2>1, <2>2
<1>5. \A i \in DOMAIN branches' : branches'[i].file \in DOMAIN files'
  BY <1>2 DEF Recorded, Extends
<1> QED BY <1>2, <1>3, <1>4, <1>5 DEF Recorded

\* The conditionals keep the record, first those that record no branch.
LEMMA RecordedNoBranch ==
  ASSUME Inv, Inv', Accounted, Recorded, NEW line \in Lines,
         IfOverflow(line) \/ Endif(line) \/ Endinput(line)
  PROVE  Recorded'
<1> USE DEF record
<1>1. TypeOK /\ OneIn(branches) /\ branches \in Seq(BranchType)
  BY DEF Inv, TypeInv, TypeOK, Recorded
<1>2. Reading(line) /\ frames # <<>> /\ files' = files
  <2>1. Reading(line) /\ files' = files
    BY DEF IfOverflow, Endif, Endinput
  <2> QED BY <1>1, <2>1, ReadingType
<1>3. Top.condStack \in Seq(CondFrameType) /\ Depth = Len(Top.condStack)
  BY <1>1, <1>2, StackTypes DEF Depth
<1>4. CASE IfOverflow(line)
  <2> DEFINE c == CondFrame(CurrentActive(Top), FALSE, TRUE, 1, TRUE)
             cs == Append(Top.condStack, c)
  <2>1. c \in CondFrameType /\ c.overflow
    BY DEF CondFrame, CondFrameType, CurrentActive
  <2>2. SetTop(cs, FALSE) /\ branches' = branches
    BY <1>4 DEF IfOverflow
  <2> HIDE DEF c
  <2>3. /\ cs \in Seq(CondFrameType) /\ DOMAIN cs = DOMAIN Top.condStack \cup {Depth + 1}
        /\ cs[Depth + 1] = c /\ \A d \in DOMAIN Top.condStack : cs[d] = Top.condStack[d]
    BY <1>3, <2>1
  <2> HIDE DEF cs
  <2>4. \A d \in DOMAIN cs :
          cs[d].overflow \/ (d \in DOMAIN Top.condStack /\ cs[d] = Top.condStack[d])
    BY <2>1, <2>3
  <2>5. Extends(branches, branches') /\ DOMAIN branches' \ DOMAIN branches = {}
    BY <2>2 DEF Extends
  <2> QED BY <1>1, <1>2, <2>2, <2>3, <2>4, <2>5, RecordedTop
<1>5. CASE Endif(line)
  <2> DEFINE cs == SubSeq(Top.condStack, 1, Depth - 1)
  <2>1. SetTop(cs, FALSE) /\ Depth > 0 /\ (branches' = branches \/ branches' = CloseBranch)
    BY <1>5 DEF Endif
  <2>2. cs \in Seq(CondFrameType)
    BY <1>1, <1>2, <2>1, StackTypes
  <2>3. \A d \in DOMAIN cs : d \in DOMAIN Top.condStack /\ cs[d] = Top.condStack[d]
    BY <1>3, <2>1
  <2> HIDE DEF cs
  <2>4. Extends(branches, branches') /\ DOMAIN branches' \ DOMAIN branches = {}
    BY <1>1, <1>2, <2>1, Closed DEF Extends
  <2>5. OneIn(branches')
    BY <1>1, <1>2, <2>1, <2>4, Closed, OneExtends
  <2> QED BY <1>2, <2>1, <2>2, <2>3, <2>4, <2>5, RecordedTop
<1>6. CASE Endinput(line)
  <2>1. SetTop(Top.condStack, CurrentActive(Top)) /\ branches' = branches
        /\ CurrentActive(Top) \in BOOLEAN
    BY <1>6 DEF Endinput, CurrentActive
  <2>2. Extends(branches, branches') /\ DOMAIN branches' \ DOMAIN branches = {}
    BY <2>1 DEF Extends
  <2> QED BY <1>1, <1>2, <1>3, <2>1, <2>2, RecordedTop
<1> QED BY <1>4, <1>5, <1>6

\* A new conditional is known with its first branch.
LEMMA RecordedIf ==
  ASSUME Inv, Inv', Accounted, Recorded, NEW line \in Lines, If(line)
  PROVE  Recorded'
<1> DEFINE p == CurrentActive(Top)
           a == p /\ Holds(line.cond)
           c == CondFrame(p, a, a, NextBranch, FALSE)
           cs == Append(Top.condStack, c)
<1>1. TypeOK /\ OneIn(branches) /\ branches \in Seq(BranchType)
  BY DEF Inv, TypeInv, TypeOK, Recorded
<1>2. /\ Reading(line) /\ files' = files /\ SetTop(cs, FALSE)
      /\ branches' = OpenBranch(branches, "if", Depth + 1, a, p)
  BY DEF If
<1>3. frames # <<>> /\ Top.condStack \in Seq(CondFrameType) /\ Depth = Len(Top.condStack)
      /\ NextBranch \in Nat /\ Depth + 1 \in Nat
  BY <1>1, <1>2, ReadingType, StackTypes, BranchesType, TopType DEF Depth
<1>4. p \in BOOLEAN /\ a \in BOOLEAN
  BY DEF CurrentActive
<1> HIDE DEF a, p
<1>5. c \in CondFrameType
  BY <1>3, <1>4 DEF CondFrame, CondFrameType
<1>6. AddsBranch(branches, branches', "if", Depth + 1, a, p)
  BY <1>1, <1>2, <1>3, <1>4, OpenedBranch
<1>7. OneIn(branches') /\ Links(branches', File, Depth + 1, c)
  BY <1>1, <1>2, <1>3, <1>4, NewConditional
<1> HIDE DEF c
<1>8. /\ cs \in Seq(CondFrameType) /\ DOMAIN cs = DOMAIN Top.condStack \cup {Depth + 1}
      /\ Depth + 1 \notin DOMAIN Top.condStack
      /\ cs[Depth + 1] = c /\ \A d \in DOMAIN Top.condStack : cs[d] = Top.condStack[d]
  BY <1>3, <1>5
<1> HIDE DEF cs
<1>9. /\ Extends(branches, branches')
      /\ \A i \in DOMAIN branches' \ DOMAIN branches :
           branches'[i].file = File /\ branches'[i].depth = Depth + 1
  BY <1>6 DEF AddsBranch
<1>10. ASSUME NEW d \in DOMAIN cs
       PROVE  \/ Links(branches', File, d, cs[d])
              \/ /\ d \in DOMAIN Top.condStack /\ cs[d] = Top.condStack[d]
                 /\ \A i \in DOMAIN branches' \ DOMAIN branches : branches'[i].depth # d
  <2>1. CASE d = Depth + 1
    BY <1>7, <1>8, <2>1
  <2>2. CASE d # Depth + 1
    BY <1>8, <1>9, <1>10, <2>2
  <2> QED BY <2>1, <2>2
<1> QED BY <1>2, <1>3, <1>7, <1>8, <1>9, <1>10, RecordedTop

\* Another branch is known to its conditional.
LEMMA RecordedAlternative ==
  ASSUME Inv, Inv', Accounted, Recorded, frames # <<>>, UNCHANGED files,
         Depth > 0, ~Cond.overflow,
         NEW k \in {"elseif", "else"}, NEW a \in BOOLEAN, NEW v \in BOOLEAN,
         NEW t \in BOOLEAN, a => ~Cond.taken, t <=> Cond.taken \/ a,
         k = "else" /\ v => a \/ Cond.taken,
         branches' = OpenBranch(CloseBranch, k, Depth, a, v),
         SetTop(Replace(CondFrame(Cond.parentActive, a, t, NextBranch, FALSE)), FALSE)
  PROVE  Recorded'
<1> DEFINE c == CondFrame(Cond.parentActive, a, t, NextBranch, FALSE)
           cs == Replace(c)
<1>1. TypeOK /\ OneIn(branches) /\ branches \in Seq(BranchType)
  BY DEF Inv, TypeInv, TypeOK, Recorded
<1>2. /\ Top.condStack \in Seq(CondFrameType) /\ Depth = Len(Top.condStack)
      /\ Depth \in DOMAIN Top.condStack /\ NextBranch \in Nat /\ Depth \in Nat
      /\ Cond.parentActive \in BOOLEAN /\ Len(frames) \in DOMAIN frames
  <2>1. Cond.parentActive \in BOOLEAN
    <3>1. Cond \in CondFrameType
      BY <1>1, TopType
    <3> QED BY <3>1 DEF CondFrameType
  <2>2. Top.condStack \in Seq(CondFrameType) /\ Depth = Len(Top.condStack) /\ Depth \in Nat
    BY <1>1, StackTypes, TopType DEF Depth
  <2>3. NextBranch \in Nat /\ Len(frames) \in DOMAIN frames
    BY <1>1, BranchesType, TopType
  <2> QED BY <2>1, <2>2, <2>3
<1>3. c \in CondFrameType
  BY <1>2 DEF CondFrame, CondFrameType
<1>4. Links(branches, File, Depth, Cond)
  <2>1. Linked(branches, Top)
    BY <1>2 DEF Recorded, Top
  <2> QED BY <1>2, <2>1 DEF Linked, Cond, File
<1>5. /\ CloseBranch \in Seq(BranchType) /\ DOMAIN CloseBranch = DOMAIN branches
      /\ Len(CloseBranch) = Len(branches) /\ Extends(branches, CloseBranch)
  BY <1>1, Closed
<1>6. AddsBranch(CloseBranch, branches', k, Depth, a, v)
  BY <1>1, <1>2, <1>5, OpenedBranch
<1>7. OneIn(branches') /\ Links(branches', File, Depth, c)
  BY <1>1, <1>4, NewAlternative
<1> HIDE DEF c
<1>8. /\ cs \in Seq(CondFrameType) /\ DOMAIN cs = DOMAIN Top.condStack
      /\ cs[Depth] = c
      /\ \A d \in DOMAIN Top.condStack : d # Depth => cs[d] = Top.condStack[d]
  BY <1>2, <1>3, SeqExcept DEF Replace
<1>9. /\ Extends(branches, branches')
      /\ \A i \in DOMAIN branches' \ DOMAIN branches :
           branches'[i].file = File /\ branches'[i].depth = Depth
  BY <1>5, <1>6 DEF AddsBranch, Extends
<1>10. ASSUME NEW d \in DOMAIN cs
       PROVE  \/ Links(branches', File, d, cs[d])
              \/ /\ d \in DOMAIN Top.condStack /\ cs[d] = Top.condStack[d]
                 /\ \A i \in DOMAIN branches' \ DOMAIN branches : branches'[i].depth # d
  <2>1. CASE d = Depth
    BY <1>7, <1>8, <2>1
  <2>2. CASE d # Depth
    BY <1>8, <1>9, <1>10, <2>2
  <2> QED BY <2>1, <2>2
<1>11. SetTop(cs, FALSE)
  BY DEF c
<1> HIDE DEF cs
<1> QED BY <1>7, <1>8, <1>9, <1>10, <1>11, RecordedTop

\* The three directives that start another branch.
LEMMA RecordedElse ==
  ASSUME Inv, Inv', Accounted, Recorded, NEW line \in Lines,
         ElseifTaken(line) \/ Elseif(line) \/ Else(line)
  PROVE  Recorded'
<1>1. Reading(line) /\ files' = files /\ Depth > 0 /\ ~Cond.overflow /\ frames # <<>>
  BY DEF ElseifTaken, Elseif, Else, Reading, Running
<1>2. Cond.parentActive \in BOOLEAN /\ Cond.taken \in BOOLEAN
  <2>1. Cond \in CondFrameType
    BY <1>1, TopType DEF Inv, TypeInv
  <2> QED BY <2>1 DEF CondFrameType
<1>3. CASE ElseifTaken(line)
  <2>1. /\ Cond.taken /\ branches' = OpenBranch(CloseBranch, "elseif", Depth, FALSE, FALSE)
        /\ SetTop(Replace(CondFrame(Cond.parentActive, FALSE, TRUE, NextBranch, FALSE)), FALSE)
    BY <1>3 DEF ElseifTaken
  <2> QED BY <1>1, <2>1, RecordedAlternative
<1>4. CASE Elseif(line)
  <2> DEFINE a == Cond.parentActive /\ Holds(line.cond)
  <2>1. /\ ~Cond.taken /\ a \in BOOLEAN
        /\ branches' = OpenBranch(CloseBranch, "elseif", Depth, a, Cond.parentActive)
        /\ SetTop(Replace(CondFrame(Cond.parentActive, a, a, NextBranch, FALSE)), FALSE)
    BY <1>4 DEF Elseif
  <2> HIDE DEF a
  <2>2. a <=> Cond.taken \/ a
    BY <2>1
  <2> QED BY <1>1, <1>2, <2>1, <2>2, RecordedAlternative
<1>5. CASE Else(line)
  <2> DEFINE a == ElseSelected(Cond)
             t == Cond.taken \/ a
  <2>1. /\ branches' = OpenBranch(CloseBranch, "else", Depth, a, Cond.parentActive)
        /\ SetTop(Replace(CondFrame(Cond.parentActive, a, t, NextBranch, FALSE)), FALSE)
    BY <1>5 DEF Else
  <2>2. /\ a \in BOOLEAN /\ t \in BOOLEAN /\ (a => ~Cond.taken) /\ (t <=> Cond.taken \/ a)
        /\ Cond.parentActive => a \/ Cond.taken
    BY <1>2 DEF ElseSelected
  <2> HIDE DEF a, t
  <2> QED BY <1>1, <1>2, <2>1, <2>2, RecordedAlternative
<1> QED BY <1>3, <1>4, <1>5

\* Every step keeps the record of the branches.
LEMMA RecordedNext == Inv /\ Accounted /\ Recorded /\ [Next]_vars => Recorded'
<1> SUFFICES ASSUME Inv, Accounted, Recorded, [Next]_vars PROVE Recorded'
  OBVIOUS
<1> USE DEF record
<1>1. Inv' /\ TypeOK /\ frames \in Seq(FrameType) /\ files \in Seq(Uris)
  BY NextInv DEF Inv, TypeInv, TypeOK
<1>2. ASSUME UNCHANGED branches, DOMAIN files \subseteq DOMAIN files',
             \A n \in DOMAIN frames' :
               \/ n \in DOMAIN frames /\ frames'[n] = frames[n]
               \/ frames'[n].condStack = <<>>
      PROVE  Recorded'
  <2>1. Extends(branches, branches')
    BY <1>2 DEF Extends
  <2> QED BY <1>1, <1>2, <2>1, RecordedSame
<1>3. ASSUME NEW line \in Lines,
             \/ Text(line) \/ ExpansionOverflow(line) \/ Define(line) \/ Undef(line)
             \/ Message(line) \/ Unmatched(line) \/ IncludeInactive(line)
             \/ IncludeNotFound(line) \/ IncludeCycle(line) \/ IncludeTooDeep(line)
      PROVE  Recorded'
  <2>1. UNCHANGED <<files, frames, branches>>
    BY <1>3 DEF Text, ExpansionOverflow, Define, Undef, Message, Unmatched,
       IncludeInactive, IncludeNotFound, IncludeCycle, IncludeTooDeep, IncludeRefused
  <2> QED BY <1>2, <2>1
<1>4. ASSUME NEW line \in Lines, AlternativeOverflow(line) PROVE Recorded'
  <2>1. UNCHANGED <<files, frames>> /\ branches' = CloseBranch /\ Depth > 0 /\ frames # <<>>
    BY <1>4 DEF AlternativeOverflow, Reading, Running
  <2>2. Extends(branches, branches') /\ DOMAIN branches' = DOMAIN branches
    BY <1>1, <2>1, Closed
  <2> QED BY <1>1, <2>1, <2>2, RecordedSame
<1>5. ASSUME NEW line \in Lines, IfOverflow(line) \/ Endif(line) \/ Endinput(line)
      PROVE  Recorded'
  BY <1>1, <1>5, RecordedNoBranch
<1>6. ASSUME NEW line \in Lines, If(line) PROVE Recorded'
  BY <1>1, <1>6, RecordedIf
<1>7. ASSUME NEW line \in Lines, ElseifTaken(line) \/ Elseif(line) \/ Else(line)
      PROVE  Recorded'
  BY <1>1, <1>7, RecordedElse
<1>8. ASSUME NEW line \in Lines, Enter(line) PROVE Recorded'
  <2>1. branches' = branches /\ files' = Append(files, line.uri)
    BY <1>8 DEF Enter, OpenFile
  <2>2. DOMAIN files \subseteq DOMAIN files'
    <3>1. files' \in Seq(Uris) /\ Len(files') = Len(files) + 1
      BY <1>1, <1>8, Entered DEF Inv, TypeInv, TypeOK
    <3> QED BY <1>1, <3>1
  <2>3. ASSUME NEW n \in DOMAIN frames'
        PROVE  \/ n \in DOMAIN frames /\ frames'[n] = frames[n]
               \/ frames'[n].condStack = <<>>
    <3>1. n \in DOMAIN frames \/ n = Len(frames')
      BY <1>1, <1>8, Entered
    <3> QED BY <1>8, <3>1, Entered
  <2> QED BY <1>2, <2>1, <2>2, <2>3
<1>9. CASE LeaveRoot \/ Cancel \/ UNCHANGED vars
  <2>1. UNCHANGED <<files, branches>> /\ (frames' = frames \/ frames' = <<>>)
    BY <1>9 DEF LeaveRoot, Cancel, vars
  <2> QED BY <1>2, <2>1
<1>10. CASE Leave
  <2>1. UNCHANGED <<files, branches>> /\ frames' = SubSeq(frames, 1, Len(frames) - 1)
        /\ Len(frames) > 1
    BY <1>10 DEF Leave, Return
  <2>2. \A n \in DOMAIN frames' : n \in DOMAIN frames /\ frames'[n] = frames[n]
    BY <1>1, <2>1
  <2> QED BY <1>2, <2>1, <2>2
<1> QED BY <1>3, <1>4, <1>5, <1>6, <1>7, <1>8, <1>9, <1>10 DEF Next, Handle

\* Nothing is recorded at the start.
LEMMA RecordedInit == Init => Recorded
<1> SUFFICES ASSUME Init PROVE Recorded
  OBVIOUS
<1>1. branches = <<>> /\ frames = <<Frame(Root, 1, <<>>, FALSE)>>
  BY DEF Init
<1> QED BY <1>1 DEF Recorded, OneIn, Linked, Frame

\* Of the branches of one conditional at most one is selected, and one with an
\* #else that was evaluated has a selected one.
THEOREM OneBranchIsSelected == Spec => []OneBranchSelected
<1>1. Recorded => OneBranchSelected
  <2> SUFFICES ASSUME Recorded, NEW j \in DOMAIN branches
      PROVE /\ \A i \in 1..j-1 :
                 SameConditional(i, j) => ~(branches[i].active /\ branches[j].active)
            /\ branches[j].directive = "else" /\ branches[j].evaluated =>
                 \E i \in 1..j : branches[i].active /\ (i = j \/ SameConditional(i, j))
    BY DEF OneBranchSelected
  <2>1. \A i : SameConditional(i, j) <=> SameIn(branches, i, j)
    BY DEF SameConditional, SameIn
  <2> QED BY <2>1 DEF Recorded, OneIn, Chosen
<1> QED BY <1>1, RecordedInit, RecordedNext, AccountedInit, AccountedNext, Invariance, PTL DEF Spec

-----------------------------------------------------------------------------
(* The view of the source that the branches give.                           *)

\* On line `here` of file k, branches b begin and end.
Turns(b, c, k, here) ==
  /\ Extends(b, c)
  /\ \A i \in DOMAIN c \ DOMAIN b : c[i].from = here
  /\ \A i \in DOMAIN b :
       b[i].file = k => c[i].to = b[i].to \/ (Unclosed(b[i]) /\ c[i].to = here)

\* A line is added to a text, while branches end or begin on it.  The lines
\* before are told as they were.
LEMMA TellsAppend ==
  ASSUME NEW b \in Seq(BranchType), NEW c \in Seq(BranchType), NEW k,
         NEW read \in Seq(Lines), NEW line \in Lines, NEW o, NEW p,
         Turns(b, c, k, Len(read) + 1), Tells(b, k, o, read),
         \A l \in DOMAIN read : Passes(p, k, l) <=> Passes(o, k, l),
         IsText(line) =>
           (Passes(p, k, Len(read) + 1)
              <=> \A i \in AroundIn(c, k, Len(read) + 1) : c[i].active)
  PROVE  Tells(c, k, p, Append(read, line))
<1> DEFINE here == Len(read) + 1
<1> USE DEF Turns
<1>1. /\ DOMAIN Append(read, line) = DOMAIN read \cup {here}
      /\ \A l \in DOMAIN read : Append(read, line)[l] = read[l]
      /\ Append(read, line)[here] = line
      /\ \A l \in DOMAIN read : l \in Nat /\ l < here /\ ~(here < l)
      /\ here \in Nat
  OBVIOUS
<1>2. ASSUME NEW l \in DOMAIN read PROVE AroundIn(c, k, l) = AroundIn(b, k, l)
  <2>1. ASSUME NEW i \in AroundIn(c, k, l) PROVE i \in AroundIn(b, k, l)
    <3>1. i \in DOMAIN c /\ c[i].file = k /\ c[i].from < l
          /\ (l < c[i].to \/ Unclosed(c[i]))
      BY <2>1 DEF AroundIn
    <3>2. i \in DOMAIN b
      BY <1>1, <1>2, <3>1
    <3>3. b[i].file = k /\ b[i].from = c[i].from
      BY <3>1, <3>2 DEF Extends
    <3>4. CASE Unclosed(b[i])
      BY <3>1, <3>2, <3>3, <3>4 DEF AroundIn
    <3>5. CASE c[i].to = b[i].to
      BY <3>1, <3>2, <3>3, <3>5 DEF AroundIn, Unclosed
    <3> QED BY <3>2, <3>3, <3>4, <3>5
  <2>2. ASSUME NEW i \in AroundIn(b, k, l) PROVE i \in AroundIn(c, k, l)
    <3>1. i \in DOMAIN b /\ b[i].file = k /\ b[i].from < l
          /\ (l < b[i].to \/ Unclosed(b[i]))
      BY <2>2 DEF AroundIn
    <3>2. l < here
      BY <1>1, <1>2
    <3>3. i \in DOMAIN c /\ c[i].file = k /\ b[i].from = c[i].from
      BY <3>1 DEF Extends
    <3>4. CASE c[i].to = here
      BY <3>1, <3>2, <3>3, <3>4 DEF AroundIn
    <3>5. CASE c[i].to = b[i].to
      BY <3>1, <3>3, <3>5 DEF AroundIn, Unclosed
    <3> QED BY <3>1, <3>4, <3>5
  <2> QED BY <2>1, <2>2
<1>3. ASSUME NEW l \in DOMAIN read
      PROVE  (\A i \in AroundIn(c, k, l) : c[i].active)
               <=> \A i \in AroundIn(b, k, l) : b[i].active
  <2>1. \A i \in AroundIn(b, k, l) : c[i].active = b[i].active
    BY DEF AroundIn, Extends
  <2> QED BY <1>2, <1>3, <2>1
<1> DEFINE longer == Append(read, line)
<1> HIDE DEF longer
<1>4. \A l \in DOMAIN read : IsText(read[l]) =>
        (Passes(p, k, l) <=> \A i \in AroundIn(c, k, l) : c[i].active)
  BY <1>3 DEF Tells
<1>5. Tells(c, k, p, longer)
  BY <1>1, <1>4 DEF Tells, longer
<1> QED BY <1>5 DEF longer

\* The text of another file is told as it was.
LEMMA TellsOther ==
  ASSUME NEW b \in Seq(BranchType), NEW c \in Seq(BranchType), Extends(b, c),
         NEW k, NEW read, NEW o, NEW p,
         \A l \in DOMAIN read : Passes(p, k, l) <=> Passes(o, k, l),
         \A i \in DOMAIN c \ DOMAIN b : c[i].file # k,
         \A i \in DOMAIN b : b[i].file = k => c[i].to = b[i].to,
         Tells(b, k, o, read)
  PROVE  Tells(c, k, p, read)
<1>1. ASSUME NEW l PROVE AroundIn(c, k, l) = AroundIn(b, k, l)
  BY DEF AroundIn, Extends, Unclosed
<1>2. \A l : \A i \in AroundIn(b, k, l) : c[i].active = b[i].active
  BY DEF AroundIn, Extends
<1> QED BY <1>1, <1>2 DEF Tells

\* Reading a line makes one text longer and leaves the others as they are.
ReadsLine(line) ==
  /\ DOMAIN lines \subseteq DOMAIN lines' /\ lines'[File] = Append(lines[File], line)
  /\ \A k \in DOMAIN lines : k # File => lines'[k] = lines[k]

\* A step that reads a line reads it so.
LEMMA LineRead ==
  ASSUME TypeOK, frames # <<>>, NEW line \in Lines,
         Reading(line) \/ (\E u : Enter(line) /\ u = line)
  PROVE  ReadsLine(line)
<1> DEFINE longer == Append(lines[File], line)
           m == [lines EXCEPT ![File] = longer]
<1>1. File \in DOMAIN lines /\ longer \in Seq(Lines) /\ lines \in Seq(Seq(Lines))
  BY TopType DEF TypeOK
<1> HIDE DEF longer
<1>2. /\ m \in Seq(Seq(Lines)) /\ DOMAIN m = DOMAIN lines /\ m[File] = longer
      /\ \A k \in DOMAIN lines : k # File => m[k] = lines[k]
  BY <1>1, SeqExcept
<1>3. lines' = m \/ lines' = Append(m, <<>>)
  BY DEF Reading, Enter, OpenFile, longer
<1> HIDE DEF m
<1>4. CASE lines' = m
  BY <1>1, <1>2, <1>4 DEF ReadsLine, longer
<1>5. CASE lines' = Append(m, <<>>)
  <2>1. <<>> \in Seq(Lines)
    OBVIOUS
  <2>2. DOMAIN m \subseteq DOMAIN lines' /\ \A k \in DOMAIN m : lines'[k] = m[k]
    BY <1>2, <1>5, <2>1
  <2> QED BY <1>1, <1>2, <2>2 DEF ReadsLine, longer
<1> QED BY <1>3, <1>4, <1>5

\* Everything stays behind when a line is read and recorded.
LEMMA BehindStep ==
  ASSUME Inv, Inv', Recorded, Behind, frames # <<>>, NEW line \in Lines, ReadsLine(line),
         Extends(branches, branches'),
         \A i \in DOMAIN branches' \ DOMAIN branches :
           branches'[i].file = File /\ branches'[i].from = Here /\ branches'[i].to = Here,
         \A i \in DOMAIN branches :
           \/ branches'[i].to = branches[i].to
           \/ branches[i].file = File /\ branches'[i].to = Here,
         DOMAIN files \subseteq DOMAIN files',
         \A t \in out' : t \in out \/ (t.file = File /\ t.line = Here)
  PROVE  Behind'
<1>1. /\ TypeOK /\ branches \in Seq(BranchType) /\ branches' \in Seq(BranchType)
      /\ lines \in Seq(Seq(Lines)) /\ lines' \in Seq(Seq(Lines))
      /\ out \subseteq [file : Nat, line : Nat, as : Bodies \cup {None}]
      /\ files \in Seq(Uris) /\ Len(lines) = Len(files)
  BY DEF Inv, TypeInv, TypeOK
<1>2. File \in DOMAIN lines /\ lines[File] \in Seq(Lines) /\ Here \in Nat
      /\ DOMAIN files = DOMAIN lines
  BY <1>1, TopType
<1>3. Len(lines'[File]) = Here
  BY <1>2 DEF ReadsLine, Here
<1>4. ASSUME NEW k \in DOMAIN lines, NEW x \in Nat, x <= Len(lines[k])
      PROVE  x <= Len(lines'[k])
  <2>1. CASE k = File
    <3>1. Len(lines[File]) \in Nat /\ Len(lines'[File]) = Len(lines[File]) + 1
      BY <1>2, <1>3 DEF Here
    <3> QED BY <1>4, <2>1, <3>1
  <2>2. CASE k # File
    BY <1>4, <2>2 DEF ReadsLine
  <2> QED BY <2>1, <2>2
<1>5. ASSUME NEW i \in DOMAIN branches'
      PROVE  /\ branches'[i].from <= Len(lines'[branches'[i].file])
             /\ branches'[i].to <= Len(lines'[branches'[i].file])
  <2>1. CASE i \in DOMAIN branches
    <3>1. /\ branches[i].file \in DOMAIN lines /\ branches[i].from \in Nat
          /\ branches[i].to \in Nat
          /\ branches'[i].file = branches[i].file /\ branches'[i].from = branches[i].from
      <4>1. branches[i] \in BranchType
        BY <1>1, <2>1
      <4>2. branches[i].from \in Nat /\ branches[i].to \in Nat
        BY <4>1 DEF BranchType
      <4>3. branches'[i].file = branches[i].file /\ branches'[i].from = branches[i].from
        BY <2>1 DEF Extends
      <4> QED BY <1>2, <2>1, <4>2, <4>3 DEF Recorded
    <3>2. /\ branches[i].from <= Len(lines[branches[i].file])
          /\ branches[i].to <= Len(lines[branches[i].file])
      BY <2>1 DEF Behind
    <3>3. /\ branches[i].from <= Len(lines'[branches[i].file])
          /\ branches[i].to <= Len(lines'[branches[i].file])
      BY <1>4, <3>1, <3>2
    <3>4. Here <= Here
      BY <1>2
    <3> QED BY <1>3, <2>1, <3>1, <3>3, <3>4
  <2>2. CASE i \notin DOMAIN branches
    BY <1>2, <1>3, <1>5, <2>2
  <2> QED BY <2>1, <2>2
<1>6. ASSUME NEW t \in out'
      PROVE  t.file \in DOMAIN files' /\ t.line <= Len(lines'[t.file])
  <2>1. CASE t \in out
    <3>1. t.file \in DOMAIN files /\ t.line <= Len(lines[t.file])
      BY <2>1 DEF Behind
    <3>2. t.line \in Nat /\ t.file \in DOMAIN lines
      BY <1>1, <1>2, <2>1, <3>1
    <3> QED BY <1>4, <3>1, <3>2
  <2>2. CASE t.file = File /\ t.line = Here
    BY <1>2, <1>3, <2>2
  <2> QED BY <1>6, <2>1, <2>2
<1> QED BY <1>5, <1>6 DEF Behind


\* A step that reads a line: the text of the innermost frame is told as
\* TellsAppend says, and that of the other files as it was.
LEMMA ViewedStep ==
  ASSUME Inv, Inv', Accounted, Recorded, Viewed, ~truncated, frames # <<>>,
         NEW line \in Lines, ReadsLine(line),
         DOMAIN files \subseteq DOMAIN files', DOMAIN frames \subseteq DOMAIN frames',
         Extends(branches, branches'),
         \A i \in DOMAIN branches' \ DOMAIN branches :
           branches'[i].file = File /\ branches'[i].from = Here /\ branches'[i].to = Here,
         NEW g, g = frames'[Len(frames)], g.file = File, NoOverflow(g),
         \A i \in DOMAIN branches' \ DOMAIN branches : i \in OpenBranches(g),
         \A i \in DOMAIN branches :
           \/ branches'[i].to = branches[i].to
              /\ (i \in OpenBranches(g) <=> i \in OpenBranches(Top))
           \/ /\ branches[i].file = File /\ branches'[i].to = Here
              /\ i \in OpenBranches(Top) /\ i \notin OpenBranches(g),
         \A n \in DOMAIN frames : n # Len(frames) => frames'[n] = frames[n],
         \A n \in DOMAIN frames' \ DOMAIN frames :
           frames'[n].condStack = <<>> /\ frames'[n].file \notin DOMAIN files,
         \A k \in DOMAIN files' \ DOMAIN files : lines'[k] = <<>>,
         out \subseteq out', \A t \in out' : t \in out \/ (t.file = File /\ t.line = Here),
         IsText(line) =>
           (Passes(out', File, Here)
              <=> \A i \in AroundIn(branches', File, Here) : branches'[i].active)
  PROVE  Viewed'
<1>1. /\ TypeOK /\ branches \in Seq(BranchType) /\ branches' \in Seq(BranchType)
      /\ frames \in Seq(FrameType) /\ lines \in Seq(Seq(Lines))
      /\ \A n \in DOMAIN frames : frames[n].file \in DOMAIN lines
      /\ DOMAIN files = DOMAIN lines
  <2>1. TypeOK /\ TypeOK'
    BY DEF Inv, TypeInv
  <2>2. branches \in Seq(BranchType) /\ branches' \in Seq(BranchType)
        /\ frames \in Seq(FrameType) /\ lines \in Seq(Seq(Lines))
    BY <2>1 DEF TypeOK
  <2>3. DOMAIN files = DOMAIN lines
    BY <2>1 DEF TypeOK
  <2> QED BY <2>1, <2>2, <2>3 DEF TypeOK
<1>2. /\ Len(frames) \in DOMAIN frames /\ Top = frames[Len(frames)] /\ Top.file = File
      /\ lines[File] \in Seq(Lines) /\ Here = Len(lines[File]) + 1 /\ Here \in Nat
      /\ File \in DOMAIN lines
  BY <1>1, TopType DEF Top, File, Here
<1>0. \A i \in DOMAIN branches :
        \/ branches'[i].to = branches[i].to
        \/ branches[i].file = File /\ branches'[i].to = Here
  OBVIOUS
<1>3. Behind'
  <2>1. Behind
    BY DEF Viewed
  <2> QED BY <1>0, <2>1, BehindStep
<1>4. ASSUME NEW k, NEW l, ~(k = File /\ l = Here)
      PROVE  Passes(out', k, l) <=> Passes(out, k, l)
  BY <1>4 DEF Passes
<1>5. Tells(branches', File, out', lines'[File])
  <2>1. Tells(branches, File, out, lines[File]) /\ OnlyOpen(branches, Top)
    BY <1>1, <1>2 DEF Viewed
  <2>2. \A l \in DOMAIN lines[File] : l # Here
    BY <1>2
  <2>3. \A l \in DOMAIN lines[File] : Passes(out', File, l) <=> Passes(out, File, l)
    BY <1>4, <2>2
  <2>4. Turns(branches, branches', File, Len(lines[File]) + 1)
    BY <1>2, <2>1 DEF Turns, OnlyOpen
  <2>5. IsText(line) =>
          (Passes(out', File, Len(lines[File]) + 1)
             <=> \A i \in AroundIn(branches', File, Len(lines[File]) + 1) :
                   branches'[i].active)
    BY <1>2
  <2>6. Tells(branches', File, out', Append(lines[File], line))
    BY <1>1, <1>2, <2>1, <2>3, <2>4, <2>5, TellsAppend
  <2> QED BY <2>6 DEF ReadsLine
<1>6. ASSUME NEW k \in DOMAIN files, k # File
      PROVE  Tells(branches', k, out', lines'[k])
  <2>1. Tells(branches, k, out, lines[k]) /\ lines'[k] = lines[k]
    BY <1>1, <1>6 DEF Viewed, ReadsLine
  <2>2. \A l : Passes(out', k, l) <=> Passes(out, k, l)
    BY <1>4, <1>6
  <2>3. /\ \A i \in DOMAIN branches' \ DOMAIN branches : branches'[i].file # k
        /\ \A i \in DOMAIN branches : branches[i].file = k => branches'[i].to = branches[i].to
    BY <1>0, <1>6
  <2> QED BY <1>1, <2>1, <2>2, <2>3, TellsOther
<1>7. \A k \in DOMAIN files' : Tells(branches', k, out', lines'[k])
  <2>1. \A k \in DOMAIN files' \ DOMAIN files : Tells(branches', k, out', lines'[k])
    BY DEF Tells
  <2> QED BY <1>5, <1>6, <2>1
<1>8. OnlyOpen(branches', g)
  <2> SUFFICES ASSUME NEW i \in DOMAIN branches', branches'[i].file = File
               PROVE  Unclosed(branches'[i]) <=> i \in OpenBranches(g)
    BY DEF OnlyOpen
  <2>1. CASE i \notin DOMAIN branches
    BY <2>1 DEF Unclosed
  <2>2. CASE i \in DOMAIN branches
    <3>1. branches[i].file = File /\ branches'[i].from = branches[i].from
      BY <2>2 DEF Extends
    <3>2. Unclosed(branches[i]) <=> i \in OpenBranches(Top)
      BY <1>2, <2>2, <3>1 DEF Viewed, OnlyOpen
    <3>3. branches[i].from < Here
      <4>1. branches[i].from <= Len(lines[File])
        BY <2>2, <3>1 DEF Viewed, Behind
      <4>2. branches[i].from \in Nat
        <5>1. branches[i] \in BranchType
          BY <1>1, <2>2
        <5> QED BY <5>1 DEF BranchType
      <4> QED BY <1>2, <4>1, <4>2
    <3>4. CASE branches'[i].to = branches[i].to
               /\ (i \in OpenBranches(g) <=> i \in OpenBranches(Top))
      BY <3>1, <3>2, <3>4 DEF Unclosed
    <3>5. CASE branches'[i].to = Here /\ i \notin OpenBranches(g)
      <4>1. branches[i].from # Here
        BY <1>2, <3>3
      <4> QED BY <3>1, <3>5, <4>1 DEF Unclosed
    <3> QED BY <2>2, <3>4, <3>5
  <2> QED BY <2>1, <2>2
<1>9. ASSUME NEW n \in DOMAIN frames, n # Len(frames)
      PROVE  OnlyOpen(branches', frames'[n]) /\ NoOverflow(frames'[n])
  <2>1. frames[n].file # File
    <3>1. n < Len(frames)
      BY <1>1, <1>9
    <3>2. frames[n].file < frames[Len(frames)].file
      BY <1>2, <3>1 DEF Accounted, Increasing
    <3>3. frames[n].file \in Nat
      BY <1>1
    <3> QED BY <1>2, <3>2, <3>3
  <2>2. OnlyOpen(branches, frames[n]) /\ NoOverflow(frames[n]) /\ frames'[n] = frames[n]
    BY <1>9 DEF Viewed
  <2>3. ASSUME NEW i \in DOMAIN branches', branches'[i].file = frames[n].file
        PROVE  Unclosed(branches'[i]) <=> i \in OpenBranches(frames[n])
    <3>1. i \in DOMAIN branches
      BY <2>1, <2>3
    <3>2. /\ branches[i].file = frames[n].file /\ branches'[i].from = branches[i].from
          /\ branches'[i].to = branches[i].to
      BY <1>0, <2>1, <2>3, <3>1 DEF Extends
    <3> QED BY <2>2, <3>1, <3>2 DEF OnlyOpen, Unclosed
  <2> QED BY <2>2, <2>3 DEF OnlyOpen
<1>10. ASSUME NEW n \in DOMAIN frames' \ DOMAIN frames
       PROVE  OnlyOpen(branches', frames'[n]) /\ NoOverflow(frames'[n])
  <2>1. \A i \in DOMAIN branches' : branches'[i].file \in DOMAIN files
    <3>1. File \in DOMAIN files
      BY <1>1, <1>2
    <3>2. \A i \in DOMAIN branches : branches'[i].file \in DOMAIN files
      BY DEF Recorded, Extends
    <3> QED BY <3>1, <3>2
  <2>2. frames'[n].file \notin DOMAIN files /\ frames'[n].condStack = <<>>
    BY <1>10
  <2> QED BY <2>1, <2>2 DEF OnlyOpen, NoOverflow
<1>11. ASSUME NEW n \in DOMAIN frames'
       PROVE  NoOverflow(frames'[n]) /\ OnlyOpen(branches', frames'[n])
  <2>1. CASE n = Len(frames)
    BY <1>8, <2>1
  <2>2. CASE n # Len(frames) /\ n \in DOMAIN frames
    BY <1>9, <2>2
  <2>3. CASE n \notin DOMAIN frames
    BY <1>10, <1>11, <2>3
  <2> QED BY <2>1, <2>2, <2>3
<1> QED BY <1>3, <1>7, <1>11 DEF Viewed

\* The branches around the line being read are the open ones, and all are
\* active if and only if the line is passed on.
LEMMA AroundHere ==
  ASSUME Inv, Recorded, Viewed, ~truncated, frames # <<>>
  PROVE  CurrentActive(Top) <=> \A i \in AroundIn(branches, File, Here) : branches[i].active
<1>1. /\ Top \in FrameType /\ Len(frames) \in DOMAIN frames /\ Top = frames[Len(frames)]
      /\ Chained(Top.condStack) /\ Top.condStack \in Seq(CondFrameType)
      /\ lines[File] \in Seq(Lines) /\ Here = Len(lines[File]) + 1 /\ Top.file = File
      /\ branches \in Seq(BranchType)
  BY TopType, StackTypes DEF Inv, TypeInv, TypeOK, Nested, Top, Here, File
<1>2. ASSUME NEW d \in DOMAIN Top.condStack
      PROVE  /\ Top.condStack[d].openBranchIndex \in AroundIn(branches, File, Here)
             /\ branches[Top.condStack[d].openBranchIndex].active
                  = Top.condStack[d].branchActive
  <2> DEFINE o == Top.condStack[d].openBranchIndex
  <2>1. Linked(branches, Top) /\ NoOverflow(Top)
    BY <1>1 DEF Recorded, Viewed
  <2>2. Links(branches, File, d, Top.condStack[d])
    BY <1>1, <1>2, <2>1 DEF Linked, NoOverflow
  <2>3. o \in DOMAIN branches /\ branches[o].file = File
        /\ branches[o].active = Top.condStack[d].branchActive
    BY <2>2 DEF Links
  <2>4. branches[o].from < Here
    <3>1. branches[o].from <= Len(lines[File])
      BY <2>3 DEF Viewed, Behind
    <3>2. branches[o].from \in Nat
      <4>1. branches[o] \in BranchType
        BY <1>1, <2>3
      <4> QED BY <4>1 DEF BranchType
    <3> QED BY <1>1, <3>1, <3>2
  <2>5. Unclosed(branches[o])
    <3>1. o \in OpenBranches(Top)
      BY <1>2 DEF OpenBranches
    <3> QED BY <1>1, <2>3, <3>1 DEF Viewed, OnlyOpen
  <2> QED BY <1>1, <2>3, <2>4, <2>5 DEF AroundIn
<1>3. ASSUME NEW i \in AroundIn(branches, File, Here) PROVE i \in OpenBranches(Top)
  <2>1. i \in DOMAIN branches /\ branches[i].file = File
        /\ (Here < branches[i].to \/ Unclosed(branches[i]))
    BY <1>1, <1>3 DEF AroundIn
  <2>2. branches[i].to <= Len(lines[File])
    BY <2>1 DEF Viewed, Behind
  <2>3. branches[i].to \in Nat
    <3>1. branches[i] \in BranchType
      BY <1>1, <2>1
    <3> QED BY <3>1 DEF BranchType
  <2>4. Unclosed(branches[i])
    BY <1>1, <2>1, <2>2, <2>3
  <2> QED BY <1>1, <2>1, <2>4 DEF Viewed, OnlyOpen
<1>4. ASSUME CurrentActive(Top), NEW i \in AroundIn(branches, File, Here)
      PROVE  branches[i].active
  <2>1. PICK d \in DOMAIN Top.condStack : i = Top.condStack[d].openBranchIndex
    BY <1>3, <1>4 DEF OpenBranches
  <2>2. Top.condStack[d].branchActive
    BY <1>1, <1>4, ActiveThroughout
  <2> QED BY <1>2, <2>1, <2>2
<1>5. ASSUME \A i \in AroundIn(branches, File, Here) : branches[i].active
      PROVE  CurrentActive(Top)
  <2> SUFFICES ASSUME Top.condStack # <<>>
               PROVE  Top.condStack[Len(Top.condStack)].branchActive
    BY DEF CurrentActive
  <2>1. Len(Top.condStack) \in DOMAIN Top.condStack
    BY <1>1
  <2> QED BY <1>2, <1>5, <2>1
<1> QED BY <1>4, <1>5


\* A line that leaves the conditionals and the branches as they are: it is
\* passed on, if it is text, when it is selected.
LEMMA ViewedPlain ==
  ASSUME Inv, Inv', Accounted, Recorded, Viewed, ~truncated, frames # <<>>,
         NEW line \in Lines, Reading(line), UNCHANGED <<files, frames, branches>>,
         IF IsText(line) /\ CurrentActive(Top)
         THEN \E t : t.file = File /\ t.line = Here /\ out' = out \cup {t}
         ELSE out' = out
  PROVE  Viewed'
<1>1. TypeOK /\ ReadsLine(line)
  BY LineRead DEF Inv, TypeInv
<1>2. /\ Top = frames[Len(frames)] /\ Top.file = File /\ Len(frames) \in DOMAIN frames
      /\ Here \in Nat /\ Here = Len(lines[File]) + 1 /\ Len(lines[File]) \in Nat
  BY <1>1, TopType DEF Top, File, Here
<1>3. Extends(branches, branches') /\ NoOverflow(Top)
  BY <1>2 DEF Extends, Viewed
<1>4. out \subseteq out' /\ \A t \in out' : t \in out \/ (t.file = File /\ t.line = Here)
  OBVIOUS
<1>5. ASSUME IsText(line)
      PROVE  Passes(out', File, Here)
               <=> \A i \in AroundIn(branches', File, Here) : branches'[i].active
  <2>1. ~Passes(out, File, Here)
    <3>1. ~(Here <= Len(lines[File]))
      BY <1>2
    <3> QED BY <3>1 DEF Passes, Viewed, Behind
  <2>2. Passes(out', File, Here) <=> CurrentActive(Top)
    BY <1>5, <2>1 DEF Passes
  <2> QED BY <2>2, AroundHere
<1> QED BY <1>1, <1>2, <1>3, <1>4, <1>5, ViewedStep

\* A line that changes the conditionals, and lets branches end or begin.
LEMMA ViewedTop ==
  ASSUME Inv, Inv', Accounted, Recorded, Viewed, ~truncated, frames # <<>>,
         NEW line \in Lines, Reading(line), ~IsText(line), UNCHANGED <<files, out>>,
         NEW cs \in Seq(CondFrameType), NEW e \in BOOLEAN, SetTop(cs, e),
         \A d \in DOMAIN cs : ~cs[d].overflow,
         Extends(branches, branches'),
         \A i \in DOMAIN branches' \ DOMAIN branches :
           /\ branches'[i].file = File /\ branches'[i].from = Here /\ branches'[i].to = Here
           /\ \E d \in DOMAIN cs : i = cs[d].openBranchIndex,
         \A i \in DOMAIN branches :
           \/ /\ branches'[i].to = branches[i].to
              /\ (\E d \in DOMAIN cs : i = cs[d].openBranchIndex)
                   <=> \E d \in DOMAIN Top.condStack : i = Top.condStack[d].openBranchIndex
           \/ /\ branches[i].file = File /\ branches'[i].to = Here
              /\ \E d \in DOMAIN Top.condStack : i = Top.condStack[d].openBranchIndex
              /\ ~\E d \in DOMAIN cs : i = cs[d].openBranchIndex
  PROVE  Viewed'
<1> DEFINE g == frames'[Len(frames)]
<1>1. TypeOK /\ ReadsLine(line)
  BY LineRead DEF Inv, TypeInv
<1>2. /\ Len(frames') = Len(frames) /\ DOMAIN frames' = DOMAIN frames
      /\ \A n \in DOMAIN frames : n # Len(frames) => frames'[n] = frames[n]
      /\ g.file = File /\ g.condStack = cs
  <2>1. g = Frame(Top.uri, File, cs, e) /\ Len(frames') = Len(frames)
        /\ frames' \in Seq(FrameType) /\ frames \in Seq(FrameType)
        /\ \A n \in DOMAIN frames : n # Len(frames) => frames'[n] = frames[n]
    BY <1>1, SetTopType DEF TypeOK
  <2>2. DOMAIN frames' = DOMAIN frames
    BY <2>1
  <2> QED BY <2>1, <2>2 DEF Frame
<1> HIDE DEF g
<1>3. NoOverflow(g)
  BY <1>2 DEF NoOverflow
<1>4. ASSUME NEW i
      PROVE  /\ i \in OpenBranches(g) <=> \E d \in DOMAIN cs : i = cs[d].openBranchIndex
             /\ i \in OpenBranches(Top)
                  <=> \E d \in DOMAIN Top.condStack : i = Top.condStack[d].openBranchIndex
  BY <1>2 DEF OpenBranches
<1>5. \A i \in DOMAIN branches :
        \/ branches'[i].to = branches[i].to
           /\ (i \in OpenBranches(g) <=> i \in OpenBranches(Top))
        \/ /\ branches[i].file = File /\ branches'[i].to = Here
           /\ i \in OpenBranches(Top) /\ i \notin OpenBranches(g)
  BY <1>4
<1>6. \A i \in DOMAIN branches' \ DOMAIN branches : i \in OpenBranches(g)
  BY <1>4
<1> QED BY <1>1, <1>2, <1>3, <1>5, <1>6, ViewedStep DEF g

\* What is known of the innermost conditional while no limit is exceeded.
LEMMA TopKnown ==
  ASSUME Inv, Recorded, Viewed, ~truncated, frames # <<>>
  PROVE  /\ TypeOK /\ branches \in Seq(BranchType) /\ DOMAIN files \subseteq DOMAIN files
         /\ Top.condStack \in Seq(CondFrameType) /\ Depth = Len(Top.condStack)
         /\ \A d \in DOMAIN Top.condStack : ~Top.condStack[d].overflow
         /\ Depth > 0 => /\ Depth \in DOMAIN Top.condStack /\ Cond = Top.condStack[Depth]
                         /\ branches[Cond.openBranchIndex].file = File
                         /\ \A d \in DOMAIN Top.condStack :
                              d # Depth => Top.condStack[d].openBranchIndex # Cond.openBranchIndex
<1>1. TypeOK /\ branches \in Seq(BranchType)
  BY DEF Inv, TypeInv, TypeOK
<1>2. Top.condStack \in Seq(CondFrameType) /\ Depth = Len(Top.condStack)
      /\ Len(frames) \in DOMAIN frames
  BY <1>1, StackTypes, TopType DEF Depth
<1>3. NoOverflow(Top) /\ Linked(branches, Top)
  BY <1>2 DEF Viewed, Recorded, Top
<1>4. ASSUME Depth > 0
      PROVE  /\ Depth \in DOMAIN Top.condStack /\ Cond = Top.condStack[Depth]
             /\ branches[Cond.openBranchIndex].file = File
             /\ \A d \in DOMAIN Top.condStack :
                  d # Depth => Top.condStack[d].openBranchIndex # Cond.openBranchIndex
  <2>1. Depth \in DOMAIN Top.condStack /\ Cond = Top.condStack[Depth]
    BY <1>2, <1>4 DEF Cond
  <2>2. \A d \in DOMAIN Top.condStack : Links(branches, File, d, Top.condStack[d])
    BY <1>3 DEF NoOverflow, Linked, File
  <2> QED BY <2>1, <2>2 DEF Links
<1> QED BY <1>1, <1>2, <1>3, <1>4 DEF NoOverflow

\* A new conditional: its branch begins behind the lines read so far.
LEMMA ViewedIf ==
  ASSUME Inv, Inv', Accounted, Recorded, Viewed, ~truncated, NEW line \in Lines, If(line)
  PROVE  Viewed'
<1> DEFINE p == CurrentActive(Top)
           a == p /\ Holds(line.cond)
           c == CondFrame(p, a, a, NextBranch, FALSE)
           cs == Append(Top.condStack, c)
<1>1. /\ Reading(line) /\ UNCHANGED <<files, out>> /\ SetTop(cs, FALSE) /\ line.kind = "if"
      /\ branches' = OpenBranch(branches, "if", Depth + 1, a, p) /\ frames # <<>>
  BY DEF If, output, Reading, Running
<1>2. ~IsText(line)
  BY <1>1 DEF IsText
<1>3. /\ TypeOK /\ branches \in Seq(BranchType)
      /\ Top.condStack \in Seq(CondFrameType) /\ Depth = Len(Top.condStack)
      /\ \A d \in DOMAIN Top.condStack : ~Top.condStack[d].overflow
      /\ NextBranch \in Nat /\ Depth + 1 \in Nat
  BY <1>1, TopKnown, BranchesType, TopType
<1>4. p \in BOOLEAN /\ a \in BOOLEAN
  BY DEF CurrentActive
<1> HIDE DEF a, p
<1>5. c \in CondFrameType /\ ~c.overflow /\ c.openBranchIndex = NextBranch
  BY <1>3, <1>4 DEF CondFrame, CondFrameType
<1>6. AddsBranch(branches, branches', "if", Depth + 1, a, p)
  BY <1>1, <1>3, <1>4, OpenedBranch
<1> HIDE DEF c
<1>7. /\ cs \in Seq(CondFrameType) /\ DOMAIN cs = DOMAIN Top.condStack \cup {Depth + 1}
      /\ Depth + 1 \notin DOMAIN Top.condStack
      /\ cs[Depth + 1] = c /\ \A d \in DOMAIN Top.condStack : cs[d] = Top.condStack[d]
  BY <1>3, <1>5
<1> HIDE DEF cs
<1>8. \A d \in DOMAIN cs : ~cs[d].overflow
  BY <1>3, <1>5, <1>7
<1>9. /\ Extends(branches, branches')
      /\ \A i \in DOMAIN branches' \ DOMAIN branches :
           /\ branches'[i].file = File /\ branches'[i].from = Here /\ branches'[i].to = Here
           /\ i = NextBranch
      /\ \A i \in DOMAIN branches : branches'[i].to = branches[i].to /\ i # NextBranch
  BY <1>6 DEF AddsBranch
<1>10. ASSUME NEW i \in DOMAIN branches
       PROVE  (\E d \in DOMAIN cs : i = cs[d].openBranchIndex)
                <=> \E d \in DOMAIN Top.condStack : i = Top.condStack[d].openBranchIndex
  BY <1>5, <1>7, <1>9
<1>11. \E d \in DOMAIN cs : NextBranch = cs[d].openBranchIndex
  BY <1>5, <1>7
<1>12. \A i \in DOMAIN branches' \ DOMAIN branches :
         /\ branches'[i].file = File /\ branches'[i].from = Here /\ branches'[i].to = Here
         /\ \E d \in DOMAIN cs : i = cs[d].openBranchIndex
  BY <1>9, <1>11
<1> QED BY <1>1, <1>2, <1>7, <1>8, <1>9, <1>10, <1>12, ViewedTop

\* Another branch: the one before ends behind the lines read so far.
LEMMA ViewedAlternative ==
  ASSUME Inv, Inv', Accounted, Recorded, Viewed, ~truncated, NEW line \in Lines,
         Reading(line), ~IsText(line), UNCHANGED <<files, out>>, Depth > 0,
         NEW k \in {"elseif", "else"}, NEW a \in BOOLEAN, NEW v \in BOOLEAN,
         NEW t \in BOOLEAN,
         branches' = OpenBranch(CloseBranch, k, Depth, a, v),
         SetTop(Replace(CondFrame(Cond.parentActive, a, t, NextBranch, FALSE)), FALSE)
  PROVE  Viewed'
<1> DEFINE c == CondFrame(Cond.parentActive, a, t, NextBranch, FALSE)
           cs == Replace(c)
           o == Cond.openBranchIndex
<1>1. frames # <<>>
  BY DEF Reading, Running
<1>2. /\ TypeOK /\ branches \in Seq(BranchType)
      /\ Top.condStack \in Seq(CondFrameType) /\ Depth = Len(Top.condStack)
      /\ \A d \in DOMAIN Top.condStack : ~Top.condStack[d].overflow
      /\ Depth \in DOMAIN Top.condStack /\ Cond = Top.condStack[Depth]
      /\ branches[o].file = File
      /\ \A d \in DOMAIN Top.condStack : d # Depth => Top.condStack[d].openBranchIndex # o
      /\ NextBranch \in Nat /\ Depth \in Nat
  BY <1>1, TopKnown, BranchesType, TopType
<1>3. Cond.parentActive \in BOOLEAN
  <2>1. Cond \in CondFrameType
    BY <1>2
  <2> QED BY <2>1 DEF CondFrameType
<1>4. c \in CondFrameType /\ ~c.overflow /\ c.openBranchIndex = NextBranch
  BY <1>2, <1>3 DEF CondFrame, CondFrameType
<1>5. /\ CloseBranch \in Seq(BranchType) /\ DOMAIN CloseBranch = DOMAIN branches
      /\ Len(CloseBranch) = Len(branches) /\ Extends(branches, CloseBranch)
      /\ \A i \in DOMAIN branches :
           CloseBranch[i].to = IF i = o THEN Here ELSE branches[i].to
  BY <1>1, <1>2, Closed
<1>6. AddsBranch(CloseBranch, branches', k, Depth, a, v)
  BY <1>1, <1>2, <1>5, OpenedBranch
<1> HIDE DEF c
<1>7. /\ cs \in Seq(CondFrameType) /\ DOMAIN cs = DOMAIN Top.condStack
      /\ cs[Depth] = c
      /\ \A d \in DOMAIN Top.condStack : d # Depth => cs[d] = Top.condStack[d]
  BY <1>2, <1>4, SeqExcept DEF Replace
<1>8. SetTop(cs, FALSE)
  BY DEF c
<1> HIDE DEF cs
<1>9. \A d \in DOMAIN cs : ~cs[d].overflow
  BY <1>2, <1>4, <1>7
<1>10. /\ Extends(branches, branches')
       /\ \A i \in DOMAIN branches' \ DOMAIN branches :
            /\ branches'[i].file = File /\ branches'[i].from = Here /\ branches'[i].to = Here
            /\ i = NextBranch
       /\ \A i \in DOMAIN branches :
            /\ branches'[i].to = IF i = o THEN Here ELSE branches[i].to
            /\ i # NextBranch
  BY <1>5, <1>6 DEF AddsBranch, Extends
<1> HIDE DEF o
<1>11. \E d \in DOMAIN Top.condStack : o = Top.condStack[d].openBranchIndex
  BY <1>2 DEF o
<1>12. ASSUME NEW i \in DOMAIN branches, i # o
       PROVE  (\E d \in DOMAIN cs : i = cs[d].openBranchIndex)
                <=> \E d \in DOMAIN Top.condStack : i = Top.condStack[d].openBranchIndex
  BY <1>2, <1>4, <1>7, <1>10, <1>12 DEF o
<1>13. ASSUME NEW i \in DOMAIN branches
       PROVE  \/ /\ branches'[i].to = branches[i].to
                 /\ (\E d \in DOMAIN cs : i = cs[d].openBranchIndex)
                      <=> \E d \in DOMAIN Top.condStack : i = Top.condStack[d].openBranchIndex
              \/ /\ branches[i].file = File /\ branches'[i].to = Here
                 /\ \E d \in DOMAIN Top.condStack : i = Top.condStack[d].openBranchIndex
                 /\ ~\E d \in DOMAIN cs : i = cs[d].openBranchIndex
  <2>1. CASE i # o
    BY <1>10, <1>12, <2>1
  <2>2. CASE i = o
    <3>1. ~\E d \in DOMAIN cs : o = cs[d].openBranchIndex
      BY <1>2, <1>4, <1>7, <1>10, <2>2 DEF o
    <3> QED BY <1>2, <1>10, <1>11, <2>2, <3>1
  <2> QED BY <2>1, <2>2
<1>14. \E d \in DOMAIN cs : NextBranch = cs[d].openBranchIndex
  BY <1>2, <1>4, <1>7
<1>15. \A i \in DOMAIN branches' \ DOMAIN branches :
         /\ branches'[i].file = File /\ branches'[i].from = Here /\ branches'[i].to = Here
         /\ \E d \in DOMAIN cs : i = cs[d].openBranchIndex
  BY <1>10, <1>14
<1> QED BY <1>1, <1>7, <1>8, <1>9, <1>10, <1>13, <1>15, ViewedTop

\* The end of a conditional, and #endinput.
LEMMA ViewedEnd ==
  ASSUME Inv, Inv', Accounted, Recorded, Viewed, ~truncated, NEW line \in Lines,
         Endif(line) \/ Endinput(line)
  PROVE  Viewed'
<1> DEFINE o == Cond.openBranchIndex
<1>1. Reading(line) /\ UNCHANGED <<files, out>> /\ frames # <<>> /\ ~IsText(line)
  BY DEF Endif, Endinput, IsText, Reading, Running, output
<1>2. /\ TypeOK /\ branches \in Seq(BranchType)
      /\ Top.condStack \in Seq(CondFrameType) /\ Depth = Len(Top.condStack)
      /\ \A d \in DOMAIN Top.condStack : ~Top.condStack[d].overflow
      /\ Depth > 0 => /\ Depth \in DOMAIN Top.condStack /\ Cond = Top.condStack[Depth]
                      /\ branches[o].file = File
                      /\ \A d \in DOMAIN Top.condStack :
                           d # Depth => Top.condStack[d].openBranchIndex # o
  BY <1>1, TopKnown
<1>3. CASE Endif(line)
  <2> DEFINE cs == SubSeq(Top.condStack, 1, Depth - 1)
  <2>1. SetTop(cs, FALSE) /\ Depth > 0
    BY <1>3 DEF Endif
  <2>2. branches' = CloseBranch
    BY <1>2, <1>3, <2>1 DEF Endif
  <2>3. cs \in Seq(CondFrameType)
    BY <1>1, <1>2, <2>1, StackTypes
  <2>4. /\ DOMAIN cs = DOMAIN Top.condStack \ {Depth}
        /\ \A d \in DOMAIN cs : cs[d] = Top.condStack[d]
    BY <1>2, <2>1
  <2> HIDE DEF cs
  <2>5. /\ DOMAIN branches' = DOMAIN branches /\ Extends(branches, branches')
        /\ \A i \in DOMAIN branches :
             branches'[i].to = IF i = o THEN Here ELSE branches[i].to
    BY <1>1, <1>2, <2>1, <2>2, Closed
  <2>6. ASSUME NEW i \in DOMAIN branches
        PROVE  \/ /\ branches'[i].to = branches[i].to
                  /\ (\E d \in DOMAIN cs : i = cs[d].openBranchIndex)
                       <=> \E d \in DOMAIN Top.condStack : i = Top.condStack[d].openBranchIndex
               \/ /\ branches[i].file = File /\ branches'[i].to = Here
                  /\ \E d \in DOMAIN Top.condStack : i = Top.condStack[d].openBranchIndex
                  /\ ~\E d \in DOMAIN cs : i = cs[d].openBranchIndex
    <3>1. CASE i = o
      BY <1>2, <2>1, <2>4, <2>5, <3>1
    <3>2. CASE i # o
      BY <1>2, <2>1, <2>4, <2>5, <3>2
    <3> QED BY <3>1, <3>2
  <2> QED BY <1>1, <1>2, <2>1, <2>3, <2>4, <2>5, <2>6, ViewedTop
<1>4. CASE Endinput(line)
  <2>1. SetTop(Top.condStack, CurrentActive(Top)) /\ branches' = branches
        /\ CurrentActive(Top) \in BOOLEAN
    BY <1>4 DEF Endinput, CurrentActive, record
  <2>2. Extends(branches, branches')
    BY <2>1 DEF Extends
  <2> QED BY <1>1, <1>2, <2>1, <2>2, ViewedTop
<1> QED BY <1>3, <1>4


\* A file is entered: none of its lines has been read yet.
LEMMA ViewedEnter ==
  ASSUME Inv, Inv', Accounted, Recorded, Viewed, ~truncated, NEW line \in Lines, Enter(line)
  PROVE  Viewed'
<1> DEFINE N == Len(frames)
<1>1. /\ frames # <<>> /\ frames' \in Seq(FrameType) /\ Len(frames') = N + 1 /\ N \in Nat
      /\ \A n \in DOMAIN frames : frames'[n] = frames[n] /\ n # Len(frames')
      /\ frames'[N + 1].file = Len(files) + 1 /\ frames'[N + 1].condStack = <<>>
      /\ UNCHANGED <<branches, out>>
      /\ lines' = Append([lines EXCEPT ![File] = Append(lines[File], line)], <<>>)
  BY Entered DEF record, output
<1>2. /\ TypeOK /\ TypeOK' /\ frames \in Seq(FrameType) /\ lines \in Seq(Seq(Lines))
      /\ Len(lines) = Len(files) /\ files \in Seq(Uris)
  BY DEF Inv, TypeInv, TypeOK
<1>3. ReadsLine(line) /\ ~IsText(line)
  <2>1. line.kind = "include"
    BY DEF Enter, OpenFile
  <2> QED BY <1>1, <1>2, <2>1, LineRead DEF IsText
<1>4. DOMAIN files \subseteq DOMAIN files'
  <2>1. files' \in Seq(Uris) /\ Len(files') = Len(files) + 1
    BY <1>2, Entered DEF TypeOK
  <2> QED BY <1>2, <2>1
<1>5. /\ DOMAIN frames' = DOMAIN frames \cup {N + 1} /\ N + 1 \notin DOMAIN frames
      /\ N \in DOMAIN frames /\ frames'[N] = Top
  BY <1>1, <1>2 DEF Top
<1>6. lines'[Len(files) + 1] = <<>>
  <2> DEFINE m == [lines EXCEPT ![File] = Append(lines[File], line)]
  <2>1. m \in Seq(Seq(Lines)) /\ Len(m) = Len(lines)
    <3>1. File \in DOMAIN lines /\ Append(lines[File], line) \in Seq(Lines)
      BY <1>1, <1>2, TopType
    <3> QED BY <1>2, <3>1, SeqExcept
  <2>2. lines' = Append(m, <<>>) /\ <<>> \in Seq(Lines)
    BY <1>1
  <2> HIDE DEF m
  <2> QED BY <1>2, <2>1, <2>2
<1>7. Top.file = File /\ NoOverflow(Top)
  BY <1>5 DEF File, Viewed, Top
<1>8. Extends(branches, branches')
  BY <1>1 DEF Extends
<1>9. /\ \A n \in DOMAIN frames' \ DOMAIN frames :
           frames'[n].condStack = <<>> /\ frames'[n].file \notin DOMAIN files
      /\ \A k \in DOMAIN files' \ DOMAIN files : lines'[k] = <<>>
  <2>1. files' \in Seq(Uris) /\ Len(files') = Len(files) + 1
    BY <1>2, Entered DEF TypeOK
  <2>2. DOMAIN files' \ DOMAIN files = {Len(files) + 1} /\ Len(files) + 1 \notin DOMAIN files
    BY <1>2, <2>1
  <2> QED BY <1>1, <1>5, <1>6, <2>2
<1>10. \A i \in DOMAIN branches' : i \in DOMAIN branches /\ branches'[i].to = branches[i].to
  BY <1>1
<1> QED BY <1>1, <1>3, <1>4, <1>5, <1>7, <1>8, <1>9, <1>10, ViewedStep

\* Steps that read nothing, and leave frames at most.
LEMMA ViewedLess ==
  ASSUME Viewed, UNCHANGED <<lines, files, branches, out>>, truncated' = truncated,
         \A n \in DOMAIN frames' : n \in DOMAIN frames /\ frames'[n] = frames[n]
  PROVE  Viewed'
<1>1. ASSUME ~truncated
      PROVE  /\ Behind'
             /\ \A n \in DOMAIN frames' : NoOverflow(frames'[n]) /\ OnlyOpen(branches', frames'[n])
             /\ \A k \in DOMAIN files' : Tells(branches', k, out', lines'[k])
  BY <1>1 DEF Viewed, Behind
<1> QED BY <1>1 DEF Viewed

\* Every step keeps the view that the branches give.
LEMMA ViewedNext == Inv /\ Accounted /\ Recorded /\ Viewed /\ [Next]_vars => Viewed'
<1> SUFFICES ASSUME Inv, Accounted, Recorded, Viewed, [Next]_vars, ~truncated' PROVE Viewed'
  BY DEF Viewed
<1> USE DEF record, output
<1>1. Inv' /\ frames \in Seq(FrameType)
  BY NextInv DEF Inv, TypeInv, TypeOK
<1>2. ASSUME NEW line \in Lines, Text(line) PROVE Viewed'
  <2>1. Reading(line) /\ UNCHANGED <<files, frames, branches>> /\ frames # <<>> /\ IsText(line)
    BY <1>2 DEF Text, Reading, Running, IsText
  <2>2. CASE CurrentActive(Top)
    <3>1. PICK as : AppendOut(as)
      BY <1>2, <2>2 DEF Text
    <3>2. ~truncated /\ out' = out \cup {[file |-> File, line |-> Here, as |-> as]}
      <4>1. ~(truncated /\ UNCHANGED <<output, diags>>)
        OBVIOUS
      <4> QED BY <3>1, <4>1, Zenon DEF AppendOut
    <3>3. \E t : t.file = File /\ t.line = Here /\ out' = out \cup {t}
      <4> DEFINE t == [file |-> File, line |-> Here, as |-> as]
      <4>1. t.file = File /\ t.line = Here /\ out' = out \cup {t}
        BY <3>2
      <4> HIDE DEF t
      <4> QED BY <4>1
    <3> QED BY <1>1, <2>1, <2>2, <3>2, <3>3, ViewedPlain
  <2>3. CASE ~CurrentActive(Top)
    <3>1. out' = out /\ truncated' = truncated
      BY <1>2, <2>3 DEF Text
    <3> QED BY <1>1, <2>1, <2>3, <3>1, ViewedPlain
  <2> QED BY <2>2, <2>3
<1>3. ASSUME NEW line \in Lines,
             \/ Define(line) \/ Undef(line) \/ Message(line) \/ Unmatched(line)
             \/ IncludeInactive(line) \/ IncludeNotFound(line) \/ IncludeCycle(line)
      PROVE  Viewed'
  <2>1. /\ Reading(line) /\ UNCHANGED <<files, frames, branches, out, truncated>>
        /\ line.kind \notin {"text", "use"}
    BY <1>3 DEF Define, Undef, Message, Unmatched, IncludeInactive, IncludeNotFound,
       IncludeCycle
  <2>2. frames # <<>> /\ ~IsText(line)
    BY <2>1 DEF Reading, Running, IsText
  <2> QED BY <1>1, <2>1, <2>2, ViewedPlain
<1>4. ASSUME NEW line \in Lines,
             ExpansionOverflow(line) \/ IfOverflow(line) \/ IncludeTooDeep(line)
      PROVE  FALSE
  BY <1>4 DEF ExpansionOverflow, IfOverflow, IncludeTooDeep, IncludeRefused, DepthLimit
<1>5. ASSUME NEW line \in Lines, AlternativeOverflow(line) PROVE FALSE
  <2>1. ~truncated /\ frames # <<>> /\ Depth > 0 /\ Cond.overflow
    BY <1>5 DEF AlternativeOverflow, Reading, Running
  <2> QED BY <2>1, TopKnown
<1>6. ASSUME NEW line \in Lines, If(line) PROVE Viewed'
  <2>1. ~truncated
    BY <1>6 DEF If
  <2> QED BY <1>1, <1>6, <2>1, ViewedIf
<1>7. ASSUME NEW line \in Lines, ElseifTaken(line) \/ Elseif(line) \/ Else(line)
      PROVE  Viewed'
  <2>1. /\ ~truncated /\ Reading(line) /\ UNCHANGED <<files, out>> /\ Depth > 0
        /\ line.kind \in {"elseif", "else"} /\ frames # <<>>
    <3>1. frames # <<>> /\ Reading(line) /\ Depth > 0 /\ line.kind \in {"elseif", "else"}
      BY <1>7 DEF ElseifTaken, Elseif, Else, Reading, Running
    <3>2. UNCHANGED <<files, output>>
      BY <1>7 DEF ElseifTaken, Elseif, Else
    <3> QED BY <3>1, <3>2
  <2>2. ~IsText(line)
    BY <2>1 DEF IsText
  <2>3. Cond.parentActive \in BOOLEAN /\ Cond.taken \in BOOLEAN
    <3>1. Cond \in CondFrameType
      BY <2>1, TopType DEF Inv, TypeInv
    <3> QED BY <3>1 DEF CondFrameType
  <2>4. CASE ElseifTaken(line)
    <3>1. /\ branches' = OpenBranch(CloseBranch, "elseif", Depth, FALSE, FALSE)
          /\ SetTop(Replace(CondFrame(Cond.parentActive, FALSE, TRUE, NextBranch, FALSE)), FALSE)
      BY <2>4 DEF ElseifTaken
    <3> QED BY <1>1, <2>1, <2>2, <3>1, ViewedAlternative
  <2>5. CASE Elseif(line)
    <3> DEFINE a == Cond.parentActive /\ Holds(line.cond)
    <3>1. /\ a \in BOOLEAN
          /\ branches' = OpenBranch(CloseBranch, "elseif", Depth, a, Cond.parentActive)
          /\ SetTop(Replace(CondFrame(Cond.parentActive, a, a, NextBranch, FALSE)), FALSE)
      BY <2>5 DEF Elseif
    <3> HIDE DEF a
    <3> QED BY <1>1, <2>1, <2>2, <2>3, <3>1, ViewedAlternative
  <2>6. CASE Else(line)
    <3> DEFINE a == ElseSelected(Cond)
               t == Cond.taken \/ a
    <3>1. /\ branches' = OpenBranch(CloseBranch, "else", Depth, a, Cond.parentActive)
          /\ SetTop(Replace(CondFrame(Cond.parentActive, a, t, NextBranch, FALSE)), FALSE)
      BY <2>6 DEF Else
    <3>2. a \in BOOLEAN /\ t \in BOOLEAN
      BY <2>3 DEF ElseSelected
    <3> HIDE DEF a, t
    <3> QED BY <1>1, <2>1, <2>2, <2>3, <3>1, <3>2, ViewedAlternative
  <2> QED BY <1>7, <2>4, <2>5, <2>6
<1>8. ASSUME NEW line \in Lines, Endif(line) \/ Endinput(line) PROVE Viewed'
  <2>1. ~truncated
    BY <1>8 DEF Endif, Endinput
  <2> QED BY <1>1, <1>8, <2>1, ViewedEnd
<1>9. ASSUME NEW line \in Lines, Enter(line) PROVE Viewed'
  <2>1. ~truncated
    BY <1>9 DEF Enter, OpenFile
  <2> QED BY <1>1, <1>9, <2>1, ViewedEnter
<1>10. CASE LeaveRoot \/ Cancel \/ UNCHANGED vars
  <2>1. /\ UNCHANGED <<lines, files, branches, out>> /\ truncated' = truncated
        /\ frames' = frames \/ frames' = <<>>
    BY <1>10 DEF LeaveRoot, Cancel, vars
  <2> QED BY <2>1, ViewedLess
<1>11. CASE Leave
  <2>1. /\ UNCHANGED <<lines, files, branches, out>> /\ truncated' = truncated
        /\ frames' = SubSeq(frames, 1, Len(frames) - 1) /\ Len(frames) > 1
    BY <1>11 DEF Leave, Return
  <2>2. \A n \in DOMAIN frames' : n \in DOMAIN frames /\ frames'[n] = frames[n]
    BY <1>1, <2>1
  <2> QED BY <2>1, <2>2, ViewedLess
<1> QED BY <1>2, <1>3, <1>4, <1>5, <1>6, <1>7, <1>8, <1>9, <1>10, <1>11 DEF Next, Handle

\* There is nothing to tell at the start.
LEMMA ViewedInit == Init => Viewed
<1> SUFFICES ASSUME Init PROVE Viewed
  OBVIOUS
<1>1. /\ branches = <<>> /\ out = {} /\ lines = <<<<>>>>
      /\ frames = <<Frame(Root, 1, <<>>, FALSE)>>
  BY DEF Init
<1>2. /\ DOMAIN frames = {1} /\ frames[1].file = 1 /\ frames[1].condStack = <<>>
      /\ lines[1] = <<>>
  BY <1>1 DEF Frame
<1>3. Behind
  BY <1>1 DEF Behind
<1>4. NoOverflow(frames[1]) /\ OnlyOpen(branches, frames[1])
  <2>1. NoOverflow(frames[1])
    BY <1>2 DEF NoOverflow
  <2>2. DOMAIN branches = {}
    BY <1>1
  <2> QED BY <2>1, <2>2, Zenon DEF OnlyOpen
<1>5. \A k \in DOMAIN files : Tells(branches, k, out, lines[k])
  <2>1. files = <<Root>>
    BY DEF Init
  <2>2. DOMAIN files = {1}
    BY <2>1
  <2> QED BY <1>2, <2>2 DEF Tells
<1> QED BY <1>2, <1>3, <1>4, <1>5 DEF Viewed

\* Within the limits, a line of a file was passed on if and only if all
\* branches around it, as recorded, are active: while the file is read, and
\* in the result, where a branch without a body reaches to the end.
THEOREM BranchesTellView == Spec => []BranchesTellTheView
<1>1. Viewed => BranchesTellTheView
  <2> SUFFICES ASSUME Viewed, ~truncated, NEW k \in DOMAIN files, NEW l \in DOMAIN lines[k],
                      lines[k][l].kind \in {"text", "use"}
               PROVE  PassedOn(k, l) <=> \A i \in Around(k, l) : branches[i].active
    BY DEF BranchesTellTheView
  <2>1. Tells(branches, k, out, lines[k])
    BY DEF Viewed
  <2>2. AroundIn(branches, k, l) = Around(k, l)
    BY DEF AroundIn, Around
  <2> QED BY <2>1, <2>2 DEF Tells, IsText, Passes, PassedOn
<1> QED BY <1>1, ViewedInit, ViewedNext, RecordedInit, RecordedNext, AccountedInit,
           AccountedNext, Invariance, PTL DEF Spec
----------------------------------------------------------------------------
(* Reuse: the offset arithmetic of reuse.go, for texts of any length.      *)

\* What a concatenation has at each place.
LEMMA Joined ==
  ASSUME NEW S, NEW x \in Seq(S), NEW y \in Seq(S)
  PROVE  /\ Len(x \o y) = Len(x) + Len(y)
         /\ \A i \in 1..Len(x) + Len(y) :
              (x \o y)[i] = IF i <= Len(x) THEN x[i] ELSE y[i - Len(x)]
OBVIOUS

\* The characters of a text with a part replaced: those before the part,
\* those inserted, and those behind it, moved.
LEMMA SplicedCharacters ==
  ASSUME NEW t \in Seq(Chars), NEW inserted \in Seq(Chars),
         NEW s \in 0..Len(t), NEW e \in 0..Len(t), s <= e
  PROVE  LET src == Spliced(t, ByteRange(s, e), inserted) IN
         /\ Len(src) = Len(t) - (e - s) + Len(inserted)
         /\ \A o \in 0..s - 1 : At(src, o) = At(t, o)
         /\ \A o \in e..Len(t) - 1 : At(src, o + Len(inserted) - (e - s)) = At(t, o)
<1> DEFINE head == SubSeq(t, 1, s)
           rest == SubSeq(t, e + 1, Len(t))
           front == head \o inserted
           src == front \o rest
<1>1. /\ head \in Seq(Chars) /\ Len(head) = s /\ \A n \in 1..s : head[n] = t[n]
  OBVIOUS
<1>2. /\ rest \in Seq(Chars) /\ Len(rest) = Len(t) - e
      /\ \A n \in 1..Len(t) - e : rest[n] = t[n + e]
  OBVIOUS
<1>3. /\ front \in Seq(Chars) /\ Len(front) = s + Len(inserted)
      /\ \A n \in 1..s : front[n] = head[n]
  BY <1>1
<1> HIDE DEF head, rest, front
<1>4. /\ Len(src) = Len(front) + Len(rest)
      /\ \A n \in 1..Len(front) : src[n] = front[n]
      /\ \A n \in 1..Len(rest) : src[Len(front) + n] = rest[n]
  <2>1. /\ Len(src) = Len(front) + Len(rest)
        /\ \A i \in 1..Len(front) + Len(rest) :
             src[i] = IF i <= Len(front) THEN front[i] ELSE rest[i - Len(front)]
    BY <1>2, <1>3, Joined
  <2>2. Len(front) \in Nat /\ Len(rest) \in Nat
    BY <1>2, <1>3
  <2> HIDE DEF src
  <2>3. ASSUME NEW n \in 1..Len(front)
        PROVE  src[n] = front[n]
    BY <2>1, <2>2
  <2>4. ASSUME NEW n \in 1..Len(rest)
        PROVE  src[Len(front) + n] = rest[n]
    <3>1. /\ Len(front) + n \in 1..Len(front) + Len(rest) /\ ~(Len(front) + n <= Len(front))
          /\ Len(front) + n - Len(front) = n
      BY <2>2
    <3> QED BY <2>1, <3>1
  <2> QED BY <2>1, <2>3, <2>4
<1>5. Spliced(t, ByteRange(s, e), inserted) = src
  BY DEF Spliced, ByteRange, head, rest, front
<1> HIDE DEF src
<1>6. Len(src) = Len(t) - (e - s) + Len(inserted)
  BY <1>2, <1>3, <1>4
<1>7. ASSUME NEW o \in 0..s - 1
      PROVE  At(src, o) = At(t, o)
  BY <1>1, <1>3, <1>4 DEF At
<1>8. ASSUME NEW o \in e..Len(t) - 1
      PROVE  At(src, o + Len(inserted) - (e - s)) = At(t, o)
  <2>1. /\ o + 1 - e \in 1..Len(rest) /\ rest[o + 1 - e] = t[o + 1]
    BY <1>2
  <2>2. Len(front) + (o + 1 - e) = o + Len(inserted) - (e - s) + 1
    BY <1>3
  <2> QED BY <1>4, <2>1, <2>2 DEF At
<1> QED BY <1>5, <1>6, <1>7, <1>8

\* shiftOffset never swaps two offsets, so a shifted range is a range.
THEOREM ShiftKeepsOrder ==
  ASSUME NEW s \in Nat, NEW e \in Nat, s <= e, NEW a \in Nat, s <= a,
         NEW o \in Nat, NEW p \in Nat, o <= p
  PROVE  /\ ShiftOffset(o, Edit(s, e, a)) \in Nat
         /\ ShiftOffset(o, Edit(s, e, a)) <= ShiftOffset(p, Edit(s, e, a))
BY DEF ShiftOffset, Edit, ByteRange

\* A recorded range that neither overlaps nor touches the edit (the distance
\* that touchesMacro asks for) is moved to the same text.
THEOREM UntouchedRangesKeepText ==
  ASSUME NEW t \in Seq(Chars), NEW inserted \in Seq(Chars),
         NEW s \in 0..Len(t), NEW e \in 0..Len(t), s <= e,
         NEW from \in 0..Len(t), NEW to \in 0..Len(t), from <= to,
         to < s \/ from > e
  PROVE  LET edit == Edit(s, e, s + Len(inserted))
             src == Spliced(t, ByteRange(s, e), inserted)
             moved == ShiftRange(ByteRange(from, to), edit)
         IN /\ moved.end - moved.start = to - from
            /\ moved.end <= Len(src)
            /\ \A n \in 0..to - from - 1 : At(src, moved.start + n) = At(t, from + n)
<1> DEFINE edit == Edit(s, e, s + Len(inserted))
           src == Spliced(t, ByteRange(s, e), inserted)
           moved == ShiftRange(ByteRange(from, to), edit)
<1> SUFFICES /\ moved.end - moved.start = to - from
             /\ moved.end <= Len(src)
             /\ \A n \in 0..to - from - 1 : At(src, moved.start + n) = At(t, from + n)
  OBVIOUS
<1>1. /\ Len(src) = Len(t) - (e - s) + Len(inserted)
      /\ \A o \in 0..s - 1 : At(src, o) = At(t, o)
      /\ \A o \in e..Len(t) - 1 : At(src, o + Len(inserted) - (e - s)) = At(t, o)
  BY SplicedCharacters
<1>2. Len(inserted) \in Nat /\ Len(t) \in Nat
  OBVIOUS
<1>3. CASE to < s
  <2>1. moved.start = from /\ moved.end = to
    BY <1>3, <1>2 DEF ShiftRange, ShiftOffset, Edit, ByteRange
  <2> HIDE DEF moved, src
  <2> QED BY <1>1, <1>2, <1>3, <2>1
<1>4. CASE from > e
  <2>1. /\ moved.start = from + Len(inserted) - (e - s)
        /\ moved.end = to + Len(inserted) - (e - s)
    BY <1>4, <1>2 DEF ShiftRange, ShiftOffset, Edit, ByteRange
  <2> HIDE DEF moved, src
  <2>2. ASSUME NEW n \in 0..to - from - 1
        PROVE  At(src, moved.start + n) = At(t, from + n)
    <3>1. from + n \in e..Len(t) - 1
      BY <1>2, <1>4
    <3>2. moved.start + n = (from + n) + Len(inserted) - (e - s)
      BY <1>2, <2>1
    <3> QED BY <1>1, <3>1, <3>2
  <2> QED BY <1>1, <1>2, <1>4, <2>1, <2>2
<1> QED BY <1>3, <1>4

----------------------------------------------------------------------------
(* Reuse is clean: two texts that agree before an edit and behind it, at    *)
(* neither of which the edit touches a directive, have the same record but  *)
(* for the offsets.  Every lemma holds with the texts swapped, which shows  *)
(* that nothing is lost and nothing comes up.                               *)

Earlier == {ss \in Nat \X Nat : ss[1] < ss[2]}

\* Least and Greatest find what they should.
LEMMA LeastIs ==
  ASSUME NEW S \in SUBSET Nat, S # {}
  PROVE  Least(S) \in S /\ \A m \in S : Least(S) <= m
<1>1. IsWellFoundedOn(Earlier, Nat)
  BY NatLessThanWellFounded DEF OpToRel, Earlier
<1>2. PICK n \in S : \A m \in S : <<m, n>> \notin Earlier
  BY <1>1, WFMin, Zenon
<1>3. ASSUME NEW m \in S PROVE n <= m
  <2>1. ~(m < n)
    BY <1>2 DEF Earlier
  <2> QED BY <2>1
<1> QED BY <1>2, <1>3 DEF Least

\* The same of Greatest, where there is a bound.
LEMMA GreatestIs ==
  ASSUME NEW n \in Nat, NEW S \in SUBSET (0..n), S # {}
  PROVE  Greatest(S) \in S /\ \A m \in S : m <= Greatest(S)
<1> DEFINE T == {n - m : m \in S}
<1>1. T \in SUBSET Nat /\ T # {}
  <2>1. PICK m \in S : TRUE
    OBVIOUS
  <2>2. n - m \in T
    OBVIOUS
  <2>3. \A m_1 \in S : n - m_1 \in Nat
    OBVIOUS
  <2> QED BY <2>2, <2>3
<1>2. PICK l \in T : \A m \in T : l <= m
  BY <1>1, LeastIs
<1>3. PICK g \in S : l = n - g
  BY <1>2
<1>4. ASSUME NEW m \in S PROVE m <= g
  <2>1. l <= n - m
    BY <1>2
  <2> QED BY <1>3, <2>1
<1> QED BY <1>4 DEF Greatest

Plain(t) == t \in Seq(Chars)

\* What a character is, by its kind.
LEMMA CharacterIs ==
  ASSUME NEW t, Plain(t), NEW o \in Nat, o < Len(t)
  PROVE  /\ \/ At(t, o) \in Letters \/ At(t, o) \in Blanks
            \/ At(t, o) = "#" \/ At(t, o) = "newline" \/ At(t, o) = "continued"
         /\ At(t, o) \in Letters => At(t, o) \notin Blanks
         /\ At(t, o) \in Letters \cup Blanks =>
              At(t, o) # "#" /\ At(t, o) # "newline" /\ At(t, o) # "continued"
         /\ IsNewline(t, o) <=> EndsLine(t, o) \/ At(t, o) = "continued"
<1>1. At(t, o) \in Chars
  BY DEF Plain, At
<1>2. \A c \in Letters \cup Blanks : c # "#" /\ c # "newline" /\ c # "continued"
  BY CharsAssumption
<1> QED BY <1>1, <1>2, CharsAssumption DEF Chars, IsNewline, EndsLine

\* A word is as long as possible.
OnlyLetters(t, p, q) == \A o \in p..q - 1 : At(t, o) \in Letters
IsWord(t, p, q) ==
  /\ p \in Nat /\ q \in Nat /\ p < q /\ q <= Len(t)
  /\ OnlyLetters(t, p, q)
  /\ p > 0 => At(t, p - 1) \notin Letters
  /\ q < Len(t) => At(t, q) \notin Letters
IsHash(t, p, q) == p \in Nat /\ p < Len(t) /\ q = p + 1 /\ At(t, p) = "#"

\* The words are the longest runs of letters: a word is one ...
LEMMA WordIs ==
  ASSUME NEW t \in Seq(Chars), NEW k \in Words(t)
  PROVE  k = ByteRange(k.start, k.end) /\ IsWord(t, k.start, k.end)
<1> DEFINE Letter(o) == o \in 0..Len(t) - 1 /\ At(t, o) \in Letters
           Ends(s) == {e \in s + 1..Len(t) : ~Letter(e)}
<1>1. PICK s \in 0..Len(t) - 1 : Letter(s) /\ ~Letter(s - 1) /\ k = ByteRange(s, Least(Ends(s)))
  BY DEF Words
<1>2. Len(t) \in Nat
  OBVIOUS
<1>3. Ends(s) \in SUBSET Nat /\ Len(t) \in Ends(s)
  BY <1>1, <1>2
<1>4. Least(Ends(s)) \in Ends(s) /\ \A m \in Ends(s) : Least(Ends(s)) <= m
  BY <1>3, LeastIs
<1> DEFINE e == Least(Ends(s))
<1> HIDE DEF e
<1>5. e \in s + 1..Len(t) /\ ~Letter(e)
  BY <1>4 DEF e
<1>6. ASSUME NEW o \in s..e - 1 PROVE Letter(o)
  <2>1. o = s \/ (o \in s + 1..Len(t) /\ ~(e <= o))
    BY <1>2, <1>5
  <2>2. o \in Ends(s) => e <= o
    BY <1>4 DEF e
  <2> QED BY <1>1, <2>1, <2>2
<1>7. k = ByteRange(s, e) /\ k.start = s /\ k.end = e
  BY <1>1 DEF ByteRange, e
<1>8. IsWord(t, s, e)
  BY <1>1, <1>2, <1>5, <1>6 DEF IsWord, OnlyLetters
<1> QED BY <1>7, <1>8

\* ... and one is a word.
LEMMA IsAWord ==
  ASSUME NEW t \in Seq(Chars), NEW p, NEW q, IsWord(t, p, q)
  PROVE  ByteRange(p, q) \in Words(t)
<1> DEFINE Letter(o) == o \in 0..Len(t) - 1 /\ At(t, o) \in Letters
           Ends == {e \in p + 1..Len(t) : ~Letter(e)}
<1>1. Len(t) \in Nat /\ p \in Nat /\ q \in Nat
  BY DEF IsWord, OnlyLetters
<1>2. p \in 0..Len(t) - 1 /\ Letter(p) /\ ~Letter(p - 1)
  BY <1>1 DEF IsWord, OnlyLetters
<1>3. q \in Ends /\ Ends \in SUBSET Nat
  BY <1>1 DEF IsWord, OnlyLetters
<1>4. Least(Ends) \in Ends /\ Least(Ends) <= q
  BY <1>3, LeastIs
<1>5. ASSUME NEW m \in Ends PROVE q <= m
  <2>1. m \in p + 1..Len(t) /\ ~Letter(m)
    OBVIOUS
  <2> QED BY <1>1, <2>1 DEF IsWord, OnlyLetters
<1>6. Least(Ends) = q
  <2> DEFINE l == Least(Ends)
  <2>1. l \in Ends /\ l <= q
    BY <1>4
  <2>2. q <= l /\ l \in Nat
    BY <1>3, <1>5, <2>1
  <2> HIDE DEF l
  <2>3. l = q
    BY <1>1, <2>1, <2>2
  <2> QED BY <2>3 DEF l
<1> QED BY <1>2, <1>6 DEF Words

\* Before what is no letter a word ends, if there is a letter.
LEMMA WordBefore ==
  ASSUME NEW t \in Seq(Chars), NEW l \in Nat, l > 0, l <= Len(t),
         At(t, l - 1) \in Letters, l < Len(t) => At(t, l) \notin Letters
  PROVE  \E p \in Nat : IsWord(t, p, l)
<1> DEFINE S == {p \in 0..l - 1 : \A o \in p..l - 1 : At(t, o) \in Letters}
<1>1. l - 1 \in S /\ S \in SUBSET Nat
  OBVIOUS
<1>2. PICK p \in S : \A m \in S : p <= m
  BY <1>1, LeastIs
<1>3. p > 0 => At(t, p - 1) \notin Letters
  <2> SUFFICES ASSUME p > 0, At(t, p - 1) \in Letters PROVE FALSE
    OBVIOUS
  <2>1. p - 1 \in 0..l - 1 /\ ~(p <= p - 1)
    BY <1>2
  <2>2. \A o \in p - 1..l - 1 : o = p - 1 \/ o \in p..l - 1
    BY <1>2
  <2>3. p - 1 \in S
    BY <1>2, <2>1, <2>2
  <2> QED BY <1>2, <2>1, <2>3
<1> QED BY <1>2, <1>3 DEF IsWord, OnlyLetters

\* What a token is.
LEMMA TokenIs ==
  ASSUME NEW t, Plain(t), NEW k \in Tokens(t)
  PROVE  /\ k = ByteRange(k.start, k.end) /\ k.start \in Nat /\ k.end \in Nat
         /\ k.start < k.end /\ k.end <= Len(t)
         /\ IsWord(t, k.start, k.end) \/ IsHash(t, k.start, k.end)
         /\ k \in Words(t) <=> IsWord(t, k.start, k.end)
         /\ \A o \in k.start..k.end - 1 : At(t, o) \notin Blanks /\ ~IsNewline(t, o)
<1>1. t \in Seq(Chars) /\ Len(t) \in Nat
  BY DEF Plain
<1>2. CASE k \in Words(t)
  <2>1. k = ByteRange(k.start, k.end) /\ IsWord(t, k.start, k.end)
    BY <1>1, <1>2, WordIs
  <2>2. ASSUME NEW o \in k.start..k.end - 1 PROVE At(t, o) \notin Blanks /\ ~IsNewline(t, o)
    <3>1. o \in Nat /\ o < Len(t) /\ At(t, o) \in Letters
      BY <1>1, <2>1 DEF IsWord, OnlyLetters
    <3> QED BY <3>1, CharacterIs DEF EndsLine
  <2> QED BY <1>2, <2>1, <2>2 DEF IsWord, OnlyLetters
<1>3. CASE k \notin Words(t)
  <2>1. PICK p \in 0..Len(t) - 1 : At(t, p) = "#" /\ k = ByteRange(p, p + 1)
    BY <1>3 DEF Tokens, Hashes
  <2>2. p \in Nat /\ p < Len(t) /\ k.start = p /\ k.end = p + 1
    BY <1>1, <2>1 DEF ByteRange
  <2>3. At(t, p) \notin Letters /\ At(t, p) \notin Blanks /\ ~IsNewline(t, p)
    BY <2>1, <2>2, CharacterIs DEF EndsLine
  <2>4. \A o \in p..p + 1 - 1 : o = p
    BY <2>2
  <2> QED BY <1>1, <1>3, <2>1, <2>2, <2>3, <2>4 DEF IsWord, OnlyLetters, IsHash
<1> QED BY <1>2, <1>3

\* ... and whatever is either is a token.
LEMMA IsAToken ==
  ASSUME NEW t, Plain(t), NEW p, NEW q, IsWord(t, p, q) \/ IsHash(t, p, q)
  PROVE  ByteRange(p, q) \in Tokens(t)
<1>1. CASE IsWord(t, p, q)
  BY <1>1, IsAWord DEF Plain, Tokens
<1>2. CASE IsHash(t, p, q)
  BY <1>2 DEF Tokens, Hashes, IsHash, Plain
<1> QED BY <1>1, <1>2

\* Tokens do not overlap.
LEMMA SameStart ==
  ASSUME NEW t, Plain(t), NEW k \in Tokens(t), NEW l \in Tokens(t), k.start = l.start
  PROVE  k = l
<1> DEFINE p == k.start
<1>1. /\ k = ByteRange(p, k.end) /\ l = ByteRange(p, l.end)
      /\ p \in Nat /\ k.end \in Nat /\ l.end \in Nat /\ Len(t) \in Nat /\ p < Len(t)
      /\ IsWord(t, p, k.end) \/ IsHash(t, p, k.end)
      /\ IsWord(t, p, l.end) \/ IsHash(t, p, l.end)
  <2>1. Len(t) \in Nat
    BY DEF Plain
  <2> QED BY <2>1, TokenIs
<1>2. At(t, p) \in Letters => At(t, p) # "#"
  BY <1>1, CharacterIs
<1>3. k.end = l.end
  BY <1>1, <1>2 DEF IsWord, OnlyLetters, IsHash
<1> QED BY <1>1, <1>3
----------------------------------------------------------------------------
\* The text u is t with the part from s to e replaced by one from s to a.
Alike(t, u, s, e, a) ==
  /\ Plain(t) /\ Plain(u)
  /\ s \in Nat /\ e \in Nat /\ a \in Nat /\ s <= e /\ s <= a
  /\ e <= Len(t) /\ a <= Len(u) /\ Len(u) - a = Len(t) - e
  /\ \A o \in 0..s - 1 : At(u, o) = At(t, o)
  /\ \A o \in e..Len(t) - 1 : At(u, o + a - e) = At(t, o)
\* What neither overlaps nor touches the replaced part, and where it goes.
Away(k, s, e) == k.end < s \/ k.start > e
Moved(k, s, e, a) == ShiftRange(k, Edit(s, e, a))

\* The other way round t is such a text.
LEMMA AlikeBack ==
  ASSUME NEW t, NEW u, NEW s, NEW e, NEW a, Alike(t, u, s, e, a)
  PROVE  Alike(u, t, s, a, e)
<1>1. /\ Plain(t) /\ Plain(u) /\ Len(t) \in Nat /\ Len(u) \in Nat
      /\ s \in Nat /\ e \in Nat /\ a \in Nat /\ s <= e /\ s <= a
      /\ e <= Len(t) /\ a <= Len(u) /\ Len(u) - a = Len(t) - e
      /\ \A o \in 0..s - 1 : At(u, o) = At(t, o)
      /\ \A o \in e..Len(t) - 1 : At(u, o + a - e) = At(t, o)
  BY DEF Alike, Plain
<1>2. ASSUME NEW o \in a..Len(u) - 1 PROVE At(t, o + e - a) = At(u, o)
  <2>1. o + e - a \in e..Len(t) - 1 /\ o + e - a + a - e = o
    BY <1>1
  <2> QED BY <1>1, <2>1
<1> QED BY <1>1, <1>2 DEF Alike

\* By how much what begins at o is moved.
By(o, s, e, a) == IF o > e THEN a - e ELSE 0

\* A part that is away from the edit is moved as a whole, and back by the
\* edit that undoes it.
LEMMA MovedIs ==
  ASSUME NEW s \in Nat, NEW e \in Nat, NEW a \in Nat, s <= e, s <= a,
         NEW p \in Nat, NEW q \in Nat, p <= q, Away(ByteRange(p, q), s, e)
  PROVE  LET d == By(p, s, e, a)
             k == Moved(ByteRange(p, q), s, e, a)
         IN /\ d \in Int /\ k = ByteRange(p + d, q + d)
            /\ p + d \in Nat /\ q + d \in Nat
            /\ Away(k, s, a) /\ Moved(k, s, a, e) = ByteRange(p, q)
            /\ By(p + d, s, a, e) = 0 - d
<1> DEFINE d == By(p, s, e, a)
<1>1. q < s \/ p > e
  BY DEF Away, ByteRange
<1>2. CASE p > e
  <2>1. d = a - e
    BY <1>2 DEF By
  <2>2. Moved(ByteRange(p, q), s, e, a) = ByteRange(p + d, q + d)
    BY <1>2, <2>1 DEF Moved, ShiftRange, ShiftOffset, Edit, ByteRange
  <2>3. p + d > a /\ q + d >= p + d /\ p + d \in Nat /\ q + d \in Nat
    BY <1>2, <2>1
  <2>4. By(p + d, s, a, e) = e - a
    BY <2>3 DEF By
  <2>5. Moved(ByteRange(p + d, q + d), s, a, e) = ByteRange(p + d + e - a, q + d + e - a)
    BY <2>3 DEF Moved, ShiftRange, ShiftOffset, Edit, ByteRange
  <2>6. p + d + e - a = p /\ q + d + e - a = q /\ e - a = 0 - d /\ d \in Int
    BY <2>1
  <2>7. Away(ByteRange(p + d, q + d), s, a)
    BY <2>3 DEF Away, ByteRange
  <2> QED BY <2>2, <2>3, <2>4, <2>5, <2>6, <2>7
<1>3. CASE q < s
  <2>1. d = 0
    BY <1>3 DEF By
  <2>2. Moved(ByteRange(p, q), s, e, a) = ByteRange(p, q)
    BY <1>3 DEF Moved, ShiftRange, ShiftOffset, Edit, ByteRange
  <2>3. Moved(ByteRange(p, q), s, a, e) = ByteRange(p, q)
    BY <1>3 DEF Moved, ShiftRange, ShiftOffset, Edit, ByteRange
  <2>4. By(p, s, a, e) = 0
    BY <1>3 DEF By
  <2>5. Away(ByteRange(p, q), s, a)
    BY <1>3 DEF Away, ByteRange
  <2> HIDE DEF d
  <2>6. p + d = p /\ q + d = q /\ 0 - d = 0 /\ d \in Int
    BY <2>1
  <2> QED BY <2>1, <2>2, <2>3, <2>4, <2>5, <2>6 DEF d
<1> QED BY <1>1, <1>2, <1>3

\* The characters away from the edit, and those next to them, are the same.
LEMMA AlikeThere ==
  ASSUME NEW t, NEW u, NEW s, NEW e, NEW a, Alike(t, u, s, e, a),
         NEW p \in Nat, NEW q \in Nat, p <= q, q <= Len(t), Away(ByteRange(p, q), s, e)
  PROVE  LET d == By(p, s, e, a)
         IN /\ d \in Int /\ p + d \in Nat /\ q + d \in Nat /\ q + d <= Len(u)
            /\ p > 0 <=> p + d > 0
            /\ q < Len(t) <=> q + d < Len(u)
            /\ \A o \in p..q - 1 : o + d \in p + d..q + d - 1 /\ At(u, o + d) = At(t, o)
            /\ \A o \in p + d..q + d - 1 : o - d \in p..q - 1 /\ At(u, o) = At(t, o - d)
            /\ p > 0 => At(u, p + d - 1) = At(t, p - 1)
            /\ q < Len(t) => At(u, q + d) = At(t, q)
<1> DEFINE d == By(p, s, e, a)
<1>1. /\ Len(t) \in Nat /\ Len(u) \in Nat
      /\ s \in Nat /\ e \in Nat /\ a \in Nat /\ s <= e /\ s <= a
      /\ e <= Len(t) /\ a <= Len(u) /\ Len(u) - a = Len(t) - e
      /\ \A o \in 0..s - 1 : At(u, o) = At(t, o)
      /\ \A o \in e..Len(t) - 1 : At(u, o + a - e) = At(t, o)
  BY DEF Alike, Plain
<1>2. q < s \/ p > e
  BY DEF Away, ByteRange
<1>3. CASE p > e
  <2>1. d = a - e
    BY <1>3 DEF By
  <2>2. \A o \in e..Len(t) - 1 : o + d = o + a - e /\ At(u, o + d) = At(t, o)
    BY <1>1, <2>1
  <2>3. p - 1 \in e..Len(t) - 1 /\ p - 1 + d = p + d - 1
    BY <1>1, <1>3, <2>1
  <2>4. q < Len(t) => q \in e..Len(t) - 1
    BY <1>1, <1>3
  <2>5. /\ d \in Int /\ p + d \in Nat /\ q + d \in Nat /\ q + d <= Len(u)
        /\ p > 0 <=> p + d > 0
        /\ q < Len(t) <=> q + d < Len(u)
    BY <1>1, <1>3, <2>1
  <2> HIDE DEF d
  <2>6. ASSUME NEW o \in p..q - 1
        PROVE  o + d \in p + d..q + d - 1 /\ o \in e..Len(t) - 1
    BY <1>1, <1>3, <2>5
  <2>7. ASSUME NEW o \in p + d..q + d - 1
        PROVE  o - d \in p..q - 1 /\ o - d \in e..Len(t) - 1 /\ o - d + d = o
    BY <1>1, <1>3, <2>5
  <2>8. p > 0 => At(u, p + d - 1) = At(t, p - 1)
    BY <2>2, <2>3
  <2>9. q < Len(t) => At(u, q + d) = At(t, q)
    BY <2>2, <2>4
  <2>10. \A o \in p..q - 1 : o + d \in p + d..q + d - 1 /\ At(u, o + d) = At(t, o)
    BY <2>2, <2>6
  <2>11. \A o \in p + d..q + d - 1 : o - d \in p..q - 1 /\ At(u, o) = At(t, o - d)
    BY <2>2, <2>7
  <2> QED BY <2>5, <2>8, <2>9, <2>10, <2>11 DEF d
<1>4. CASE q < s
  <2>1. d = 0
    BY <1>1, <1>4 DEF By
  <2>2. p + d = p /\ q + d = q /\ d \in Int /\ \A o \in Int : o + d = o /\ o - d = o
    BY <2>1
  <2>3. q \in 0..s - 1 /\ q < Len(t) /\ q < Len(u)
    BY <1>1, <1>4
  <2>4. \A o \in p..q - 1 : o \in 0..s - 1 /\ o \in Int
    BY <1>1, <1>4
  <2>5. p > 0 => p - 1 \in 0..s - 1
    BY <1>1, <1>4
  <2> HIDE DEF d
  <2>6. p + d - 1 = p - 1
    BY <2>2
  <2>7. p > 0 => At(u, p + d - 1) = At(t, p - 1)
    BY <1>1, <2>5, <2>6
  <2>8. q < Len(t) => At(u, q + d) = At(t, q)
    BY <1>1, <2>2, <2>3
  <2>9. ASSUME NEW o \in p..q - 1
        PROVE  o + d \in p + d..q + d - 1 /\ At(u, o + d) = At(t, o)
    <3>1. o + d = o
      BY <2>2
    <3>2. o + d \in p + d..q + d - 1
      BY <2>2
    <3> QED BY <1>1, <2>4, <3>1, <3>2
  <2>10. ASSUME NEW o \in p + d..q + d - 1
         PROVE  o - d \in p..q - 1 /\ At(u, o) = At(t, o - d)
    <3>1. o - d = o
      BY <2>2
    <3>2. o - d \in p..q - 1
      BY <2>2
    <3> QED BY <1>1, <2>4, <3>1, <3>2
  <2>11. /\ p + d \in Nat /\ q + d \in Nat /\ q + d <= Len(u)
         /\ p > 0 <=> p + d > 0
         /\ q < Len(t) <=> q + d < Len(u)
    BY <2>2, <2>3, <1>1
  <2> QED BY <2>2, <2>7, <2>8, <2>9, <2>10, <2>11 DEF d
<1> QED BY <1>2, <1>3, <1>4

\* A token away from the edit is moved to a token with the same characters.
LEMMA TokenMoves ==
  ASSUME NEW t, NEW u, NEW s, NEW e, NEW a, Alike(t, u, s, e, a),
         NEW k \in Tokens(t), Away(k, s, e)
  PROVE  LET d == By(k.start, s, e, a)
             m == Moved(k, s, e, a)
         IN /\ m = ByteRange(k.start + d, k.end + d) /\ d \in Int
            /\ m.start = k.start + d /\ m.end = k.end + d
            /\ m \in Tokens(u) /\ Slice(u, m) = Slice(t, k)
            /\ m \in Words(u) <=> k \in Words(t)
            /\ Away(m, s, a) /\ Moved(m, s, a, e) = k
<1> DEFINE p == k.start
           q == k.end
           d == By(p, s, e, a)
           m == Moved(k, s, e, a)
<1>1. /\ Plain(t) /\ Plain(u) /\ Len(t) \in Nat /\ Len(u) \in Nat
      /\ s \in Nat /\ e \in Nat /\ a \in Nat /\ s <= e /\ s <= a
  BY DEF Alike, Plain
<1>2. /\ k = ByteRange(p, q) /\ p \in Nat /\ q \in Nat /\ p < q /\ q <= Len(t)
      /\ IsWord(t, p, q) \/ IsHash(t, p, q)
      /\ k \in Words(t) <=> IsWord(t, p, q)
  BY <1>1, TokenIs
<1>3. Away(ByteRange(p, q), s, e) /\ Moved(ByteRange(p, q), s, e, a) = m
  BY <1>2
<1> HIDE DEF m, p, q
<1>4. /\ d \in Int /\ m = ByteRange(p + d, q + d)
      /\ Away(m, s, a) /\ Moved(m, s, a, e) = k
  BY <1>1, <1>2, <1>3, MovedIs
<1>5. m.start = p + d /\ m.end = q + d
  BY <1>4 DEF ByteRange
<1>6. /\ p + d \in Nat /\ q + d \in Nat /\ q + d <= Len(u)
      /\ p > 0 <=> p + d > 0
      /\ q < Len(t) <=> q + d < Len(u)
      /\ \A o \in p..q - 1 : o + d \in p + d..q + d - 1 /\ At(u, o + d) = At(t, o)
      /\ \A o \in p + d..q + d - 1 : o - d \in p..q - 1 /\ At(u, o) = At(t, o - d)
      /\ p > 0 => At(u, p + d - 1) = At(t, p - 1)
      /\ q < Len(t) => At(u, q + d) = At(t, q)
  BY <1>2, <1>3, AlikeThere
<1> HIDE DEF d
<1>7. IsWord(t, p, q) <=> IsWord(u, p + d, q + d)
  <2> DEFINE r == p + d
             z == q + d
  <2>1. /\ r \in Nat /\ z \in Nat /\ z <= Len(u)
        /\ p < q <=> r < z
    BY <1>2, <1>4, <1>6
  <2>2. /\ p > 0 <=> r > 0
        /\ q < Len(t) <=> z < Len(u)
        /\ p > 0 => At(u, r - 1) = At(t, p - 1)
        /\ q < Len(t) => At(u, z) = At(t, q)
    BY <1>2, <1>4, <1>6
  <2>3. /\ \A o \in p..q - 1 : o + d \in r..z - 1 /\ At(u, o + d) = At(t, o)
        /\ \A o \in r..z - 1 : o - d \in p..q - 1 /\ At(u, o) = At(t, o - d)
    BY <1>2, <1>4, <1>6
  <2> HIDE DEF r, z
  <2>4. ASSUME OnlyLetters(t, p, q) PROVE OnlyLetters(u, r, z)
    BY <2>3, <2>4 DEF OnlyLetters
  <2>5. ASSUME OnlyLetters(u, r, z) PROVE OnlyLetters(t, p, q)
    BY <2>3, <2>5 DEF OnlyLetters
  <2>6. IsWord(t, p, q) <=> IsWord(u, r, z)
    BY <1>2, <2>1, <2>2, <2>4, <2>5 DEF IsWord
  <2> QED BY <2>6 DEF r, z
<1>8. IsHash(t, p, q) <=> IsHash(u, p + d, q + d)
  <2>1. q = p + 1 <=> q + d = p + d + 1
    BY <1>2, <1>4
  <2>2. p \in p..q - 1 /\ p < Len(t) /\ p + d < Len(u)
    BY <1>1, <1>2, <1>4, <1>6
  <2>3. At(u, p + d) = At(t, p)
    BY <1>6, <2>2
  <2> QED BY <1>2, <1>6, <2>1, <2>2, <2>3 DEF IsHash
<1>9. m \in Tokens(u)
  BY <1>1, <1>2, <1>4, <1>7, <1>8, IsAToken
<1>10. m \in Words(u) <=> k \in Words(t)
  BY <1>1, <1>2, <1>5, <1>7, <1>9, TokenIs
<1>11. Slice(u, m) = Slice(t, k)
  <2>1. Slice(t, k) = SubSeq(t, p + 1, q) /\ Slice(u, m) = SubSeq(u, p + d + 1, q + d)
    BY <1>2, <1>5 DEF Slice, p, q
  <2>2. SubSeq(t, p + 1, q) = [i \in 1..q - p |-> At(t, p + i - 1)]
    <3>1. t \in Seq(Chars)
      BY <1>1 DEF Plain
    <3> QED BY <1>2, <3>1 DEF At
  <2>3. SubSeq(u, p + d + 1, q + d) = [i \in 1..q - p |-> At(u, p + i - 1 + d)]
    <3>1. u \in Seq(Chars)
      BY <1>1 DEF Plain
    <3>2. (q + d) - (p + d) = q - p /\ \A i \in 1..q - p : p + d + 1 + i - 1 = p + i - 1 + d + 1
      BY <1>2, <1>4
    <3> QED BY <1>2, <1>4, <1>6, <3>1, <3>2 DEF At
  <2>4. ASSUME NEW i \in 1..q - p PROVE At(u, p + i - 1 + d) = At(t, p + i - 1)
    <3>1. p + i - 1 \in p..q - 1
      BY <1>2
    <3> QED BY <1>6, <3>1
  <2> QED BY <2>1, <2>2, <2>3, <2>4
<1> QED BY <1>4, <1>5, <1>9, <1>10, <1>11 DEF d, m, p, q
----------------------------------------------------------------------------
\* A line begins at l; what is between l and o are blanks, or ends of lines
\* that go on.
LineStart(t, l) == l > 0 => At(t, l - 1) = "newline"
OnlyGaps(t, l, o) == \A p \in l..o - 1 : At(t, p) \in Blanks \/ At(t, p) = "continued"

\* A directive is the first on its line that is not a blank.
LEMMA DirectiveIs ==
  ASSUME NEW t, Plain(t), NEW h \in Directives(t)
  PROVE  /\ h = ByteRange(h.start, h.end) /\ IsHash(t, h.start, h.end) /\ h \in Tokens(t)
         /\ \E l \in 0..h.start : LineStart(t, l) /\ OnlyGaps(t, l, h.start)
<1>1. t \in Seq(Chars) /\ Len(t) \in Nat
  BY DEF Plain
<1>2. PICK o \in 0..Len(t) - 1 : At(t, o) = "#" /\ h = ByteRange(o, o + 1)
  BY DEF Directives, Hashes
<1>3. h.start = o /\ h.end = o + 1 /\ o \in Nat /\ o < Len(t)
  BY <1>1, <1>2 DEF ByteRange
<1>4. h \in Tokens(t)
  BY DEF Directives, Tokens
<1>5. IsHash(t, o, o + 1)
  BY <1>2, <1>3 DEF IsHash
<1> DEFINE S == {l \in 0..o : OnlyGaps(t, l, o)}
<1>6. o \in S /\ S \in SUBSET Nat
  BY <1>3 DEF OnlyGaps
<1>7. PICK l \in S : \A m \in S : l <= m
  BY <1>6, LeastIs
<1>8. l \in 0..o /\ OnlyGaps(t, l, o)
  BY <1>7
<1>9. ASSUME l > 0, At(t, l - 1) # "newline" PROVE FALSE
  <2>1. l - 1 \in Nat /\ l - 1 < Len(t) /\ l - 1 \in 0..o
    BY <1>3, <1>8, <1>9
  <2>2. At(t, l - 1) \notin Blanks /\ At(t, l - 1) # "continued"
    <3> SUFFICES ASSUME At(t, l - 1) \in Blanks \/ At(t, l - 1) = "continued" PROVE FALSE
      OBVIOUS
    <3>1. \A p \in l - 1..o - 1 : p = l - 1 \/ p \in l..o - 1
      BY <1>3, <1>8
    <3>2. l - 1 \in S
      BY <1>8, <2>1, <3>1 DEF OnlyGaps
    <3> QED BY <1>3, <1>7, <1>8, <3>2
  <2>3. ASSUME NEW p \in 0..l - 1, ByteRange(p, l) \in Tokens(t) PROVE FALSE
    <3> DEFINE k == ByteRange(p, l)
    <3>1. k.end = l /\ l <= o
      BY <1>8 DEF ByteRange
    <3>2. \A q \in l..o - 1 : ~EndsLine(t, q)
      <4> TAKE q \in l..o - 1
      <4>1. q \in Nat /\ q < Len(t) /\ (At(t, q) \in Blanks \/ At(t, q) = "continued")
        BY <1>3, <1>8 DEF OnlyGaps
      <4> QED BY <4>1, CharacterIs DEF EndsLine
    <3>3. SameLine(t, k, h)
      BY <1>3, <3>1, <3>2 DEF SameLine
    <3>4. k \in Tokens(t) /\ k.end <= h.start
      BY <1>3, <2>3, <3>1
    <3> QED BY <3>3, <3>4 DEF Directives
  <2>4. CASE At(t, l - 1) = "#"
    <3>1. IsHash(t, l - 1, l)
      BY <1>8, <2>1, <2>4 DEF IsHash
    <3> QED BY <2>1, <2>3, <3>1, <1>8, IsAToken
  <2>5. CASE At(t, l - 1) \in Letters
    <3>1. l < Len(t) => At(t, l) \notin Letters
      <4>1. l \in Nat /\ l < Len(t)
        BY <1>3, <1>8
      <4>2. At(t, l) = "#" \/ At(t, l) \in Blanks \/ At(t, l) = "continued"
        <5>1. l = o \/ l \in l..o - 1
          BY <1>3, <1>8
        <5> QED BY <1>2, <1>8, <5>1 DEF OnlyGaps
      <4> QED BY <4>1, <4>2, CharacterIs
    <3>2. PICK p \in Nat : IsWord(t, p, l)
      BY <1>1, <1>3, <1>8, <1>9, <2>5, <3>1, WordBefore
    <3>3. p \in 0..l - 1
      BY <1>8, <3>2 DEF IsWord
    <3> QED BY <2>3, <3>2, <3>3, IsAToken
  <2> QED BY <1>9, <2>1, <2>2, <2>4, <2>5, CharacterIs
<1>10. LineStart(t, l)
  BY <1>9 DEF LineStart
<1> QED BY <1>2, <1>3, <1>4, <1>5, <1>8, <1>10

\* ... and what is found so is one.
LEMMA IsADirective ==
  ASSUME NEW t, Plain(t), NEW o, NEW l \in 0..o, IsHash(t, o, o + 1),
         LineStart(t, l), OnlyGaps(t, l, o)
  PROVE  ByteRange(o, o + 1) \in Directives(t)
<1> DEFINE h == ByteRange(o, o + 1)
<1>1. /\ o \in Nat /\ o < Len(t) /\ Len(t) \in Nat /\ h.start = o /\ h.end = o + 1
      /\ At(t, o) = "#" /\ l \in Nat /\ l <= o
  BY DEF IsHash, ByteRange, Plain
<1>2. h \in Hashes(t)
  BY <1>1 DEF Hashes
<1>3. ASSUME NEW k \in Tokens(t), k.end <= h.start, SameLine(t, k, h) PROVE FALSE
  <2>1. /\ k.end \in Nat /\ k.end > 0 /\ k.end - 1 \in k.start..k.end - 1
        /\ At(t, k.end - 1) \notin Blanks /\ ~IsNewline(t, k.end - 1)
    BY TokenIs
  <2>2. ~(k.end - 1 \in l..o - 1)
    BY <2>1 DEF OnlyGaps, IsNewline
  <2>3. k.end <= l
    BY <1>1, <1>3, <2>1, <2>2
  <2>4. l > 0 /\ EndsLine(t, l - 1)
    BY <1>1, <2>1, <2>3 DEF LineStart, EndsLine
  <2>5. k.end <= l - 1
    <3>1. k.end # l
      BY <2>1, <2>4 DEF IsNewline, EndsLine
    <3> QED BY <1>1, <2>1, <2>3, <3>1
  <2>6. l - 1 \in k.end..h.start - 1
    BY <1>1, <2>1, <2>5
  <2> QED BY <1>3, <2>4, <2>6 DEF SameLine
<1> QED BY <1>2, <1>3 DEF Directives

\* Where directiveRange finds no directive, and looks at whole lines, each
\* directive is away from the edit: its line begins behind the edit, or it
\* and a token behind it are on lines before those of the edit.
LEMMA DirectiveAway ==
  ASSUME NEW t, Plain(t), NEW s \in 0..Len(t), NEW e \in 0..Len(t), s <= e,
         ~DirectiveRange(t, ByteRange(s, e)), ~Strays(t, ByteRange(s, e)),
         NEW h \in Directives(t), NEW o, NEW l \in 0..o, h = ByteRange(o, o + 1),
         IsHash(t, o, o + 1), LineStart(t, l), OnlyGaps(t, l, o)
  PROVE  \/ l > e
         \/ \E q \in o + 1..s - 1 :
              /\ EndsLine(t, q)
              /\ \E k \in Tokens(t) : o < k.start /\ k.start <= q
<1> DEFINE changed == ByteRange(s, e)
           from == IF s = Len(t) /\ s > 0 THEN s - 1 ELSE s
           NoNewline(f, g) == \A p \in f..g - 1 : ~IsNewline(t, p)
           Looked == LinesOf(t, changed)
           Begins(p) == p > 0 => IsNewline(t, p - 1)
<1>1. /\ o \in Nat /\ o < Len(t) /\ Len(t) \in Nat /\ At(t, o) = "#" /\ h.start = o
      /\ l \in Nat /\ l <= o /\ s \in Nat /\ e \in Nat /\ s <= e /\ e <= Len(t)
      /\ changed.start = s /\ changed.end = e /\ h.end = o + 1
  BY DEF IsHash, ByteRange, Plain
<1>2. Looked =
        {k \in LineStarts(t) : (k <= from /\ NoNewline(k, from))
                                 \/ (from < k /\ (k <= e \/ NoNewline(e, k)))}
  BY <1>1 DEF LinesOf
<1>3. from \in Nat /\ from <= s /\ from < Len(t)
  BY <1>1
<1> HIDE DEF from, Looked
\* The character before a gap's first line, and what is in the gap.
<1>4. ASSUME NEW q \in Nat, EndsLine(t, q), l <= q PROVE q > o
  <2>1. q # o
    <3>1. "#" # "newline"
      OBVIOUS
    <3> QED BY <1>1, <1>4, <3>1 DEF EndsLine
  <2>2. ~(q \in l..o - 1)
    <3> SUFFICES ASSUME q \in l..o - 1 PROVE FALSE
      OBVIOUS
    <3>1. q < Len(t) /\ (At(t, q) \in Blanks \/ At(t, q) = "continued")
      BY <1>1 DEF OnlyGaps
    <3>2. At(t, q) = "newline" /\ "newline" # "continued"
      BY <1>4 DEF EndsLine
    <3> QED BY <3>1, <3>2, CharacterIs
  <2> QED BY <1>1, <1>4, <2>1, <2>2
\* Where the line of a place begins.
<1>5. ASSUME NEW x \in Nat, x < Len(t), NEW y \in 0..x, Begins(y)
      PROVE  \E p \in y..x : Begins(p) /\ p \in LineStarts(t) /\ NoNewline(p, x)
  <2> DEFINE S == {p \in 0..x : y <= p /\ Begins(p)}
  <2>1. S \in SUBSET (0..x) /\ y \in S
    BY <1>5
  <2> HIDE DEF S
  <2>2. Greatest(S) \in S /\ \A m \in S : m <= Greatest(S)
    BY <1>5, <2>1, GreatestIs
  <2>3. PICK p \in S : \A m \in S : m <= p
    BY <2>2
  <2>4. p \in 0..x /\ y <= p /\ Begins(p)
    BY <2>3 DEF S
  <2>5. ASSUME NEW q \in p..x - 1, IsNewline(t, q) PROVE FALSE
    <3>1. q + 1 \in 0..x /\ y <= q + 1 /\ q + 1 - 1 = q /\ ~(q + 1 <= p)
      BY <1>5, <2>4
    <3>2. q + 1 \in S
      BY <2>5, <3>1 DEF S
    <3> QED BY <2>3, <3>1, <3>2
  <2>6. p \in LineStarts(t)
    BY <1>1, <1>5, <2>4 DEF LineStarts
  <2> QED BY <1>5, <2>4, <2>5, <2>6
<1>6. Begins(l)
  BY DEF LineStart, IsNewline
<1>7. PICK pl \in l..o : Begins(pl) /\ pl \in LineStarts(t) /\ NoNewline(pl, o)
  BY <1>1, <1>5, <1>6
<1>8. pl \in Nat /\ pl <= o /\ l <= pl
  BY <1>1, <1>7
<1>9. pl \notin Looked
  <2>1. \A p \in pl..o - 1 : At(t, p) \in Blanks
    <3> TAKE p \in pl..o - 1
    <3>1. p \in l..o - 1 /\ ~IsNewline(t, p)
      BY <1>1, <1>7, <1>8
    <3> QED BY <3>1 DEF OnlyGaps, IsNewline
  <2>2. o \in pl..Len(t) - 1
    BY <1>1, <1>8
  <2> QED BY <1>1, <2>1, <2>2 DEF DirectiveRange, Looked
\* The first of the lines of the edit is the one of its beginning.
<1>10. PICK ls \in 0..from : Begins(ls) /\ ls \in LineStarts(t) /\ NoNewline(ls, from)
  <2>1. 0 \in 0..from /\ Begins(0)
    BY <1>3
  <2> QED BY <1>3, <1>5, <2>1
<1>11. ls \in Looked
  BY <1>2, <1>10
<1> DEFINE f == Least(Looked)
<1>12. f \in Looked /\ f <= ls
  <2>1. Looked \in SUBSET Nat /\ Looked # {}
    BY <1>1, <1>2, <1>11 DEF LineStarts
  <2> QED BY <1>11, <2>1, LeastIs
<1>13. f \in Nat /\ f <= from /\ NoNewline(f, from)
  <2>1. f \in Nat /\ f <= from
    BY <1>1, <1>2, <1>3, <1>10, <1>12 DEF LineStarts
  <2> QED BY <1>2, <1>3, <1>12, <2>1
<1> DEFINE Ends == {x \in e..Len(t) : x = Len(t) \/ IsNewline(t, x)}
           to == Least(Ends)
           before == {k \in Tokens(t) : k.end <= f}
<1>14. /\ ~(f > 0 /\ ~EndsLine(t, f - 1)) /\ ~(to < Len(t) /\ ~EndsLine(t, to))
       /\ ~\E g \in before \cap Directives(t) : \A k \in before : k.start <= g.start
  BY <1>1, <1>11 DEF Strays, Looked
<1>15. to \in Ends /\ \A x \in Ends : to <= x
  <2>1. Ends \in SUBSET Nat /\ Len(t) \in Ends
    BY <1>1
  <2> HIDE DEF Ends
  <2> QED BY <2>1, LeastIs
<1> HIDE DEF f, to
<1>16. CASE from < pl
  <2>1. pl > e
    BY <1>1, <1>2, <1>3, <1>7, <1>8, <1>9, <1>16
  <2>2. pl - 1 \in Ends /\ pl - 1 < Len(t)
    BY <1>1, <1>7, <1>8, <2>1
  <2>3. to <= pl - 1 /\ to \in Nat /\ e <= to
    BY <1>1, <1>15, <2>2
  <2>4. EndsLine(t, to)
    BY <1>1, <1>8, <1>14, <2>2, <2>3
  <2>5. ~(l <= to)
    BY <1>1, <1>4, <1>8, <2>3, <2>4
  <2> QED BY <1>1, <2>3, <2>5
<1>17. CASE pl <= from
  <2>1. PICK q \in pl..from - 1 : IsNewline(t, q)
    BY <1>2, <1>7, <1>9, <1>17
  <2>2. q < f /\ q \in Nat /\ l <= q
    <3>1. q \in Nat /\ l <= q
      BY <1>1, <1>3, <1>8, <2>1
    <3>2. ~(q \in f..from - 1)
      BY <1>13, <2>1
    <3> QED BY <1>3, <1>8, <1>13, <2>1, <3>1, <3>2
  <2>3. EndsLine(t, f - 1) /\ f - 1 \in Nat /\ l <= f - 1
    BY <1>1, <1>13, <1>14, <2>2
  <2>4. f - 1 \in o + 1..s - 1
    BY <1>1, <1>3, <1>4, <1>13, <2>3
  <2>5. PICK k \in before : ~(k.start <= h.start)
    <3>1. h \in before \cap Directives(t)
      BY <1>1, <1>13, <2>4 DEF Directives, Tokens
    <3> QED BY <1>14, <3>1
  <2>6. k \in Tokens(t) /\ o < k.start /\ k.start <= f - 1
    <3>1. k \in Tokens(t) /\ k.start \in Nat /\ k.end \in Nat /\ k.start < k.end /\ k.end <= f
      BY <2>5, TokenIs
    <3> QED BY <1>1, <1>13, <2>5, <3>1
  <2> QED BY <2>3, <2>4, <2>6
<1> QED BY <1>1, <1>3, <1>8, <1>16, <1>17

\* The first of some tokens.
LEMMA FirstIs ==
  ASSUME NEW t, Plain(t), NEW T \in SUBSET Tokens(t), T # {}
  PROVE  /\ First(T) \in T
         /\ \A k \in T : (\A l \in T : k.start <= l.start) <=> k = First(T)
<1> DEFINE Starts == {k.start : k \in T}
<1>1. \A k \in T : k \in Tokens(t) /\ k.start \in Nat
  BY TokenIs
<1>2. Starts \in SUBSET Nat /\ Starts # {}
  BY <1>1
<1>3. PICK p \in Starts : \A m \in Starts : p <= m
  BY <1>2, LeastIs
<1>4. PICK k \in T : \A l \in T : k.start <= l.start
  BY <1>3
<1>5. First(T) \in T /\ \A l \in T : First(T).start <= l.start
  BY <1>4 DEF First
<1>6. ASSUME NEW l \in T, \A j \in T : l.start <= j.start
      PROVE  l = First(T)
  <2>1. l.start = First(T).start
    BY <1>1, <1>5, <1>6
  <2> QED BY <1>1, <1>5, <2>1, SameStart
<1> QED BY <1>5, <1>6

\* What a directive takes: the rest of its line, or the next word and the
\* rest of that word's line.
LEMMA OperandsAre ==
  ASSUME NEW t, Plain(t), NEW h
  PROVE  LET N == First(Following(t, h))
         IN /\ Operands(t, h) \subseteq Tokens(t)
            /\ \A k \in Operands(t, h) \ RestOfLine(t, h) :
                 /\ RestOfLine(t, h) = {} /\ Following(t, h) # {} /\ N \in Words(t)
                 /\ k = N \/ k \in RestOfLine(t, N)
            /\ RestOfLine(t, h) # {} => Operands(t, h) = RestOfLine(t, h)
            /\ RestOfLine(t, h) = {} /\ Following(t, h) # {} /\ N \in Words(t) =>
                 Operands(t, h) = {N} \cup RestOfLine(t, N)
<1> DEFINE N == First(Following(t, h))
<1>1. CASE RestOfLine(t, h) # {}
  BY <1>1 DEF Operands, RestOfLine, Following
<1>2. CASE RestOfLine(t, h) = {} /\ (Following(t, h) = {} \/ N \notin Words(t))
  <2>1. NextWord(t, h) = {}
    BY <1>2 DEF NextWord
  <2>2. Operands(t, h) = {}
    BY <1>2, <2>1 DEF Operands
  <2> QED BY <1>2, <2>2
<1>3. CASE RestOfLine(t, h) = {} /\ Following(t, h) # {} /\ N \in Words(t)
  <2>1. NextWord(t, h) = {N}
    BY <1>3 DEF NextWord
  <2>2. Operands(t, h) = {N} \cup RestOfLine(t, N)
    BY <1>3, <2>1 DEF Operands
  <2>3. RestOfLine(t, N) \subseteq Tokens(t) /\ N \in Tokens(t)
    BY <1>3 DEF RestOfLine, Following, Tokens
  <2> QED BY <1>3, <2>2, <2>3
<1> QED BY <1>1, <1>2, <1>3

\* All of it stands behind the directive.
LEMMA OperandsBehind ==
  ASSUME NEW t, Plain(t), NEW h \in Tokens(t), NEW k \in Operands(t, h)
  PROVE  Following(t, h) # {} /\ k \in Following(t, h)
<1> DEFINE N == First(Following(t, h))
<1>1. CASE k \in RestOfLine(t, h)
  BY <1>1 DEF RestOfLine
<1>2. CASE k \notin RestOfLine(t, h)
  <2>1. Following(t, h) # {} /\ (k = N \/ k \in RestOfLine(t, N))
    BY <1>2, OperandsAre
  <2>2. N \in Following(t, h)
    <3>1. Following(t, h) \in SUBSET Tokens(t)
      BY DEF Following
    <3> QED BY <2>1, <3>1, FirstIs
  <2> HIDE DEF N
  <2>3. CASE k \in RestOfLine(t, N)
    <3>1. k \in Tokens(t) /\ N.end <= k.start /\ N \in Tokens(t) /\ h.end <= N.start
      BY <2>2, <2>3 DEF RestOfLine, Following
    <3>2. /\ k.start \in Nat /\ N.start \in Nat /\ N.end \in Nat /\ N.start < N.end
          /\ h.end \in Nat
      BY <3>1, TokenIs
    <3>3. h.end <= k.start
      BY <3>1, <3>2
    <3> QED BY <2>1, <3>1, <3>3 DEF Following
  <2> QED BY <2>1, <2>2, <2>3
<1> QED BY <1>1, <1>2

\* An edit that neither text has a directive at, whole or in part.
Apart(t, u, s, e, a) ==
  /\ Alike(t, u, s, e, a)
  /\ ~DirectiveRange(t, ByteRange(s, e)) /\ ~DirectiveRange(u, ByteRange(s, a))
  /\ ~Strays(t, ByteRange(s, e)) /\ ~Strays(u, ByteRange(s, a))

\* The two texts are in the same position.
LEMMA ApartBack ==
  ASSUME NEW t, NEW u, NEW s, NEW e, NEW a, Apart(t, u, s, e, a)
  PROVE  Apart(u, t, s, a, e)
BY AlikeBack DEF Apart

\* A token k is on the side of the edit that p is on.
SideOf(p, k, s, e) == Away(k, s, e) /\ (k.start > e <=> p > e)

\* A directive, the token behind it and what it takes are on one side of the
\* edit.
LEMMA DirectiveAside ==
  ASSUME NEW t, NEW u, NEW s, NEW e, NEW a, Apart(t, u, s, e, a), NEW h \in Directives(t)
  PROVE  LET N == First(Following(t, h))
         IN /\ h \in Tokens(t) /\ Away(h, s, e)
            /\ \E l \in 0..h.start : /\ LineStart(t, l) /\ OnlyGaps(t, l, h.start)
                                     /\ Away(ByteRange(l, h.end), s, e)
                                     /\ l > e <=> h.start > e
            /\ Following(t, h) # {} => SideOf(h.start, N, s, e)
            /\ \A k \in Operands(t, h) : SideOf(h.start, k, s, e)
<1> DEFINE o == h.start
           N == First(Following(t, h))
<1>1. /\ Plain(t) /\ Len(t) \in Nat
      /\ s \in Nat /\ e \in Nat /\ s <= e /\ e <= Len(t)
      /\ ~DirectiveRange(t, ByteRange(s, e)) /\ ~Strays(t, ByteRange(s, e))
  BY DEF Apart, Alike, Plain
<1>2. /\ h = ByteRange(o, h.end) /\ IsHash(t, o, h.end) /\ h \in Tokens(t)
      /\ \E l \in 0..o : LineStart(t, l) /\ OnlyGaps(t, l, o)
  BY <1>1, DirectiveIs
<1>3. PICK l \in 0..o : LineStart(t, l) /\ OnlyGaps(t, l, o)
  BY <1>2
<1>4. /\ o \in Nat /\ o < Len(t) /\ h.end = o + 1 /\ l \in Nat /\ l <= o
      /\ IsHash(t, o, o + 1) /\ h = ByteRange(o, o + 1)
  BY <1>2, <1>3 DEF IsHash
<1>5. \/ l > e
      \/ \E q \in o + 1..s - 1 : /\ EndsLine(t, q)
                                 /\ \E k \in Tokens(t) : o < k.start /\ k.start <= q
  BY <1>1, <1>3, <1>4, DirectiveAway
<1>6. ASSUME NEW k \in Following(t, h)
      PROVE  /\ k \in Tokens(t) /\ k = ByteRange(k.start, k.end) /\ o + 1 <= k.start
             /\ k.start \in Nat /\ k.end \in Nat /\ k.start < k.end
             /\ \A q \in k.start..k.end - 1 : ~EndsLine(t, q)
  <2>1. k \in Tokens(t) /\ o + 1 <= k.start
    BY <1>4 DEF Following
  <2> QED BY <1>1, <2>1, TokenIs DEF IsNewline, EndsLine
<1>7. Following(t, h) # {} =>
        N \in Following(t, h) /\ \A k \in Following(t, h) : N.start <= k.start
  <2>1. Following(t, h) \in SUBSET Tokens(t)
    BY DEF Following
  <2> QED BY <1>1, <2>1, FirstIs
<1>8. \A k \in Operands(t, h) : Following(t, h) # {} /\ k \in Following(t, h)
  BY <1>1, <1>2, OperandsBehind
<1> HIDE DEF o, N
<1>9. CASE l > e
  <2>1. \A k \in Following(t, h) : SideOf(o, k, s, e)
    <3> TAKE k \in Following(t, h)
    <3> QED BY <1>1, <1>4, <1>6, <1>9 DEF SideOf, Away
  <2>2. Away(ByteRange(l, h.end), s, e) /\ Away(h, s, e) /\ o > e
    BY <1>1, <1>4, <1>9 DEF Away, ByteRange, o
  <2> QED BY <1>2, <1>3, <1>7, <1>8, <1>9, <2>1, <2>2 DEF o, N
<1>10. CASE \E q \in o + 1..s - 1 : /\ EndsLine(t, q)
                                    /\ \E k \in Tokens(t) : o < k.start /\ k.start <= q
  <2>1. PICK q \in o + 1..s - 1 : /\ EndsLine(t, q)
                                  /\ \E k \in Tokens(t) : o < k.start /\ k.start <= q
    BY <1>10
  <2>2. q \in Nat /\ q < s /\ o < q
    BY <1>1, <1>4, <2>1
  \* What does not begin behind the end of the line ends before it.
  <2>3. ASSUME NEW k \in Following(t, h), k.start <= q PROVE SideOf(o, k, s, e) /\ k.end <= q
    <3>1. ~(q \in k.start..k.end - 1)
      BY <1>6, <2>1
    <3>2. k.end <= q
      BY <1>6, <2>2, <2>3, <3>1
    <3> QED BY <1>1, <1>4, <1>6, <2>2, <2>3, <3>2 DEF SideOf, Away
  <2>4. ASSUME NEW j \in Following(t, h), j.end <= q, NEW k \in RestOfLine(t, j)
        PROVE  k.start <= q
    <3>1. k \in Tokens(t) /\ \A p \in j.end..k.start - 1 : ~EndsLine(t, p)
      BY DEF RestOfLine, Following, SameLine
    <3>2. ~(q \in j.end..k.start - 1)
      BY <2>1, <3>1
    <3>3. k.start \in Nat
      BY <1>1, <3>1, TokenIs
    <3> QED BY <1>6, <2>2, <2>4, <3>2, <3>3
  <2>5. Following(t, h) # {} => N.start <= q
    <3>1. PICK k \in Tokens(t) : o < k.start /\ k.start <= q
      BY <2>1
    <3>2. k.start \in Nat
      BY <1>1, TokenIs
    <3>3. k \in Following(t, h)
      BY <1>4, <3>1, <3>2 DEF Following
    <3>4. N.start <= k.start /\ N.start \in Nat
      BY <1>6, <1>7, <3>3
    <3> QED BY <2>2, <3>1, <3>2, <3>4
  <2>6. ASSUME NEW k \in Operands(t, h) PROVE k.start <= q
    <3>1. CASE k \in RestOfLine(t, h)
      <4>1. k \in Tokens(t) /\ \A p \in o + 1..k.start - 1 : ~EndsLine(t, p)
        BY <1>4, <3>1 DEF RestOfLine, Following, SameLine
      <4>2. ~(q \in o + 1..k.start - 1)
        BY <2>1, <4>1
      <4>3. k.start \in Nat
        BY <1>1, <4>1, TokenIs
      <4> QED BY <1>4, <2>2, <4>2, <4>3
    <3>2. CASE k \notin RestOfLine(t, h)
      <4>1. Following(t, h) # {} /\ (k = N \/ k \in RestOfLine(t, N))
        BY <1>1, <3>2, OperandsAre DEF N
      <4>2. N \in Following(t, h) /\ N.start <= q /\ N.end <= q
        BY <1>7, <2>3, <2>5, <4>1
      <4> QED BY <2>4, <4>1, <4>2
    <3> QED BY <3>1, <3>2
  <2>7. Away(ByteRange(l, h.end), s, e) /\ Away(h, s, e) /\ ~(o > e) /\ ~(l > e)
    BY <1>1, <1>4, <2>2 DEF Away, ByteRange
  <2>8. Following(t, h) # {} => SideOf(o, N, s, e)
    BY <1>7, <2>3, <2>5
  <2>9. \A k \in Operands(t, h) : SideOf(o, k, s, e)
    BY <1>8, <2>3, <2>6
  <2> QED BY <1>2, <1>3, <2>7, <2>8, <2>9 DEF o, N
<1> QED BY <1>5, <1>9, <1>10

\* Two tokens on one side of the edit stand on one line in both texts.
LEMMA LineMoves ==
  ASSUME NEW t, NEW u, NEW s, NEW e, NEW a, Alike(t, u, s, e, a),
         NEW k \in Tokens(t), NEW l \in Tokens(t), k.end <= l.start,
         Away(k, s, e), SideOf(k.start, l, s, e)
  PROVE  LET m == Moved(k, s, e, a)
             n == Moved(l, s, e, a)
         IN /\ m \in Tokens(u) /\ n \in Tokens(u) /\ m.end <= n.start
            /\ n.start = l.start + By(k.start, s, e, a)
            /\ SameLine(t, k, l) => SameLine(u, m, n)
<1> DEFINE m == Moved(k, s, e, a)
           n == Moved(l, s, e, a)
           d == By(k.start, s, e, a)
           p == k.start
           q == l.end
<1>1. /\ Plain(t) /\ Len(t) \in Nat /\ s \in Nat /\ e \in Nat /\ a \in Nat /\ s <= e
  BY DEF Alike, Plain
<1>2. /\ p \in Nat /\ k.end \in Nat /\ p < k.end
      /\ l.start \in Nat /\ q \in Nat /\ l.start < q /\ q <= Len(t)
  BY <1>1, TokenIs
<1>3. Away(l, s, e) /\ By(l.start, s, e, a) = d
  BY DEF SideOf, By
<1>4. /\ m \in Tokens(u) /\ m.end = k.end + d /\ d \in Int
      /\ n \in Tokens(u) /\ n.start = l.start + d
  BY <1>3, TokenMoves
<1>5. Away(ByteRange(p, q), s, e) /\ p <= q
  <2>1. p > e \/ q < s
    BY <1>1, <1>2 DEF SideOf, Away
  <2> QED BY <1>2, <2>1 DEF Away, ByteRange
<1> HIDE DEF m, n, p, q
<1>6. \A i \in p + d..q + d - 1 : i - d \in p..q - 1 /\ At(u, i) = At(t, i - d)
  BY <1>2, <1>5, AlikeThere DEF d, p
<1> HIDE DEF d
<1>7. ASSUME SameLine(t, k, l) PROVE SameLine(u, m, n)
  <2> SUFFICES ASSUME NEW i \in m.end..n.start - 1 PROVE ~EndsLine(u, i)
    BY DEF SameLine
  <2>1. k.end + d <= i /\ i <= l.start + d - 1 /\ i \in Int
    BY <1>2, <1>4
  <2>2. p + d <= i /\ i <= q + d - 1 /\ p + d \in Int /\ q + d - 1 \in Int
    BY <1>2, <1>4, <2>1
  <2>3. k.end <= i - d /\ i - d <= l.start - 1 /\ i - d \in Int
    BY <1>2, <1>4, <2>1
  <2>4. i \in p + d..q + d - 1 /\ i - d \in k.end..l.start - 1
    BY <1>2, <2>1, <2>2, <2>3
  <2> QED BY <1>6, <1>7, <2>4 DEF SameLine, EndsLine
<1>8. m.end <= n.start
  BY <1>2, <1>4
<1> QED BY <1>4, <1>7, <1>8 DEF m, n, d, p

\* A directive is moved to one.
LEMMA DirectiveMoved ==
  ASSUME NEW t, NEW u, NEW s, NEW e, NEW a, Apart(t, u, s, e, a), NEW h \in Directives(t)
  PROVE  Moved(h, s, e, a) \in Directives(u)
<1> DEFINE o == h.start
           d == By(o, s, e, a)
           m == Moved(h, s, e, a)
<1>1. /\ Plain(t) /\ Plain(u) /\ Len(t) \in Nat /\ Len(u) \in Nat
      /\ s \in Nat /\ e \in Nat /\ a \in Nat /\ s <= e /\ s <= a
      /\ e <= Len(t) /\ a <= Len(u) /\ Alike(t, u, s, e, a)
  BY DEF Apart, Alike, Plain
<1>2. /\ h = ByteRange(o, h.end) /\ IsHash(t, o, h.end) /\ h \in Tokens(t)
  BY <1>1, DirectiveIs
<1>3. PICK l \in 0..o : /\ LineStart(t, l) /\ OnlyGaps(t, l, o)
                        /\ Away(ByteRange(l, h.end), s, e) /\ (l > e <=> o > e)
  BY DirectiveAside
<1>4. /\ o \in Nat /\ o < Len(t) /\ h.end = o + 1 /\ l \in Nat /\ l <= o
      /\ At(t, o) = "#" /\ IsHash(t, o, o + 1) /\ Away(h, s, e)
  BY <1>2, <1>3, DirectiveAside DEF IsHash
<1> HIDE DEF o
<1>5. Away(ByteRange(l, o + 1), s, e) /\ By(l, s, e, a) = d
  BY <1>3, <1>4 DEF By
<1>6. /\ d \in Int /\ l + d \in Nat /\ o + 1 + d \in Nat /\ o + 1 + d <= Len(u)
      /\ l > 0 <=> l + d > 0
      /\ \A p \in l..o : At(u, p + d) = At(t, p)
      /\ \A p \in l + d..o + d : p - d \in l..o /\ At(u, p) = At(t, p - d)
      /\ l > 0 => At(u, l + d - 1) = At(t, l - 1)
  <2>1. o + 1 \in Nat /\ l <= o + 1 /\ o + 1 <= Len(t) /\ o + 1 - 1 = o
    BY <1>1, <1>4
  <2>2. /\ d \in Int /\ l + d \in Nat /\ o + 1 + d \in Nat /\ o + 1 + d <= Len(u)
        /\ l > 0 <=> l + d > 0
        /\ \A p \in l..o + 1 - 1 : At(u, p + d) = At(t, p)
        /\ \A p \in l + d..o + 1 + d - 1 : p - d \in l..o + 1 - 1 /\ At(u, p) = At(t, p - d)
        /\ l > 0 => At(u, l + d - 1) = At(t, l - 1)
    <3> HIDE DEF d
    <3> DEFINE r == o + 1
    <3>1. r \in Nat /\ l <= r /\ r <= Len(t) /\ Away(ByteRange(l, r), s, e)
      BY <1>5, <2>1
    <3> HIDE DEF r
    <3> DEFINE c == By(l, s, e, a)
    <3>2. /\ Alike(t, u, s, e, a) /\ l \in Nat /\ r \in Nat /\ l <= r /\ r <= Len(t)
          /\ Away(ByteRange(l, r), s, e)
      BY <1>1, <1>4, <3>1
    <3>3. /\ c \in Int /\ l + c \in Nat /\ r + c \in Nat /\ r + c <= Len(u)
          /\ l > 0 <=> l + c > 0
          /\ \A p \in l..r - 1 : At(u, p + c) = At(t, p)
          /\ \A p \in l + c..r + c - 1 : p - c \in l..r - 1 /\ At(u, p) = At(t, p - c)
          /\ l > 0 => At(u, l + c - 1) = At(t, l - 1)
      BY ONLY <3>2, AlikeThere
    <3>4. c = d
      BY <1>5
    <3> HIDE DEF c
    <3> QED BY <1>4, <3>3, <3>4 DEF r
  <2> HIDE DEF d
  <2>3. l..o + 1 - 1 = l..o /\ l + d..o + 1 + d - 1 = l + d..o + d
    BY <1>4, <2>2
  <2> QED BY <2>2, <2>3
<1> HIDE DEF d
<1>7. m = ByteRange(o + d, o + d + 1) /\ m.start = o + d /\ m.end = o + d + 1
  <2>1. m = ByteRange(o + d, h.end + d)
    BY <1>1, <1>2, <1>4, TokenMoves DEF o, d
  <2>2. h.end + d = o + d + 1
    BY <1>4, <1>6
  <2> QED BY <2>1, <2>2 DEF ByteRange
<1>8. m \in Directives(u)
  <2>1. IsHash(u, o + d, o + d + 1)
    <3>1. o + d \in Nat /\ o + d < Len(u) /\ o \in l..o
      BY <1>1, <1>4, <1>6
    <3> QED BY <1>4, <1>6, <3>1 DEF IsHash
  <2>2. l + d \in 0..o + d
    BY <1>4, <1>6
  <2>3. LineStart(u, l + d)
    BY <1>3, <1>6 DEF LineStart
  <2>4. OnlyGaps(u, l + d, o + d)
    <3> SUFFICES ASSUME NEW p \in l + d..o + d - 1 PROVE At(u, p) \in Blanks \/ At(u, p) = "continued"
      BY <1>4, <1>6 DEF OnlyGaps
    <3>1. p \in l + d..o + d /\ p - d \in l..o - 1
      BY <1>4, <1>6
    <3> QED BY <1>3, <1>6, <3>1 DEF OnlyGaps
  <2> QED BY <1>1, <1>7, <2>1, <2>2, <2>3, <2>4, IsADirective
<1> QED BY <1>8 DEF m

\* So is what is on its line, or on the line of a token on its side.
LEMMA RestMoves ==
  ASSUME NEW t, NEW u, NEW s, NEW e, NEW a, Alike(t, u, s, e, a),
         NEW k \in Tokens(t), Away(k, s, e), NEW l \in RestOfLine(t, k), SideOf(k.start, l, s, e)
  PROVE  Moved(l, s, e, a) \in RestOfLine(u, Moved(k, s, e, a))
<1>1. l \in Tokens(t) /\ k.end <= l.start /\ SameLine(t, k, l)
  BY DEF RestOfLine, Following
<1> QED BY <1>1, LineMoves DEF RestOfLine, Following

\* A directive that ends its line still does.
LEMMA EndOfLineMoves ==
  ASSUME NEW t, NEW u, NEW s, NEW e, NEW a, Apart(t, u, s, e, a), NEW h \in Directives(t)
  PROVE  RestOfLine(u, Moved(h, s, e, a)) = {} <=> RestOfLine(t, h) = {}
<1>1. ASSUME NEW x, NEW y, NEW b, NEW c, Apart(x, y, s, b, c), NEW g \in Directives(x),
             RestOfLine(x, g) # {}
      PROVE  RestOfLine(y, Moved(g, s, b, c)) # {}
  <2>1. PICK k \in RestOfLine(x, g) : TRUE
    BY <1>1
  <2>2. Plain(x) /\ Alike(x, y, s, b, c)
    BY <1>1 DEF Apart, Alike
  <2>3. k \in Operands(x, g)
    BY <1>1, <2>2, OperandsAre
  <2>4. g \in Tokens(x) /\ Away(g, s, b) /\ SideOf(g.start, k, s, b)
    BY <1>1, <2>3, DirectiveAside
  <2>5. Moved(k, s, b, c) \in RestOfLine(y, Moved(g, s, b, c))
    BY <2>2, <2>4, RestMoves
  <2> QED BY <2>5
<1>2. Apart(u, t, s, a, e) /\ Moved(h, s, e, a) \in Directives(u)
  BY ApartBack, DirectiveMoved
<1>3. Moved(Moved(h, s, e, a), s, a, e) = h
  BY DirectiveAside, TokenMoves DEF Apart
<1> QED BY <1>1, <1>2, <1>3

\* The token behind a directive is moved to the one behind it.
LEMMA NextMoves ==
  ASSUME NEW t, NEW u, NEW s, NEW e, NEW a, Apart(t, u, s, e, a), NEW h \in Directives(t),
         Following(t, h) # {}
  PROVE  LET m == Moved(h, s, e, a)
         IN Following(u, m) # {} /\ First(Following(u, m)) = Moved(First(Following(t, h)), s, e, a)
<1> DEFINE m == Moved(h, s, e, a)
           d == By(h.start, s, e, a)
           N == First(Following(t, h))
           n == Moved(N, s, e, a)
           F == First(Following(u, m))
           Onward(x, y, b, c, g) ==
             LET f == First(Following(x, g))
             IN /\ f \in Tokens(x) /\ Moved(f, s, b, c) \in Following(y, Moved(g, s, b, c))
                /\ Moved(f, s, b, c).start = f.start + By(g.start, s, b, c)
                /\ Away(f, s, b) /\ Away(g, s, b) /\ g \in Tokens(x)
<1> HIDE DEF Onward
\* One way, of any two texts.
<1>1. ASSUME NEW x, NEW y, NEW b, NEW c, Apart(x, y, s, b, c), NEW g \in Directives(x),
             Following(x, g) # {}
      PROVE  Onward(x, y, b, c, g)
  <2> DEFINE f == First(Following(x, g))
  <2>1. Plain(x) /\ Alike(x, y, s, b, c)
    BY <1>1 DEF Apart, Alike
  <2>2. f \in Following(x, g)
    <3>1. Following(x, g) \in SUBSET Tokens(x)
      BY DEF Following
    <3> QED BY <1>1, <2>1, <3>1, FirstIs
  <2>3. g \in Tokens(x) /\ Away(g, s, b) /\ SideOf(g.start, f, s, b)
    BY <1>1, DirectiveAside
  <2> HIDE DEF f
  <2>4. f \in Tokens(x) /\ g.end <= f.start
    BY <2>2 DEF Following
  <2>5. /\ Moved(f, s, b, c) \in Tokens(y)
        /\ Moved(g, s, b, c).end <= Moved(f, s, b, c).start
        /\ Moved(f, s, b, c).start = f.start + By(g.start, s, b, c)
    BY <2>1, <2>3, <2>4, LineMoves
  <2>6. Moved(f, s, b, c) \in Following(y, Moved(g, s, b, c))
    BY <2>5 DEF Following
  <2>7. Away(f, s, b)
    BY <2>3 DEF SideOf
  <2> QED BY <2>3, <2>4, <2>5, <2>6, <2>7 DEF f, Onward
<1>2. Apart(u, t, s, a, e) /\ m \in Directives(u) /\ Plain(t) /\ Plain(u) /\ Alike(t, u, s, e, a)
  <2>1. Apart(u, t, s, a, e) /\ m \in Directives(u)
    BY ApartBack, DirectiveMoved
  <2> QED BY <2>1 DEF Apart, Alike
<1>3. /\ N \in Tokens(t) /\ n \in Following(u, m) /\ n.start = N.start + d
      /\ Away(h, s, e) /\ h \in Tokens(t)
  <2>1. Onward(t, u, e, a, h)
    BY <1>1
  <2> QED BY <2>1 DEF Onward
<1>4. /\ Moved(m, s, a, e) = h /\ m.start = h.start + d /\ d \in Int
      /\ By(m.start, s, a, e) = 0 - d
  <2>1. /\ Moved(m, s, a, e) = h /\ m.start = h.start + d /\ d \in Int
    BY <1>2, <1>3, TokenMoves
  <2>2. /\ h = ByteRange(h.start, h.end) /\ h.start \in Nat /\ h.end \in Nat /\ h.start < h.end
        /\ s \in Nat /\ e \in Nat /\ a \in Nat /\ s <= e /\ s <= a
    BY <1>2, <1>3, TokenIs DEF Alike
  <2>3. By(h.start + d, s, a, e) = 0 - d
    BY <1>3, <2>2, MovedIs
  <2> QED BY <2>1, <2>3
<1> HIDE DEF m, n, d
<1>5. /\ F \in Tokens(u) /\ Moved(F, s, a, e) \in Following(t, h)
      /\ Moved(F, s, a, e).start = F.start - d
  <2>1. /\ F \in Tokens(u) /\ Moved(F, s, a, e) \in Following(t, Moved(m, s, a, e))
        /\ Moved(F, s, a, e).start = F.start + By(m.start, s, a, e)
    <3>1. Onward(u, t, a, e, m)
      BY <1>1, <1>2, <1>3
    <3> QED BY <3>1 DEF Onward
  <2>2. F.start \in Nat
    BY <1>2, <2>1, TokenIs
  <2>3. F.start + (0 - d) = F.start - d
    BY <1>4, <2>2
  <2> QED BY <1>4, <2>1, <2>3
<1>6. N.start <= Moved(F, s, a, e).start /\ F.start <= n.start /\ n \in Tokens(u)
  <2>1. Following(t, h) \in SUBSET Tokens(t) /\ Following(u, m) \in SUBSET Tokens(u)
    BY DEF Following
  <2>2. \A k \in Following(t, h) : N.start <= k.start
    BY <1>2, <2>1, FirstIs
  <2>3. \A k \in Following(u, m) : F.start <= k.start
    BY <1>2, <1>3, <2>1, FirstIs
  <2> QED BY <1>3, <1>5, <2>1, <2>2, <2>3
<1> HIDE DEF N, F
<1>7. F.start = n.start
  <2>1. F.start \in Nat /\ N.start \in Nat
    BY <1>2, <1>3, <1>5, TokenIs
  <2> QED BY <1>3, <1>4, <1>5, <1>6, <2>1
<1>8. F = n
  BY <1>2, <1>5, <1>6, <1>7, SameStart
<1> QED BY <1>3, <1>8 DEF m, n, N, F

\* A directive and its operands are on one side of the edit.
LEMMA DirectiveMoves ==
  ASSUME NEW t, NEW u, NEW s, NEW e, NEW a, Apart(t, u, s, e, a), NEW h \in Directives(t)
  PROVE  /\ h \in Tokens(t) /\ Away(h, s, e) /\ Moved(h, s, e, a) \in Directives(u)
         /\ \A k \in Operands(t, h) :
              /\ k \in Tokens(t) /\ Away(k, s, e)
              /\ k.start > e <=> h.start > e
              /\ Moved(k, s, e, a) \in Operands(u, Moved(h, s, e, a))
<1> DEFINE m == Moved(h, s, e, a)
           N == First(Following(t, h))
           n == Moved(N, s, e, a)
<1>1. Plain(t) /\ Plain(u) /\ Alike(t, u, s, e, a)
  BY DEF Apart, Alike
<1>2. /\ h \in Tokens(t) /\ Away(h, s, e)
      /\ Following(t, h) # {} => SideOf(h.start, N, s, e)
      /\ \A k \in Operands(t, h) : SideOf(h.start, k, s, e)
  BY DirectiveAside
<1>3. m \in Directives(u) /\ (RestOfLine(u, m) = {} <=> RestOfLine(t, h) = {})
  BY DirectiveMoved, EndOfLineMoves
<1>4. Following(t, h) # {} => Following(u, m) # {} /\ First(Following(u, m)) = n
  BY NextMoves
<1>5. Operands(t, h) \subseteq Tokens(t)
  BY <1>1, OperandsAre
<1> HIDE DEF m, n
<1>6. ASSUME NEW k \in Operands(t, h) PROVE Moved(k, s, e, a) \in Operands(u, m)
  <2>1. CASE k \in RestOfLine(t, h)
    <3>1. Moved(k, s, e, a) \in RestOfLine(u, m)
      BY <1>1, <1>2, <2>1, RestMoves DEF m
    <3> QED BY <1>1, <3>1, OperandsAre
  <2>2. CASE k \notin RestOfLine(t, h)
    <3>1. /\ RestOfLine(t, h) = {} /\ Following(t, h) # {} /\ N \in Words(t) /\ N \in Tokens(t)
          /\ k = N \/ k \in RestOfLine(t, N)
      BY <1>1, <2>2, OperandsAre DEF Tokens
    <3>2. SideOf(h.start, N, s, e) /\ Away(N, s, e) /\ SideOf(N.start, k, s, e)
      BY <1>2, <3>1 DEF SideOf
    <3>3. n \in Words(u)
      BY <1>1, <3>1, <3>2, TokenMoves DEF n
    <3>4. Operands(u, m) = {n} \cup RestOfLine(u, n)
      BY <1>1, <1>3, <1>4, <3>1, <3>3, OperandsAre
    <3>5. CASE k \in RestOfLine(t, N)
      <4>1. Moved(k, s, e, a) \in RestOfLine(u, n)
        BY <1>1, <3>1, <3>2, <3>5, RestMoves DEF n
      <4> QED BY <3>4, <4>1
    <3> QED BY <3>1, <3>4, <3>5 DEF n
  <2> QED BY <2>1, <2>2
<1> QED BY <1>2, <1>3, <1>5, <1>6 DEF m, SideOf

\* The operands are those of the moved directive, in the same order and
\* with the same characters.
LEMMA OperandsMove ==
  ASSUME NEW t, NEW u, NEW s, NEW e, NEW a, Apart(t, u, s, e, a), NEW h \in Directives(t)
  PROVE  LET m == Moved(h, s, e, a)
             d == By(h.start, s, e, a)
         IN /\ Operands(u, m) = {Moved(k, s, e, a) : k \in Operands(t, h)}
            /\ m.start = h.start + d
            /\ \A k \in Operands(t, h) :
                 LET n == Moved(k, s, e, a)
                 IN /\ n \in Tokens(u) /\ Slice(u, n) = Slice(t, k)
                    /\ n \in Words(u) <=> k \in Words(t)
                    /\ Moved(n, s, a, e) = k
                    /\ n.start = k.start + d /\ n.end = k.end + d
                    /\ d \in Int /\ k.start \in Nat /\ k.end \in Nat
<1> DEFINE m == Moved(h, s, e, a)
           d == By(h.start, s, e, a)
<1>1. /\ Alike(t, u, s, e, a) /\ Alike(u, t, s, a, e) /\ Apart(u, t, s, a, e)
      /\ Plain(t) /\ Plain(u)
  BY AlikeBack, ApartBack DEF Apart, Alike
<1>2. /\ h \in Tokens(t) /\ Away(h, s, e) /\ m \in Directives(u)
      /\ \A k \in Operands(t, h) :
           /\ k \in Tokens(t) /\ Away(k, s, e)
           /\ k.start > e <=> h.start > e
           /\ Moved(k, s, e, a) \in Operands(u, m)
  BY DirectiveMoves
<1>3. m.start = h.start + d /\ Moved(m, s, a, e) = h
  BY <1>1, <1>2, TokenMoves
<1> HIDE DEF m
<1>4. ASSUME NEW k \in Operands(t, h)
      PROVE  LET n == Moved(k, s, e, a)
             IN /\ n \in Tokens(u) /\ Slice(u, n) = Slice(t, k)
                /\ n \in Words(u) <=> k \in Words(t)
                /\ Moved(n, s, a, e) = k
                /\ n.start = k.start + d /\ n.end = k.end + d
                /\ d \in Int /\ k.start \in Nat /\ k.end \in Nat
  <2>1. By(k.start, s, e, a) = d
    BY <1>2 DEF By
  <2>2. k.start \in Nat /\ k.end \in Nat
    BY <1>1, <1>2, TokenIs
  <2> QED BY <1>1, <1>2, <2>1, <2>2, TokenMoves
<1>5. ASSUME NEW n \in Operands(u, m)
      PROVE  n \in {Moved(k, s, e, a) : k \in Operands(t, h)}
  <2>1. /\ n \in Tokens(u) /\ Away(n, s, a)
        /\ Moved(n, s, a, e) \in Operands(t, Moved(m, s, a, e))
    BY <1>1, <1>2, DirectiveMoves
  <2>2. Moved(Moved(n, s, a, e), s, e, a) = n
    BY <1>1, <2>1, TokenMoves
  <2> QED BY <1>3, <2>1, <2>2
<1> QED BY <1>2, <1>3, <1>4, <1>5 DEF m

\* The name is moved with its directive, which has one where it had one.
LEMMA NameMoves ==
  ASSUME NEW t, NEW u, NEW s, NEW e, NEW a, Apart(t, u, s, e, a), NEW h \in Directives(t)
  PROVE  LET m == Moved(h, s, e, a)
         IN /\ HasName(u, m) <=> HasName(t, h)
            /\ Operands(t, h) # {} =>
                 /\ First(Operands(t, h)) \in Operands(t, h)
                 /\ First(Operands(u, m)) = Moved(First(Operands(t, h)), s, e, a)
<1> DEFINE m == Moved(h, s, e, a)
           d == By(h.start, s, e, a)
           k == First(Operands(t, h))
           n == Moved(k, s, e, a)
<1>1. Plain(t) /\ Plain(u)
  BY DEF Apart, Alike
<1>2. /\ Operands(u, m) = {Moved(l, s, e, a) : l \in Operands(t, h)}
      /\ \A l \in Operands(t, h) :
           /\ Moved(l, s, e, a).start = l.start + d
           /\ Moved(l, s, e, a) \in Words(u) <=> l \in Words(t)
           /\ d \in Int /\ l.start \in Nat
  BY OperandsMove
<1>3. Operands(t, h) \in SUBSET Tokens(t) /\ Operands(u, m) \in SUBSET Tokens(u)
  BY <1>1, OperandsAre
<1>4. CASE Operands(t, h) = {}
  BY <1>2, <1>4 DEF HasName
<1>5. CASE Operands(t, h) # {}
  <2>1. k \in Operands(t, h) /\ \A l \in Operands(t, h) : k.start <= l.start
    BY <1>1, <1>3, <1>5, FirstIs
  <2> HIDE DEF m, d, k
  <2>2. n \in Operands(u, m)
    BY <1>2, <2>1
  <2>3. ASSUME NEW j \in Operands(u, m) PROVE n.start <= j.start
    <3>1. PICK l \in Operands(t, h) : j = Moved(l, s, e, a)
      BY <1>2
    <3>2. j.start = l.start + d /\ n.start = k.start + d /\ k.start <= l.start
          /\ d \in Int /\ l.start \in Nat /\ k.start \in Nat
      BY <1>2, <2>1, <3>1
    <3> QED BY <3>2
  <2> HIDE DEF n
  <2>4. n = First(Operands(u, m))
    BY <1>1, <1>3, <2>2, <2>3, FirstIs
  <2>5. n \in Words(u) <=> k \in Words(t)
    BY <1>2, <2>1 DEF n
  <2>6. HasName(u, m) <=> HasName(t, h)
    BY <1>5, <2>2, <2>4, <2>5 DEF HasName, k
  <2> QED BY <2>1, <2>4, <2>6 DEF m, k, n
<1> QED BY <1>4, <1>5

\* A text has finitely many tokens.
LEMMA TokensFinite ==
  ASSUME NEW t, Plain(t), NEW T \in SUBSET Tokens(t)
  PROVE  IsFiniteSet(T)
<1> DEFINE f == [k \in T |-> k.start]
<1>1. Len(t) \in Nat
  BY DEF Plain
<1>2. \A k \in T : k.start \in 0..Len(t)
  BY <1>1, TokenIs
<1>3. f \in [T -> 0..Len(t)] /\ \A k, l \in T : f[k] = f[l] => k = l
  BY <1>2, SameStart
<1> HIDE DEF f
<1>4. f \in Injection(T, 0..Len(t))
  BY <1>3 DEF Injection, IsInjective
<1>5. IsFiniteSet(0..Len(t))
  BY <1>1, FS_Interval
<1> QED BY <1>4, <1>5, FS_Injection

\* What stands before a token of the body is counted alike.
LEMMA CountedAlike ==
  ASSUME NEW t, Plain(t), NEW T \in SUBSET Tokens(t), NEW f, NEW U,
         f = [k \in T |-> f[k]], U = {f[k] : k \in T}, \A k, l \in T : f[k] = f[l] => k = l
  PROVE  Cardinality(U) = Cardinality(T)
<1>1. f \in [T -> U] /\ \A n \in U : \E k \in T : f[k] = n
  BY Zenon
<1>2. f \in Bijection(T, U)
  BY <1>1 DEF Bijection, Injection, Surjection, IsInjective
<1>3. ExistsBijection(T, U)
  BY <1>2, Zenon DEF ExistsBijection
<1> QED BY <1>3, TokensFinite, FS_Bijection

MovedDefinition(d, s, e, a) == [d EXCEPT !.span = Moved(d.span, s, e, a)]

\* A definition away from the edit is the same one, with its span moved.
LEMMA DefinitionMoves ==
  ASSUME NEW t, NEW u, NEW s, NEW e, NEW a, Apart(t, u, s, e, a), NEW h \in Directives(t),
         HasName(t, h)
  PROVE  LET c == Definition(t, h)
         IN /\ Definition(u, Moved(h, s, e, a)) = MovedDefinition(c, s, e, a)
            /\ c.span = ByteRange(c.span.start, c.span.end) /\ c.span.start = h.start
            /\ c.span.start \in Nat /\ c.span.end \in Nat /\ c.span.start <= c.span.end
            /\ Away(c.span, s, e)
<1> DEFINE m == Moved(h, s, e, a)
           d == By(h.start, s, e, a)
           M(k) == Moved(k, s, e, a)
           name == First(Operands(t, h))
           Body == Operands(t, h) \ {name}
           Low(k) == {l \in Body : l.start < k.start}
           BodyU == Operands(u, m) \ {First(Operands(u, m))}
           LowU(k) == {l \in BodyU : l.start < k.start}
<1>1. /\ Plain(t)
      /\ s \in Nat /\ e \in Nat /\ a \in Nat /\ s <= e /\ s <= a
  BY DEF Apart, Alike
<1>2. /\ h \in Tokens(t) /\ Away(h, s, e) /\ m \in Directives(u)
      /\ \A k \in Operands(t, h) :
           k \in Tokens(t) /\ Away(k, s, e) /\ (k.start > e <=> h.start > e)
  BY DirectiveMoves
<1>3. /\ Operands(u, m) = {M(k) : k \in Operands(t, h)}
      /\ m.start = h.start + d
      /\ \A k \in Operands(t, h) :
           /\ Slice(u, M(k)) = Slice(t, k) /\ Moved(M(k), s, a, e) = k
           /\ M(k).start = k.start + d /\ M(k).end = k.end + d
           /\ d \in Int /\ k.start \in Nat /\ k.end \in Nat
  BY OperandsMove
<1>4. First(Operands(u, m)) = M(name) /\ name \in Operands(t, h)
  BY NameMoves DEF HasName
<1>5. h.start \in Nat /\ h.end \in Nat /\ h.start < h.end /\ h = ByteRange(h.start, h.end)
  BY <1>1, <1>2, TokenIs
<1> HIDE DEF m, d, M, name
<1>6. \A k, l \in Operands(t, h) : M(k) = M(l) => k = l
  BY <1>3 DEF M
<1>7. BodyU = {M(k) : k \in Body}
  <2>1. Operands(u, m) = {M(k) : k \in Operands(t, h)}
    BY <1>3
  <2>2. \A k \in Operands(t, h) : M(k) # M(name) <=> k # name
    BY <1>4, <1>6
  <2>3. Operands(u, m) \ {M(name)} = {M(k) : k \in Operands(t, h) \ {name}}
    BY ONLY <2>1, <2>2
  <2> QED BY <1>4, <2>3
<1>8. ASSUME NEW k \in Body PROVE Cardinality(LowU(M(k))) = Cardinality(Low(k))
  <2> DEFINE f == [l \in Low(k) |-> M(l)]
  <2>1. ASSUME NEW l \in Body PROVE M(l).start < M(k).start <=> l.start < k.start
    BY <1>3
  <2>2. LowU(M(k)) = {M(l) : l \in Low(k)}
    BY <1>7, <2>1
  <2>3. /\ f = [l \in Low(k) |-> f[l]] /\ LowU(M(k)) = {f[l] : l \in Low(k)}
        /\ \A l, j \in Low(k) : f[l] = f[j] => l = j
    BY <1>6, <2>2
  <2>4. Low(k) \in SUBSET Tokens(t)
    BY <1>2
  <2> HIDE DEF f, Low, LowU, Body
  <2> QED BY <1>1, <2>3, <2>4, CountedAlike
<1>9. ASSUME NEW k \in Body
      PROVE  (\E l \in BodyU : l.end = M(k).start) <=> \E l \in Body : l.end = k.start
  <2>1. ASSUME NEW l \in Body PROVE M(l).end = M(k).start <=> l.end = k.start
    BY <1>3
  <2> QED BY <1>7, <2>1
<1> DEFINE Tell(k) == <<Cardinality(Low(k)), Slice(t, k), \E l \in Body : l.end = k.start>>
           TellU(k) == <<Cardinality(LowU(k)), Slice(u, k), \E l \in BodyU : l.end = k.start>>
<1>10. \A k \in Body : TellU(M(k)) = Tell(k)
  BY <1>3, <1>8, <1>9
<1>11. {TellU(k) : k \in BodyU} = {Tell(k) : k \in Body}
  <2> HIDE DEF Tell, TellU, Body, BodyU
  <2> QED BY <1>7, <1>10
<1>12. /\ Away(ByteRange(h.start, name.end), s, e) /\ h.start <= name.end
       /\ name.end \in Nat /\ name.start \in Nat /\ name.start >= h.end /\ name.end > name.start
  <2>1. /\ name \in Tokens(t) /\ name.start \in Nat /\ name.end \in Nat
        /\ name.start < name.end /\ name.start >= h.end
        /\ Away(name, s, e) /\ (name.start > e <=> h.start > e)
    <3>1. name \in Tokens(t) /\ Away(name, s, e) /\ (name.start > e <=> h.start > e)
      BY <1>2, <1>4
    <3>2. name \in Following(t, h)
      BY <1>1, <1>2, <1>4, OperandsBehind
    <3> QED BY <1>1, <3>1, <3>2, TokenIs DEF Following
  <2> QED BY <1>1, <1>5, <2>1 DEF Away, ByteRange
<1>13. Moved(ByteRange(h.start, name.end), s, e, a) = ByteRange(m.start, M(name).end)
  <2>1. Moved(ByteRange(h.start, name.end), s, e, a) = ByteRange(h.start + d, name.end + d)
    BY <1>1, <1>5, <1>12, MovedIs DEF d
  <2> QED BY <1>3, <1>4, <2>1
<1>14. Definition(t, h) = [name |-> Slice(t, name), body |-> {Tell(k) : k \in Body},
                           span |-> ByteRange(h.start, name.end)]
  BY DEF Definition, name
<1>15. Definition(u, m) = [name |-> Slice(u, M(name)), body |-> {TellU(k) : k \in BodyU},
                           span |-> ByteRange(m.start, M(name).end)]
  BY <1>4 DEF Definition
<1> HIDE DEF Tell, TellU, Body, BodyU
<1>16. Slice(u, M(name)) = Slice(t, name)
  BY <1>3, <1>4
<1>17. Definition(u, m) = MovedDefinition(Definition(t, h), s, e, a)
  <2> DEFINE c == Definition(t, h)
  <2>1. MovedDefinition(c, s, e, a) =
          [name |-> c.name, body |-> c.body, span |-> Moved(c.span, s, e, a)]
    BY <1>14 DEF MovedDefinition
  <2>2. c.name = Slice(t, name) /\ c.body = {Tell(k) : k \in Body}
        /\ c.span = ByteRange(h.start, name.end)
    BY <1>14
  <2> HIDE DEF c
  <2>3. MovedDefinition(c, s, e, a) =
          [name |-> Slice(u, M(name)), body |-> {TellU(k) : k \in BodyU},
           span |-> ByteRange(m.start, M(name).end)]
    BY <1>11, <1>13, <1>16, <2>1, <2>2
  <2> QED BY <1>15, <2>3 DEF c
<1>18. LET c == Definition(t, h)
       IN c.span = ByteRange(h.start, name.end) /\ c.span.start = h.start /\ c.span.end = name.end
  BY <1>14 DEF ByteRange
<1> QED BY <1>5, <1>12, <1>17, <1>18 DEF m
----------------------------------------------------------------------------
\* What is known of a definition, and that moving it there and back is nothing.
LEMMA DefinesMove ==
  ASSUME NEW t, NEW u, NEW s, NEW e, NEW a, Apart(t, u, s, e, a), NEW c \in Defines(t)
  PROVE  LET m == MovedDefinition(c, s, e, a)
         IN /\ c.span = ByteRange(c.span.start, c.span.end) /\ Away(c.span, s, e)
            /\ c.span.start \in Nat /\ c.span.end \in Nat /\ c.span.start <= c.span.end
            /\ m \in Defines(u) /\ MovedDefinition(m, s, a, e) = c
            /\ m.name = c.name /\ m.body = c.body /\ m.span = Moved(c.span, s, e, a)
            /\ m.span.start = c.span.start + By(c.span.start, s, e, a)
            /\ By(c.span.start, s, e, a) \in Int
<1> DEFINE m == MovedDefinition(c, s, e, a)
           d == By(c.span.start, s, e, a)
<1>1. PICK h \in Directives(t) : HasName(t, h) /\ c = Definition(t, h)
  BY DEF Defines
<1>2. /\ s \in Nat /\ e \in Nat /\ a \in Nat /\ s <= e /\ s <= a
      /\ Plain(t) /\ Alike(t, u, s, e, a)
  BY DEF Apart, Alike
<1>3. /\ Definition(u, Moved(h, s, e, a)) = m
      /\ c.span = ByteRange(c.span.start, c.span.end)
      /\ c.span.start \in Nat /\ c.span.end \in Nat /\ c.span.start <= c.span.end
      /\ Away(c.span, s, e)
  BY <1>1, DefinitionMoves
<1>4. Moved(h, s, e, a) \in Directives(u)
  BY DirectiveMoves
<1>5. HasName(u, Moved(h, s, e, a))
  BY <1>1, NameMoves
<1>6. m \in Defines(u)
  BY <1>3, <1>4, <1>5 DEF Defines
<1>7. /\ Moved(c.span, s, e, a) = ByteRange(c.span.start + d, c.span.end + d)
      /\ Moved(Moved(c.span, s, e, a), s, a, e) = c.span /\ d \in Int
  BY <1>2, <1>3, MovedIs
<1>8. c = [name |-> c.name, body |-> c.body, span |-> c.span]
  BY <1>1 DEF Definition
<1>9. m = [name |-> c.name, body |-> c.body, span |-> Moved(c.span, s, e, a)]
  BY <1>8 DEF MovedDefinition
<1> HIDE DEF m, d
<1>10. m.name = c.name /\ m.body = c.body /\ m.span = Moved(c.span, s, e, a)
  BY <1>9
<1>11. MovedDefinition(m, s, a, e) =
         [name |-> m.name, body |-> m.body, span |-> Moved(m.span, s, a, e)]
  BY <1>9 DEF MovedDefinition
<1>12. MovedDefinition(m, s, a, e) = c
  BY <1>7, <1>8, <1>10, <1>11
<1>13. m.span.start = c.span.start + d
  BY <1>7, <1>10 DEF ByteRange
<1> QED BY <1>3, <1>6, <1>7, <1>10, <1>12, <1>13 DEF m, d

\* Hence the definitions of the edited text are those moved.
LEMMA DefinesAre ==
  ASSUME NEW t, NEW u, NEW s, NEW e, NEW a, Apart(t, u, s, e, a)
  PROVE  Defines(u) = {MovedDefinition(c, s, e, a) : c \in Defines(t)}
<1>1. \A c \in Defines(t) : MovedDefinition(c, s, e, a) \in Defines(u)
  BY DefinesMove
<1>2. ASSUME NEW c \in Defines(u)
      PROVE  /\ MovedDefinition(c, s, a, e) \in Defines(t)
             /\ MovedDefinition(MovedDefinition(c, s, a, e), s, e, a) = c
  BY ApartBack, DefinesMove
<1> QED BY <1>1, <1>2

\* Moving keeps the order of what is away from the edit.
LEMMA OrderStays ==
  ASSUME NEW s \in Nat, NEW e \in Nat, NEW a \in Nat, s <= e, s <= a,
         NEW p \in Nat, NEW q \in Nat, p < s \/ p > e, q < s \/ q > e
  PROVE  p + By(p, s, e, a) < q + By(q, s, e, a) <=> p < q
BY DEF By

\* A definition is known by where it begins.
LEMMA SameSpan ==
  ASSUME NEW t, Plain(t), NEW c \in Defines(t), NEW b \in Defines(t),
         c.span.start = b.span.start
  PROVE  c = b
<1>1. PICK h \in Directives(t) : c = Definition(t, h)
  BY DEF Defines
<1>2. PICK g \in Directives(t) : b = Definition(t, g)
  BY DEF Defines
<1>3. c.span.start = h.start /\ b.span.start = g.start
  BY <1>1, <1>2 DEF Definition, ByteRange
<1>4. h = g
  BY <1>3, DirectiveIs, SameStart
<1> QED BY <1>1, <1>2, <1>4

\* The latest definition.
LEMMA LastIs ==
  ASSUME NEW t, Plain(t), NEW D \in SUBSET Defines(t), D # {}
  PROVE  /\ Last(D) \in D
         /\ \A c \in D : c.span.start \in Nat
         /\ \A c \in D : (\A b \in D : b.span.start <= c.span.start) <=> c = Last(D)
<1> DEFINE Starts == {c.span.start : c \in D}
<1>1. Len(t) \in Nat
  BY DEF Plain
<1>2. ASSUME NEW c \in D PROVE c.span.start \in 0..Len(t)
  <2>1. PICK h \in Directives(t) : c = Definition(t, h)
    BY DEF Defines
  <2>2. c.span.start = h.start
    BY <2>1 DEF Definition, ByteRange
  <2>3. IsHash(t, h.start, h.end)
    BY DirectiveIs
  <2> QED BY <1>1, <2>2, <2>3 DEF IsHash
<1>3. Starts \in SUBSET (0..Len(t)) /\ Starts # {}
  BY <1>2
<1>4. Greatest(Starts) \in Starts /\ \A p \in Starts : p <= Greatest(Starts)
  BY <1>1, <1>3, GreatestIs
<1>5. PICK c \in D : c.span.start = Greatest(Starts)
  BY <1>4
<1>6. \A b \in D : b.span.start <= c.span.start
  BY <1>4, <1>5
<1>7. Last(D) \in D /\ \A b \in D : b.span.start <= Last(D).span.start
  BY <1>6 DEF Last
<1>8. ASSUME NEW b \in D, \A f \in D : f.span.start <= b.span.start
      PROVE  b = Last(D)
  <2>1. b.span.start = Last(D).span.start
    BY <1>2, <1>7, <1>8
  <2> QED BY <1>7, <2>1, SameSpan
<1> QED BY <1>2, <1>7, <1>8

\* The last of some definitions stays the last of them.
LEMMA LastMoves ==
  ASSUME NEW t, NEW u, NEW s, NEW e, NEW a, Apart(t, u, s, e, a),
         NEW D \in SUBSET Defines(t), D # {}
  PROVE  Last({MovedDefinition(c, s, e, a) : c \in D}) = MovedDefinition(Last(D), s, e, a)
<1> DEFINE M(c) == MovedDefinition(c, s, e, a)
           E == {M(c) : c \in D}
<1>1. /\ s \in Nat /\ e \in Nat /\ a \in Nat /\ s <= e /\ s <= a
      /\ Plain(t) /\ Plain(u)
  BY DEF Apart, Alike
<1>2. Last(D) \in D /\ \A b \in D : b.span.start <= Last(D).span.start
  BY <1>1, LastIs
<1>3. ASSUME NEW c \in D, NEW b \in D
      PROVE  M(b).span.start < M(c).span.start <=> b.span.start < c.span.start
  <2>1. ASSUME NEW f \in D
        PROVE  /\ f.span.start \in Nat
               /\ f.span.start < s \/ f.span.start > e
               /\ M(f).span.start = f.span.start + By(f.span.start, s, e, a)
    <3>1. /\ f.span = ByteRange(f.span.start, f.span.end) /\ Away(f.span, s, e)
          /\ f.span.start \in Nat /\ f.span.end \in Nat /\ f.span.start <= f.span.end
          /\ M(f).span.start = f.span.start + By(f.span.start, s, e, a)
      BY DefinesMove
    <3> QED BY <1>1, <3>1 DEF Away
  <2> QED BY <1>1, <2>1, OrderStays
<1>4. E \in SUBSET Defines(u) /\ E # {}
  BY DefinesMove
<1>5. \A f \in E : f.span.start \in Nat
  BY <1>1, <1>4, LastIs
<1> HIDE DEF M
<1>6. M(Last(D)) \in E
  BY <1>2
<1>7. ASSUME NEW f \in E PROVE f.span.start <= M(Last(D)).span.start
  <2>1. PICK b \in D : f = M(b)
    OBVIOUS
  <2>2. ~(Last(D).span.start < b.span.start)
    BY <1>1, <1>2, LastIs
  <2>3. ~(M(Last(D)).span.start < f.span.start)
    BY <1>2, <1>3, <2>1, <2>2
  <2> QED BY <1>5, <1>6, <2>3
<1> HIDE DEF E
<1>8. M(Last(D)) = Last(E)
  BY <1>1, <1>4, <1>6, <1>7, LastIs
<1> QED BY <1>8 DEF E, M
----------------------------------------------------------------------------
\* What a run records, part by part.
DefinedNames(t) == {c.name : c \in Defines(t)}
Named(t, n) == {c \in Defines(t) : c.name = n}
Before(t, n, o) == {c \in Defines(t) : c.name = n /\ c.span.start < o}
Invoked(t) ==
  {k \in Words(t) : /\ \A h \in Directives(t) : k \notin Operands(t, h)
                    /\ Before(t, Slice(t, k), k.start) # {}}
Malformed(t) == {h \in Directives(t) : ~HasName(t, h)}
Differs(t, c) ==
  LET earlier == Before(t, c.name, c.span.start)
  IN earlier # {} /\ Last(earlier).body # c.body
Redefined(t) == {c \in Defines(t) : Differs(t, c)}
InForce(t) == {Last(Named(t, n)) : n \in DefinedNames(t)}

\* What a run finds, in these words.
LEMMA RunIs ==
  ASSUME NEW t
  PROVE  Run(t) =
           [tokens |-> Tokens(t), macros |-> InForce(t), invocations |-> Invoked(t),
            diagnostics |-> {Diagnostic("malformed", h) : h \in Malformed(t)}
                              \cup {Diagnostic("redefined", c.span) : c \in Redefined(t)}]
<1>1. Invoked(t) = {k \in Words(t) \ UNION {Operands(t, h) : h \in Directives(t)} :
                      Before(t, Slice(t, k), k.start) # {}}
  BY DEF Invoked
<1> QED BY <1>1 DEF Run, InForce, DefinedNames, Named, Before, Malformed, Redefined, Differs

\* The definitions of each name are moved, and no name comes or goes.
LEMMA NamedMoves ==
  ASSUME NEW t, NEW u, NEW s, NEW e, NEW a, Apart(t, u, s, e, a)
  PROVE  /\ DefinedNames(u) = DefinedNames(t)
         /\ \A n : Named(u, n) = {MovedDefinition(c, s, e, a) : c \in Named(t, n)}
<1> DEFINE M(c) == MovedDefinition(c, s, e, a)
<1>1. Defines(u) = {M(c) : c \in Defines(t)}
  BY DefinesAre
<1>2. \A c \in Defines(t) : M(c).name = c.name
  BY DefinesMove
<1> HIDE DEF M
<1>3. DefinedNames(u) = DefinedNames(t)
  BY <1>1, <1>2 DEF DefinedNames
<1>4. \A n : Named(u, n) = {M(c) : c \in Named(t, n)}
  BY <1>1, <1>2 DEF Named
<1> QED BY <1>3, <1>4 DEF M

\* The definitions before a place away from the edit are moved with it.
LEMMA BeforeMoves ==
  ASSUME NEW t, NEW u, NEW s, NEW e, NEW a, Apart(t, u, s, e, a), NEW n,
         NEW p \in Nat, p < s \/ p > e
  PROVE  /\ Before(u, n, p + By(p, s, e, a))
              = {MovedDefinition(c, s, e, a) : c \in Before(t, n, p)}
         /\ Before(t, n, p) \in SUBSET Defines(t)
<1> DEFINE M(c) == MovedDefinition(c, s, e, a)
           d == By(p, s, e, a)
<1>1. s \in Nat /\ e \in Nat /\ a \in Nat /\ s <= e /\ s <= a
  BY DEF Apart, Alike
<1>2. Defines(u) = {M(c) : c \in Defines(t)}
  BY DefinesAre
<1>3. ASSUME NEW c \in Defines(t)
      PROVE  M(c).name = c.name /\ (M(c).span.start < p + d <=> c.span.start < p)
  <2>1. /\ c.span = ByteRange(c.span.start, c.span.end) /\ Away(c.span, s, e)
        /\ c.span.start \in Nat /\ c.span.end \in Nat /\ c.span.start <= c.span.end
        /\ M(c).name = c.name
        /\ M(c).span.start = c.span.start + By(c.span.start, s, e, a)
    BY DefinesMove
  <2>2. c.span.start < s \/ c.span.start > e
    BY <1>1, <2>1 DEF Away
  <2> QED BY <1>1, <2>1, <2>2, OrderStays
<1> HIDE DEF M, d
<1>4. Before(u, n, p + d) = {M(c) : c \in Before(t, n, p)}
  BY <1>2, <1>3 DEF Before
<1> QED BY <1>4 DEF M, d, Before

\* The macros at the end of the text are moved.
LEMMA InForceMoves ==
  ASSUME NEW t, NEW u, NEW s, NEW e, NEW a, Apart(t, u, s, e, a)
  PROVE  InForce(u) = {MovedDefinition(c, s, e, a) : c \in InForce(t)}
<1> DEFINE M(c) == MovedDefinition(c, s, e, a)
<1>1. ASSUME NEW n \in DefinedNames(t) PROVE Last(Named(u, n)) = M(Last(Named(t, n)))
  <2>1. Named(t, n) \in SUBSET Defines(t) /\ Named(t, n) # {}
    BY DEF Named, DefinedNames
  <2> QED BY <2>1, NamedMoves, LastMoves
<1> HIDE DEF M
<1>2. InForce(u) = {M(c) : c \in InForce(t)}
  BY <1>1, NamedMoves DEF InForce
<1> QED BY <1>2 DEF M

\* The names of macros in force are those that are defined.
LEMMA NamesInForce ==
  ASSUME NEW t, Plain(t)
  PROVE  {c.name : c \in InForce(t)} = DefinedNames(t)
<1>1. ASSUME NEW n \in DefinedNames(t) PROVE Last(Named(t, n)).name = n
  <2>1. Named(t, n) \in SUBSET Defines(t) /\ Named(t, n) # {}
    BY DEF Named, DefinedNames
  <2>2. Last(Named(t, n)) \in Named(t, n)
    BY <2>1, LastIs
  <2> QED BY <2>2 DEF Named
<1> QED BY <1>1 DEF InForce

\* A directive without a name is moved, and still has none.
LEMMA MalformedMoves ==
  ASSUME NEW t, NEW u, NEW s, NEW e, NEW a, Apart(t, u, s, e, a), NEW h \in Malformed(t)
  PROVE  /\ Moved(h, s, e, a) \in Malformed(u)
         /\ Moved(Moved(h, s, e, a), s, a, e) = h
<1>1. h \in Directives(t) /\ ~HasName(t, h)
  BY DEF Malformed
<1>2. Alike(t, u, s, e, a)
  BY DEF Apart
<1>3. h \in Tokens(t) /\ Away(h, s, e) /\ Moved(h, s, e, a) \in Directives(u)
  BY <1>1, DirectiveMoves
<1>4. ~HasName(u, Moved(h, s, e, a))
  BY <1>1, NameMoves
<1> QED BY <1>2, <1>3, <1>4, TokenMoves DEF Malformed

\* A definition that differs from the one before it is moved, and still does.
LEMMA RedefinedMoves ==
  ASSUME NEW t, NEW u, NEW s, NEW e, NEW a, Apart(t, u, s, e, a), NEW c \in Defines(t)
  PROVE  MovedDefinition(c, s, e, a) \in Redefined(u) <=> c \in Redefined(t)
<1> DEFINE M(b) == MovedDefinition(b, s, e, a)
           earlier == Before(t, c.name, c.span.start)
<1>1. /\ s \in Nat /\ e \in Nat /\ a \in Nat /\ s <= e /\ s <= a
      /\ Plain(t)
  BY DEF Apart, Alike
<1>2. \A b \in Defines(t) :
        /\ Away(b.span, s, e) /\ b.span.start \in Nat /\ b.span.end \in Nat
        /\ b.span.start <= b.span.end
        /\ M(b) \in Defines(u) /\ M(b).name = b.name /\ M(b).body = b.body
        /\ M(b).span.start = b.span.start + By(b.span.start, s, e, a)
  BY DefinesMove
<1>3. c.span.start < s \/ c.span.start > e
  BY <1>1, <1>2 DEF Away
<1> HIDE DEF M
<1>4. /\ Before(u, M(c).name, M(c).span.start) = {M(b) : b \in earlier}
      /\ earlier \in SUBSET Defines(t)
  BY <1>2, <1>3, BeforeMoves DEF M
<1> HIDE DEF earlier
<1>5. earlier # {} => Last({M(b) : b \in earlier}) = M(Last(earlier)) /\ Last(earlier) \in earlier
  BY <1>1, <1>4, LastMoves, LastIs DEF M
<1>6. Differs(u, M(c)) <=> Differs(t, c)
  <2>1. {M(b) : b \in earlier} # {} <=> earlier # {}
    OBVIOUS
  <2>2. earlier # {} => M(Last(earlier)).body = Last(earlier).body
    BY <1>2, <1>4, <1>5
  <2>3. Differs(t, c) <=> earlier # {} /\ Last(earlier).body # c.body
    BY DEF Differs, earlier
  <2>4. Differs(u, M(c)) <=> /\ {M(b) : b \in earlier} # {}
                             /\ Last({M(b) : b \in earlier}).body # M(c).body
    BY <1>4 DEF Differs
  <2> QED BY <1>2, <1>5, <2>1, <2>2, <2>3, <2>4
<1> QED BY <1>2, <1>6 DEF Redefined, M

\* What touches the edit is not named as a macro is.
Untouched(t, s, e) == \A k \in Tokens(t) : ~Away(k, s, e) => Slice(t, k) \notin DefinedNames(t)

\* An invocation away from the edit is moved, and stays one.
LEMMA InvokedMoves ==
  ASSUME NEW t, NEW u, NEW s, NEW e, NEW a, Apart(t, u, s, e, a),
         Untouched(t, s, e), NEW k \in Invoked(t)
  PROVE  /\ Moved(k, s, e, a) \in Invoked(u)
         /\ Moved(Moved(k, s, e, a), s, a, e) = k
<1> DEFINE n == Moved(k, s, e, a)
           d == By(k.start, s, e, a)
<1>1. /\ s \in Nat /\ e \in Nat /\ a \in Nat /\ s <= e /\ s <= a
      /\ Plain(t) /\ Plain(u) /\ Alike(t, u, s, e, a) /\ Alike(u, t, s, a, e)
      /\ Apart(u, t, s, a, e)
  BY AlikeBack, ApartBack DEF Apart, Alike
<1>2. /\ k \in Words(t) /\ k \in Tokens(t)
      /\ \A h \in Directives(t) : k \notin Operands(t, h)
      /\ Before(t, Slice(t, k), k.start) # {}
  BY DEF Invoked, Tokens
<1>3. Away(k, s, e)
  BY <1>2 DEF Untouched, Before, DefinedNames
<1>4. /\ n \in Words(u) /\ n \in Tokens(u) /\ Slice(u, n) = Slice(t, k)
      /\ Away(n, s, a) /\ Moved(n, s, a, e) = k /\ n.start = k.start + d
  BY <1>1, <1>2, <1>3, TokenMoves
<1>5. k.start \in Nat /\ (k.start < s \/ k.start > e)
  <2>1. k.start \in Nat /\ k.end \in Nat /\ k.start < k.end
    BY <1>1, <1>2, TokenIs
  <2> QED BY <1>1, <1>3, <2>1 DEF Away
<1>6. Before(u, Slice(u, n), n.start) # {}
  <2>1. Before(u, Slice(u, n), n.start)
          = {MovedDefinition(c, s, e, a) : c \in Before(t, Slice(t, k), k.start)}
    BY <1>4, <1>5, BeforeMoves
  <2> QED BY <1>2, <2>1
<1> HIDE DEF n
<1>7. ASSUME NEW h \in Directives(u), n \in Operands(u, h) PROVE FALSE
  <2>1. Moved(h, s, a, e) \in Directives(t)
    BY <1>1, DirectiveMoves
  <2>2. Moved(n, s, a, e) \in Operands(t, Moved(h, s, a, e))
    BY <1>1, <1>7, DirectiveMoves
  <2> QED BY <1>2, <1>4, <2>1, <2>2
<1>8. n \in Invoked(u)
  BY <1>4, <1>6, <1>7 DEF Invoked
<1> QED BY <1>4, <1>8 DEF n

\* So the whole record is moved.
LEMMA RunMoves ==
  ASSUME NEW t, NEW u, NEW s, NEW e, NEW a, Apart(t, u, s, e, a),
         Untouched(t, s, e), Untouched(u, s, a)
  PROVE  Run(u) =
           [tokens |-> Tokens(u),
            macros |-> {MovedDefinition(m, s, e, a) : m \in Run(t).macros},
            invocations |-> {Moved(k, s, e, a) : k \in Run(t).invocations},
            diagnostics |-> {Diagnostic(d.code, Moved(d.range, s, e, a)) :
                               d \in Run(t).diagnostics}]
<1> DEFINE M(k) == Moved(k, s, e, a)
           D(c) == MovedDefinition(c, s, e, a)
           Bad(k) == Diagnostic("malformed", k)
           Again(k) == Diagnostic("redefined", k)
           Shift(d) == Diagnostic(d.code, M(d.range))
<1>1. Apart(u, t, s, a, e)
  BY ApartBack
<1>2. Invoked(u) = {M(k) : k \in Invoked(t)}
  <2>1. \A k \in Invoked(t) : M(k) \in Invoked(u)
    BY InvokedMoves
  <2>2. \A k \in Invoked(u) : /\ Moved(k, s, a, e) \in Invoked(t)
                              /\ M(Moved(k, s, a, e)) = k
    BY <1>1, InvokedMoves
  <2> HIDE DEF M
  <2> QED BY <2>1, <2>2
<1>3. Malformed(u) = {M(k) : k \in Malformed(t)}
  <2>1. \A k \in Malformed(t) : M(k) \in Malformed(u)
    BY MalformedMoves
  <2>2. \A k \in Malformed(u) : /\ Moved(k, s, a, e) \in Malformed(t)
                                /\ M(Moved(k, s, a, e)) = k
    BY <1>1, MalformedMoves
  <2> HIDE DEF M
  <2> QED BY <2>1, <2>2
<1>4. Redefined(u) = {D(c) : c \in Redefined(t)}
  <2>1. \A c \in Defines(t) : D(c) \in Redefined(u) <=> c \in Redefined(t)
    BY RedefinedMoves
  <2>2. Defines(u) = {D(c) : c \in Defines(t)}
    BY DefinesAre
  <2>3. Redefined(u) \subseteq Defines(u) /\ Redefined(t) \subseteq Defines(t)
    BY DEF Redefined
  <2> HIDE DEF D
  <2> QED BY <2>1, <2>2, <2>3
<1>5. InForce(u) = {D(c) : c \in InForce(t)}
  BY InForceMoves
<1>6. \A c \in Redefined(t) : D(c).span = M(c.span)
  BY DefinesMove DEF Redefined
<1>7. \A k : Shift(Bad(k)) = Bad(M(k)) /\ Shift(Again(k)) = Again(M(k))
  BY DEF Diagnostic
<1> HIDE DEF M, D, Bad, Again, Shift
<1>8. {Bad(h) : h \in Malformed(u)} = {Shift(d) : d \in {Bad(h) : h \in Malformed(t)}}
  BY <1>3, <1>7
<1>9. {Again(c.span) : c \in Redefined(u)}
        = {Shift(d) : d \in {Again(c.span) : c \in Redefined(t)}}
  <2>1. {Again(c.span) : c \in Redefined(u)} = {Again(M(c.span)) : c \in Redefined(t)}
    BY <1>4, <1>6
  <2>2. {Shift(d) : d \in {Again(c.span) : c \in Redefined(t)}}
          = {Shift(Again(c.span)) : c \in Redefined(t)}
    OBVIOUS
  <2>3. \A c \in Redefined(t) : Shift(Again(c.span)) = Again(M(c.span))
    BY <1>7
  <2> QED BY <2>1, <2>2, <2>3
<1>10. /\ Run(t).macros = InForce(t) /\ Run(t).invocations = Invoked(t)
       /\ Run(t).diagnostics = {Bad(h) : h \in Malformed(t)} \cup {Again(c.span) : c \in Redefined(t)}
  BY RunIs DEF Bad, Again
<1>11. {Bad(h) : h \in Malformed(u)} \cup {Again(c.span) : c \in Redefined(u)}
         = {Shift(d) : d \in Run(t).diagnostics}
  BY <1>8, <1>9, <1>10
<1>12. Run(u) = [tokens |-> Tokens(u), macros |-> InForce(u), invocations |-> Invoked(u),
                 diagnostics |-> {Bad(h) : h \in Malformed(u)}
                                   \cup {Again(c.span) : c \in Redefined(u)}]
  BY RunIs DEF Bad, Again
<1>13. Run(u) = [tokens |-> Tokens(u), macros |-> {D(m) : m \in Run(t).macros},
                 invocations |-> {M(k) : k \in Run(t).invocations},
                 diagnostics |-> {Shift(d) : d \in Run(t).diagnostics}]
  BY <1>2, <1>5, <1>10, <1>11, <1>12
<1> QED BY <1>13 DEF D, M, Shift
----------------------------------------------------------------------------
\* Tokens depend on where the letters and the directives are.
LEMMA SameTokens ==
  ASSUME NEW t, NEW u, Plain(t), Plain(u), Len(u) = Len(t),
         \A o \in 0..Len(t) - 1 : /\ At(u, o) \in Letters <=> At(t, o) \in Letters
                                  /\ At(u, o) = "#" <=> At(t, o) = "#"
  PROVE  Words(u) = Words(t) /\ Hashes(u) = Hashes(t) /\ Tokens(u) = Tokens(t)
<1>1. \A o : (o \in 0..Len(t) - 1 /\ At(t, o) \in Letters)
               <=> (o \in 0..Len(u) - 1 /\ At(u, o) \in Letters)
  OBVIOUS
<1>2. Hashes(u) = Hashes(t)
  <2>1. {p \in 0..Len(u) - 1 : At(u, p) = "#"} = {p \in 0..Len(t) - 1 : At(t, p) = "#"}
    OBVIOUS
  <2> QED BY <2>1 DEF Hashes
<1>3. Words(u) = Words(t)
  <2> DEFINE L(o) == o \in 0..Len(t) - 1 /\ At(t, o) \in Letters
             K(o) == o \in 0..Len(u) - 1 /\ At(u, o) \in Letters
             W(o) == ByteRange(o, Least({e \in o + 1..Len(t) : ~L(e)}))
             X(o) == ByteRange(o, Least({e \in o + 1..Len(u) : ~K(e)}))
             S == {o \in 0..Len(t) - 1 : L(o) /\ ~L(o - 1)}
             Z == {o \in 0..Len(u) - 1 : K(o) /\ ~K(o - 1)}
  <2>1. Words(t) = {W(o) : o \in S} /\ Words(u) = {X(o) : o \in Z}
    BY DEF Words
  <2>2. \A o : L(o) <=> K(o)
    BY <1>1
  <2> HIDE DEF L, K
  <2>3. S = Z
    BY <2>2
  <2>4. ASSUME NEW o PROVE W(o) = X(o)
    <3>1. {e \in o + 1..Len(t) : ~L(e)} = {e \in o + 1..Len(u) : ~K(e)}
      BY <2>2
    <3> QED BY <3>1
  <2> HIDE DEF W, X, S, Z
  <2> QED BY <2>1, <2>3, <2>4
<1> QED BY <1>2, <1>3 DEF Tokens

\* A text with other blanks has the same record.
LEMMA SameLayoutRun ==
  ASSUME NEW t, NEW u, Plain(t), Plain(u), Len(u) = Len(t),
         \A o \in 0..Len(t) - 1 : At(u, o) = At(t, o) \/ {At(u, o), At(t, o)} \subseteq Blanks
  PROVE  Run(u) = Run(t)
<1>1. Len(t) \in Nat
  BY DEF Plain
<1>2. ASSUME NEW o \in 0..Len(t) - 1
      PROVE  /\ At(u, o) \in Letters <=> At(t, o) \in Letters
             /\ At(u, o) = "#" <=> At(t, o) = "#"
             /\ EndsLine(u, o) <=> EndsLine(t, o)
  BY <1>1, CharacterIs DEF EndsLine
<1>3. Words(u) = Words(t) /\ Hashes(u) = Hashes(t) /\ Tokens(u) = Tokens(t)
  BY <1>2, SameTokens
<1>4. ASSUME NEW k \in Tokens(t), NEW l \in Tokens(t)
      PROVE  SameLine(u, k, l) <=> SameLine(t, k, l)
  <2>1. k.end \in Nat /\ l.start \in Nat /\ l.start <= Len(t)
    <3>1. /\ k.end \in Nat /\ l.start \in Nat /\ l.end \in Nat
          /\ l.start < l.end /\ l.end <= Len(t)
      BY TokenIs
    <3> QED BY <1>1, <3>1
  <2>2. \A o \in k.end..l.start - 1 : EndsLine(u, o) <=> EndsLine(t, o)
    BY <1>1, <1>2, <2>1
  <2> QED BY <2>2 DEF SameLine
<1>5. ASSUME NEW k \in Tokens(t) PROVE Slice(u, k) = Slice(t, k)
  <2>1. /\ k.start \in Nat /\ k.end \in Nat /\ k.start < k.end /\ k.end <= Len(t)
        /\ \A o \in k.start..k.end - 1 : At(t, o) \notin Blanks
    BY TokenIs
  <2> DEFINE p == k.start
             q == k.end
  <2>2. Slice(t, k) = SubSeq(t, p + 1, q) /\ Slice(u, k) = SubSeq(u, p + 1, q)
    BY DEF Slice
  <2> HIDE DEF p, q
  <2>3. p \in Nat /\ q \in Nat /\ p < q /\ q <= Len(t) /\ \A o \in p..q - 1 : At(t, o) \notin Blanks
    BY <2>1 DEF p, q
  <2>4. t \in Seq(Chars) /\ u \in Seq(Chars)
    BY DEF Plain
  <2>5. /\ SubSeq(t, p + 1, q) = [i \in 1..q - p |-> At(t, p + i - 1)]
        /\ SubSeq(u, p + 1, q) = [i \in 1..q - p |-> At(u, p + i - 1)]
    BY <2>3, <2>4 DEF At
  <2>6. ASSUME NEW i \in 1..q - p PROVE At(u, p + i - 1) = At(t, p + i - 1)
    <3>1. p + i - 1 \in p..q - 1 /\ p + i - 1 \in 0..Len(t) - 1
      BY <1>1, <2>3
    <3> QED BY <2>3, <3>1
  <2> QED BY <2>2, <2>5, <2>6
<1>6. Hashes(t) \subseteq Tokens(t) /\ Words(t) \subseteq Tokens(t)
  BY DEF Tokens
<1>7. Directives(u) = Directives(t)
  BY <1>3, <1>4, <1>6 DEF Directives
<1>8. ASSUME NEW k \in Tokens(t)
       PROVE  Following(u, k) = Following(t, k) /\ RestOfLine(u, k) = RestOfLine(t, k)
  <2>1. Following(u, k) = Following(t, k) /\ Following(t, k) \subseteq Tokens(t)
    BY <1>3 DEF Following
  <2> QED BY <1>4, <2>1 DEF RestOfLine
<1>9. ASSUME NEW h \in Directives(t)
       PROVE  /\ Operands(u, h) = Operands(t, h) /\ Operands(t, h) \subseteq Tokens(t)
              /\ HasName(u, h) <=> HasName(t, h)
  <2>1. h \in Tokens(t)
    BY <1>6 DEF Directives
  <2>2. NextWord(u, h) = NextWord(t, h) /\ NextWord(t, h) \subseteq Tokens(t)
    BY <1>3, <1>6, <1>8, <2>1 DEF NextWord
  <2>3. {RestOfLine(u, k) : k \in NextWord(u, h)} = {RestOfLine(t, k) : k \in NextWord(t, h)}
    BY <1>8, <2>2
  <2>4. Operands(u, h) = Operands(t, h)
    BY <1>8, <2>1, <2>2, <2>3 DEF Operands
  <2> QED BY <1>3, <2>4, OperandsAre DEF HasName
<1>10. ASSUME NEW h \in Directives(t), HasName(t, h)
      PROVE  Definition(u, h) = Definition(t, h)
  <2>2. Operands(u, h) = Operands(t, h) /\ Operands(t, h) \subseteq Tokens(t)
    BY <1>9
  <2>3. First(Operands(u, h)) = First(Operands(t, h))
    BY <2>2
  <2>4. First(Operands(t, h)) \in Operands(t, h)
    BY <1>10, <2>2, FirstIs DEF HasName
  <2> DEFINE name == First(Operands(t, h))
             Body == Operands(t, h) \ {name}
             Rank(k) == Cardinality({l \in Body : l.start < k.start})
             Tell(k) == <<Rank(k), Slice(t, k), \E l \in Body : l.end = k.start>>
             TellU(k) == <<Rank(k), Slice(u, k), \E l \in Body : l.end = k.start>>
  <2>5. Definition(t, h) = [name |-> Slice(t, name), body |-> {Tell(k) : k \in Body},
                            span |-> ByteRange(h.start, name.end)]
    BY DEF Definition
  <2>6. Definition(u, h) = [name |-> Slice(u, name), body |-> {TellU(k) : k \in Body},
                            span |-> ByteRange(h.start, name.end)]
    BY <2>2, <2>3 DEF Definition
  <2>7. \A k \in Body : TellU(k) = Tell(k)
    BY <1>5, <2>2
  <2>8. Slice(u, name) = Slice(t, name)
    BY <1>5, <2>2, <2>4
  <2> HIDE DEF name, Body, Tell, TellU
  <2>9. {TellU(k) : k \in Body} = {Tell(k) : k \in Body}
    BY <2>7
  <2> QED BY <2>5, <2>6, <2>8, <2>9
<1>11. Defines(u) = Defines(t)
  <2>1. {d \in Directives(u) : HasName(u, d)} = {d \in Directives(t) : HasName(t, d)}
    BY <1>7, <1>9
  <2> QED BY <1>10, <2>1 DEF Defines
<1>12. \A n, o : Before(u, n, o) = Before(t, n, o)
  BY <1>11 DEF Before
<1>13. InForce(u) = InForce(t)
  BY <1>11 DEF InForce, DefinedNames, Named
<1>14. Invoked(u) = Invoked(t)
  BY <1>3, <1>5, <1>6, <1>7, <1>12, <1>9 DEF Invoked
<1>15. Malformed(u) = Malformed(t)
  BY <1>7, <1>9 DEF Malformed
<1>16. Redefined(u) = Redefined(t)
  BY <1>11, <1>12 DEF Redefined, Differs
<1> QED BY <1>3, <1>13, <1>14, <1>15, <1>16, RunIs
----------------------------------------------------------------------------
\* The edit that a comparison finds.
LEMMA ComparedAlike ==
  ASSUME NEW t, NEW u, Plain(t), Plain(u)
  PROVE  \E s, e, a : CompatibleEdit(t, u) = Edit(s, e, a) /\ Alike(t, u, s, e, a)
<1> DEFINE SamePrefix(n) == \A o \in 0..n - 1 : At(t, o) = At(u, o)
           shorter == IF Len(t) < Len(u) THEN Len(t) ELSE Len(u)
           Fronts == {n \in 0..shorter : SamePrefix(n)}
           start == Greatest(Fronts)
           SameSuffix(n) == \A o \in 1..n : At(t, Len(t) - o) = At(u, Len(u) - o)
           Backs == {n \in 0..shorter - start : SameSuffix(n)}
           end == Greatest(Backs)
<1>1. Len(t) \in Nat /\ Len(u) \in Nat /\ shorter \in Nat /\ shorter <= Len(t) /\ shorter <= Len(u)
  BY DEF Plain
<1>2. CompatibleEdit(t, u) = Edit(start, Len(t) - end, Len(u) - end)
  BY DEF CompatibleEdit
<1> HIDE DEF shorter
<1>3. start \in Fronts
  <2>1. 0 \in Fronts /\ Fronts \in SUBSET (0..shorter)
    BY <1>1
  <2> HIDE DEF Fronts
  <2> QED BY <1>1, <2>1, GreatestIs
<1>4. start \in 0..shorter /\ SamePrefix(start)
  BY <1>3
<1> HIDE DEF start
<1>5. end \in Backs
  <2>1. 0 \in Backs /\ Backs \in SUBSET (0..shorter - start) /\ shorter - start \in Nat
    BY <1>1, <1>4
  <2> HIDE DEF Backs
  <2> QED BY <2>1, GreatestIs
<1>6. end \in 0..shorter - start /\ SameSuffix(end)
  BY <1>5
<1> HIDE DEF end
<1> DEFINE e == Len(t) - end
           a == Len(u) - end
<1>7. /\ start \in Nat /\ e \in Nat /\ a \in Nat /\ start <= e /\ start <= a
      /\ e <= Len(t) /\ a <= Len(u) /\ Len(u) - a = Len(t) - e
  BY <1>1, <1>4, <1>6
<1>8. \A o \in 0..start - 1 : At(u, o) = At(t, o)
  BY <1>4
<1>9. ASSUME NEW o \in e..Len(t) - 1 PROVE At(u, o + a - e) = At(t, o)
  <2> DEFINE i == Len(t) - o
  <2>1. i \in 1..end /\ Len(t) - i = o /\ Len(u) - i = o + a - e
    BY <1>1, <1>4, <1>6
  <2> HIDE DEF i, e, a
  <2>2. At(t, Len(t) - i) = At(u, Len(u) - i)
    BY <1>6, <2>1
  <2> QED BY <2>1, <2>2
<1> HIDE DEF e, a
<1>10. Alike(t, u, start, e, a)
  BY <1>7, <1>8, <1>9 DEF Alike
<1> QED BY <1>2, <1>10 DEF e, a

\* One word for another of its length leaves the tokens where they are.
LEMMA SameLengthWord ==
  ASSUME NEW t, NEW u, NEW s, NEW e, Alike(t, u, s, e, e), s < e,
         ByteRange(s, e) \in Tokens(t), At(t, s) \in Letters,
         LET replaced == Slice(u, ByteRange(s, e))
         IN Words(replaced) = {ByteRange(0, Len(replaced))}
  PROVE  Tokens(u) = Tokens(t)
<1> DEFINE r == Slice(u, ByteRange(s, e))
<1>1. /\ Plain(t) /\ Plain(u) /\ Len(u) = Len(t) /\ Len(t) \in Nat
      /\ s \in Nat /\ e \in Nat /\ e <= Len(t)
      /\ \A o \in 0..s - 1 : At(u, o) = At(t, o)
      /\ \A o \in e..Len(t) - 1 : o + e - e = o /\ At(u, o + e - e) = At(t, o)
  BY DEF Alike, Plain
<1>2. \A o \in s..e - 1 : At(t, o) \in Letters
  <2>1. /\ ByteRange(s, e).start = s /\ ByteRange(s, e).end = e
    BY DEF ByteRange
  <2>2. IsWord(t, s, e) \/ IsHash(t, s, e)
    BY <1>1, <2>1, TokenIs
  <2>3. At(t, s) # "#"
    BY <1>1, CharacterIs
  <2> QED BY <2>2, <2>3 DEF IsWord, OnlyLetters, IsHash
<1>3. u \in Seq(Chars) /\ Len(u) \in Nat
  BY <1>1 DEF Plain
<1>4. r = SubSeq(u, s + 1, e)
  BY DEF Slice, ByteRange
<1> HIDE DEF r
<1>5. r \in Seq(Chars) /\ Len(r) = e - s /\ \A i \in 1..e - s : r[i] = u[s + i]
  BY <1>1, <1>3, <1>4
<1>6. IsWord(r, 0, Len(r))
  <2>1. ByteRange(0, Len(r)) \in Words(r)
    BY DEF r
  <2>2. ByteRange(0, Len(r)).start = 0 /\ ByteRange(0, Len(r)).end = Len(r)
    BY DEF ByteRange
  <2> QED BY <1>5, <2>1, <2>2, WordIs
<1>7. ASSUME NEW o \in s..e - 1 PROVE At(u, o) \in Letters
  <2> DEFINE i == o - s
  <2>1. i \in 0..Len(r) - 1 /\ i + 1 \in 1..e - s /\ s + (i + 1) = o + 1
    BY <1>1, <1>5
  <2> HIDE DEF i
  <2>2. At(r, i) \in Letters
    BY <1>6, <2>1 DEF IsWord, OnlyLetters
  <2> QED BY <1>5, <2>1, <2>2 DEF At
<1>8. ASSUME NEW o \in 0..Len(t) - 1
      PROVE  /\ At(u, o) \in Letters <=> At(t, o) \in Letters
             /\ At(u, o) = "#" <=> At(t, o) = "#"
  <2>1. o \in 0..s - 1 \/ o \in s..e - 1 \/ o \in e..Len(t) - 1
    BY <1>1
  <2>2. CASE o \in s..e - 1
    <3>1. At(t, o) \in Letters /\ At(u, o) \in Letters /\ o \in Nat /\ o < Len(t)
      BY <1>1, <1>2, <1>7, <2>2
    <3> QED BY <1>1, <3>1, CharacterIs
  <2> QED BY <1>1, <2>1, <2>2
<1> QED BY <1>1, <1>8, SameTokens

\* What is reused of a right record is right, if the edit did not stray.
LEMMA ReuseRight ==
  ASSUME Plain(text), result = Run(text), NEW src, Plain(src),
         NEW s, NEW e, NEW a, Alike(text, src, s, e, a), Compatible(src, Edit(s, e, a)),
         ~Strays(text, ByteRange(s, e)), ~Strays(src, ByteRange(s, a))
  PROVE  Reused(src, Edit(s, e, a)) = Run(src)
<1> DEFINE edit == Edit(s, e, a)
           tokens == IF SingleTokenEdit(src, edit, result.tokens) THEN result.tokens
                     ELSE Tokens(src)
<1>1. /\ s \in Nat /\ e \in Nat /\ a \in Nat /\ s <= e /\ s <= a
      /\ edit.before = ByteRange(s, e) /\ edit.after = ByteRange(s, a)
      /\ edit.before.start = s /\ edit.before.end = e
      /\ edit.after.start = s /\ edit.after.end = a
  BY DEF Alike, Edit, ByteRange
<1>2. result.tokens = Tokens(text) /\ result.macros = InForce(text)
  BY RunIs
<1>3. tokens = Tokens(src)
  <2>1. CASE SingleTokenEdit(src, edit, result.tokens)
    <3>1. /\ e = a /\ s < e /\ ByteRange(s, e) \in Tokens(text) /\ At(text, s) \in Letters
          /\ LET replaced == Slice(src, ByteRange(s, e))
             IN Words(replaced) = {ByteRange(0, Len(replaced))}
      BY <1>1, <1>2, <2>1 DEF SingleTokenEdit
    <3>2. Tokens(src) = Tokens(text)
      BY <3>1, SameLengthWord
    <3> QED BY <1>2, <2>1, <3>2
  <2> QED BY <2>1
<1>4. /\ ~DirectiveRange(text, ByteRange(s, e)) /\ ~DirectiveRange(src, ByteRange(s, a))
      /\ ~TouchesMacro(tokens, src, edit.after, InForce(text))
      /\ ~TouchesMacro(Tokens(text), text, edit.before, InForce(text))
  BY <1>1, <1>2 DEF Compatible
<1>5. Apart(text, src, s, e, a)
  BY <1>4 DEF Apart
<1>6. {m.name : m \in InForce(text)} = DefinedNames(text) /\ DefinedNames(src) = DefinedNames(text)
  BY <1>5, NamesInForce, NamedMoves
<1>7. Untouched(text, s, e)
  <2> SUFFICES ASSUME NEW k \in Tokens(text), ~Away(k, s, e), Slice(text, k) \in DefinedNames(text)
               PROVE  FALSE
    BY DEF Untouched
  <2>1. k.start \in Nat /\ k.end \in Nat
    BY TokenIs
  <2>2. k.end >= s /\ k.start <= e
    BY <1>1, <2>1 DEF Away
  <2>3. \E m \in InForce(text) : m.name = Slice(text, k)
    BY <1>6
  <2> QED BY <1>1, <1>4, <2>2, <2>3 DEF TouchesMacro
<1>8. Untouched(src, s, a)
  <2> SUFFICES ASSUME NEW k \in Tokens(src), ~Away(k, s, a), Slice(src, k) \in DefinedNames(src)
               PROVE  FALSE
    BY DEF Untouched
  <2>1. k.start \in Nat /\ k.end \in Nat
    BY TokenIs
  <2>2. k.end >= s /\ k.start <= a
    BY <1>1, <2>1 DEF Away
  <2>3. \E m \in InForce(text) : m.name = Slice(src, k)
    BY <1>6
  <2> QED BY <1>1, <1>3, <1>4, <2>2, <2>3 DEF TouchesMacro
<1>9. Reused(src, edit) =
        [tokens |-> tokens,
         macros |-> {MovedDefinition(m, s, e, a) : m \in result.macros},
         invocations |-> {Moved(k, s, e, a) : k \in result.invocations},
         diagnostics |-> {Diagnostic(d.code, Moved(d.range, s, e, a)) :
                            d \in result.diagnostics}]
  BY DEF Reused, Moved, MovedDefinition
<1> HIDE DEF tokens
<1>10. Run(src) =
        [tokens |-> tokens,
         macros |-> {MovedDefinition(m, s, e, a) : m \in result.macros},
         invocations |-> {Moved(k, s, e, a) : k \in result.invocations},
         diagnostics |-> {Diagnostic(d.code, Moved(d.range, s, e, a)) :
                            d \in result.diagnostics}]
  BY <1>3, <1>5, <1>7, <1>8, RunMoves
<1> QED BY <1>9, <1>10

\* What AnalyzeContext records for the edited text, from a record that is
\* right unless an edit strayed.
LEMMA AnalyzeRight ==
  ASSUME Plain(text), ~strayed => result = Run(text),
         NEW src, Plain(src), NEW s, NEW e, NEW a, Alike(text, src, s, e, a),
         NEW known, Analyze(src, Edit(s, e, a), known)
  PROVE  text' = src /\ (~strayed' => result' = Run(src))
<1> DEFINE edit == Edit(s, e, a)
           trivia == (known => ~EditTouchesCode(edit)) /\ SameLayout(src)
           local == (known \/ text # src) /\ Compatible(src, edit)
<1>1. /\ text' = src
      /\ trivia => result' = result /\ strayed' = strayed
      /\ ~trivia /\ local =>
           /\ result' = Reused(src, edit)
           /\ strayed' = (strayed \/ Strays(text, edit.before) \/ Strays(src, edit.after))
      /\ ~trivia /\ ~local => result' = Run(src)
  BY DEF Analyze
<1>2. edit.before = ByteRange(s, e) /\ edit.after = ByteRange(s, a)
  BY DEF Edit
<1>3. CASE trivia
  <2>1. Len(src) = Len(text) /\ Len(text) \in Nat
        /\ \A o \in DOMAIN src : src[o] = text[o] \/ {src[o], text[o]} \subseteq Blanks
    BY <1>3 DEF SameLayout, Plain
  <2>2. ASSUME NEW o \in 0..Len(text) - 1
        PROVE  At(src, o) = At(text, o) \/ {At(src, o), At(text, o)} \subseteq Blanks
    <3>1. o + 1 \in DOMAIN src
      BY <2>1 DEF Plain
    <3> QED BY <2>1, <3>1 DEF At
  <2>3. Run(src) = Run(text)
    BY <2>1, <2>2, SameLayoutRun
  <2> HIDE DEF trivia, local
  <2> QED BY <1>1, <1>3, <2>3
<1>4. CASE ~trivia /\ local
  <2> SUFFICES ASSUME ~strayed' PROVE result' = Run(src)
    BY <1>1
  <2>1. Compatible(src, edit)
    BY <1>4
  <2> HIDE DEF trivia, local
  <2>2. /\ ~strayed /\ ~Strays(text, ByteRange(s, e)) /\ ~Strays(src, ByteRange(s, a))
        /\ result' = Reused(src, edit)
    BY <1>1, <1>2, <1>4
  <2>3. Reused(src, edit) = Run(src)
    BY <2>1, <2>2, ReuseRight
  <2> QED BY <2>2, <2>3
<1>5. CASE ~trivia /\ ~local
  <2> HIDE DEF trivia, local
  <2> QED BY <1>1, <1>5
<1> QED BY <1>3, <1>4, <1>5

\* The edit that the host names.
LEMMA SplicedAlike ==
  ASSUME NEW t, Plain(t), NEW r \in Ranges(t), r.start <= r.end, NEW inserted \in Seq(Chars)
  PROVE  LET src == Spliced(t, r, inserted)
         IN Plain(src) /\ Alike(t, src, r.start, r.end, r.start + Len(inserted))
<1> DEFINE s == r.start
           e == r.end
           a == s + Len(inserted)
           src == Spliced(t, r, inserted)
<1>1. s \in 0..Len(t) /\ e \in 0..Len(t) /\ r = ByteRange(s, e)
  BY DEF Ranges, ByteRange
<1>2. /\ t \in Seq(Chars) /\ Len(t) \in Nat /\ Len(inserted) \in Nat /\ s \in Nat /\ e \in Nat
      /\ a \in Nat /\ s <= e /\ s <= a
  BY <1>1 DEF Plain
<1> HIDE DEF s, e
<1>3. src \in Seq(Chars)
  <2>1. SubSeq(t, 1, s) \in Seq(Chars) /\ SubSeq(t, e + 1, Len(t)) \in Seq(Chars)
    BY <1>1, <1>2
  <2>2. src = SubSeq(t, 1, s) \o inserted \o SubSeq(t, e + 1, Len(t))
    BY DEF Spliced, s, e
  <2> QED BY <2>1, <2>2
<1>4. /\ Len(src) = Len(t) - (e - s) + Len(inserted)
      /\ \A o \in 0..s - 1 : At(src, o) = At(t, o)
      /\ \A o \in e..Len(t) - 1 : At(src, o + Len(inserted) - (e - s)) = At(t, o)
  <2>1. src = Spliced(t, ByteRange(s, e), inserted)
    BY <1>1
  <2> HIDE DEF src
  <2> QED BY <1>1, <1>2, <2>1, SplicedCharacters
<1> HIDE DEF src
<1>5. Plain(src)
  BY <1>3 DEF Plain
<1>6. Len(src) \in Nat /\ e <= Len(t) /\ a <= Len(src) /\ Len(src) - a = Len(t) - e
  BY <1>1, <1>2, <1>4
<1>7. ASSUME NEW o \in e..Len(t) - 1 PROVE At(src, o + a - e) = At(t, o)
  <2>1. o + a - e = o + Len(inserted) - (e - s)
    BY <1>2
  <2> QED BY <1>4, <2>1
<1>8. Alike(t, src, s, e, a)
  BY <1>2, <1>4, <1>5, <1>6, <1>7 DEF Alike
<1> QED BY <1>5, <1>8 DEF src, s, e

\* After any sequence of edits of any texts, a record that was reused is the
\* record of a clean run, unless an edit strayed since the last clean run.
THEOREM ReuseStaysClean == EditSpec => []ReusedIsClean
<1> DEFINE Right == text \in Seq(Chars) /\ ReusedIsClean
<1>1. FirstAnalysis => Right
  BY BoundsAssumption DEF FirstAnalysis, ReusedIsClean
<1>2. Right /\ [NextEdit]_analysed => Right'
  <2> SUFFICES ASSUME Right, [NextEdit]_analysed PROVE Right'
    OBVIOUS
  <2>1. CASE NextEdit
    <3>1. PICK r \in Ranges(text), inserted \in Insertions : EditText(r, inserted)
      BY <2>1 DEF NextEdit
    <3> DEFINE src == Spliced(text, r, inserted)
    <3>2. /\ r.start <= r.end
          /\ \/ Analyze(src, Edit(r.start, r.end, r.start + Len(inserted)), TRUE)
             \/ Analyze(src, CompatibleEdit(text, src), FALSE)
      BY <3>1 DEF EditText
    <3>3. Plain(text) /\ inserted \in Seq(Chars) /\ (~strayed => result = Run(text))
      BY BoundsAssumption DEF Plain, ReusedIsClean
    <3>4. Plain(src) /\ Alike(text, src, r.start, r.end, r.start + Len(inserted))
      BY <3>2, <3>3, SplicedAlike
    <3> HIDE DEF src
    <3>5. text' = src /\ (~strayed' => result' = Run(src))
      <4>1. CASE Analyze(src, Edit(r.start, r.end, r.start + Len(inserted)), TRUE)
        BY <3>3, <3>4, <4>1, AnalyzeRight
      <4>2. CASE Analyze(src, CompatibleEdit(text, src), FALSE)
        <5>1. PICK s, e, a : /\ CompatibleEdit(text, src) = Edit(s, e, a)
                             /\ Alike(text, src, s, e, a)
          BY <3>3, <3>4, ComparedAlike
        <5>2. Analyze(src, Edit(s, e, a), FALSE)
          BY <4>2, <5>1
        <5> QED BY <3>3, <3>4, <5>1, <5>2, AnalyzeRight
      <4> QED BY <3>2, <4>1, <4>2
    <3>6. src \in Seq(Chars)
      BY <3>4 DEF Plain
    <3> QED BY <3>5, <3>6 DEF ReusedIsClean
  <2>2. CASE UNCHANGED analysed
    BY <2>2 DEF analysed, ReusedIsClean
  <2> QED BY <2>1, <2>2
<1>3. Right => ReusedIsClean
  OBVIOUS
<1> QED BY <1>1, <1>2, <1>3, PTL DEF EditSpec

=============================================================================
