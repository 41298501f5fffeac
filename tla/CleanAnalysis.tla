--------------------------- MODULE CleanAnalysis ---------------------------
(***************************************************************************)
(* What package query promises its callers, without caches: a snapshot is  *)
(* an immutable set of versioned documents, Update derives a new snapshot, *)
(* and every request that is not cancelled is answered with what a clean   *)
(* analysis of that snapshot's own documents finds.  Snapshot.tla is shown *)
(* to implement this specification.                                        *)
(***************************************************************************)
EXTENDS Naturals

CONSTANTS
  Workers,      \* goroutines that call into package query
  Uris,         \* document names; naturals, because AnalyzeDocuments sorts them
  Texts,        \* document texts
  Names,        \* names a text can declare or refer to
  Options,      \* hashes of analysis.Options, one per distinct option set
  Index,        \* Index[o]: o with RetainExpanded and SkipSemantics set
  Exports,      \* Exports[t]: file-scope declarations of text t
  Refs,         \* Refs[t]: names that text t refers to
  InitialDocs,  \* document sets that New is called with
  MaxSnap,      \* bound: snapshots in a behaviour
  MaxVersion,   \* bound: largest document version
  None,         \* a nil pointer, or a missing map entry
  Failed        \* an error return

VARIABLES
  docs,    \* docs[s][u]: the document u of snapshot s, or None
  count,   \* number of snapshots made so far
  call,    \* call[w]: the request goroutine w is serving, or None
  answer   \* answer[w]: what it returned, or None while it runs

vars == <<docs, count, call, answer>>

Snaps == 1..MaxSnap
Versions == 1..MaxVersion
Document == [version : Versions, text : Texts]
SkipSemantics == {Index[o] : o \in Options}

\* op "analyze" is Snapshot.Analyze, op "workspace" is AnalyzeDocuments.
Call == [op : {"analyze", "workspace"}, snap : Snaps,
         uris : SUBSET Uris, options : Options]

\* What a clean run reports for text t when the resolver knows `known`.
Unresolved(t, known) == Refs[t] \ (Exports[t] \cup known)

\* Every name some selected document of d declares at file scope.
Declared(d, us) == UNION {Exports[d[u].text] : u \in us}

\* The clean result for document u of document set d under request c.  An
\* option set that skips semantics yields no name diagnostics.
CleanFile(d, c, u) ==
  [text |-> d[u].text,
   unresolved |->
     IF c.op = "workspace" THEN Unresolved(d[u].text, Declared(d, c.uris))
     ELSE IF c.options \in SkipSemantics THEN {}
     ELSE Unresolved(d[u].text, {})]

CleanAnswer(d, c) == [u \in c.uris |-> CleanFile(d, c, u)]

----------------------------------------------------------------------------
Init ==
  /\ \E d \in InitialDocs :
       docs = [s \in Snaps |-> IF s = 1 THEN d ELSE [u \in Uris |-> None]]
  /\ count = 1
  /\ call = [w \in Workers |-> None]
  /\ answer = [w \in Workers |-> None]

\* Derives a snapshot from s.  A version that is not newer is rejected.
Update(s, u, d) ==
  /\ s <= count /\ count < MaxSnap
  /\ docs[s][u] # None => docs[s][u].version < d.version
  /\ docs' = [docs EXCEPT ![count + 1] = [docs[s] EXCEPT ![u] = d]]
  /\ count' = count + 1
  /\ UNCHANGED <<call, answer>>

Request(w, c) ==
  /\ call[w] = None /\ c.snap <= count
  /\ call' = [call EXCEPT ![w] = c]
  /\ UNCHANGED <<docs, count, answer>>

Answer(w) ==
  /\ call[w] # None /\ answer[w] = None
  /\ \A u \in call[w].uris : docs[call[w].snap][u] # None
  /\ answer' = [answer EXCEPT ![w] = CleanAnswer(docs[call[w].snap], call[w])]
  /\ UNCHANGED <<docs, count, call>>

\* Cancelled, or a document is missing.
Fail(w) ==
  /\ call[w] # None /\ answer[w] = None
  /\ answer' = [answer EXCEPT ![w] = Failed]
  /\ UNCHANGED <<docs, count, call>>

Collect(w) ==
  /\ answer[w] # None
  /\ call' = [call EXCEPT ![w] = None]
  /\ answer' = [answer EXCEPT ![w] = None]
  /\ UNCHANGED <<docs, count>>

Next ==
  \/ \E s \in Snaps, u \in Uris, d \in Document : Update(s, u, d)
  \/ \E w \in Workers, c \in Call : Request(w, c)
  \/ \E w \in Workers : Answer(w) \/ Fail(w) \/ Collect(w)

Spec == Init /\ [][Next]_vars
============================================================================
