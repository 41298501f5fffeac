-------------------------- MODULE SnapshotProofs --------------------------
(***************************************************************************)
(* Proofs about Snapshot, for every value of its constants.  TypeInv says  *)
(* where a goroutine is and what it holds there; ContentInv says what the  *)
(* caches contain.  Together they are inductive, and every property of     *)
(* Snapshot that is proved here, the refinement included, follows.         *)
(***************************************************************************)
EXTENDS Snapshot, TLAPS

\* Storing an entry of the right types keeps a map well typed.
LEMMA PutIsMap ==
  ASSUME NEW map, NEW K, NEW V, IsMap(map, K, V), NEW k \in K, NEW v \in V
  PROVE  IsMap(Put(map, k, v), K, V)
BY DEF IsMap, Put

\* Publishing a result keeps a map well typed, and afterwards the key is
\* present: with the new result or with the one that was there.
LEMMA PublishIsMap ==
  ASSUME NEW map, NEW K, NEW V, IsMap(map, K, V), NEW k \in K, NEW v \in V
  PROVE  /\ IsMap(Publish(map, k, v), K, V)
         /\ k \in DOMAIN Publish(map, k, v) /\ Publish(map, k, v)[k] \in V
BY DEF IsMap, Put, Publish

\* The entries Update keeps for the new snapshot keep their types.
LEMMA KeptIsMap ==
  ASSUME NEW map, NEW K, NEW V, IsMap(map, K, V), NEW u
  PROVE  IsMap(Kept(map, u), K, V)
BY DEF IsMap, Kept

\* The entries Update turns into reuse candidates are keyed by URI and options.
LEMMA MovedIsMap ==
  ASSUME NEW map, NEW K, NEW V, NEW R, IsMap(map, K, V), NEW u,
         \A k \in K : ReuseKey(k) \in R
  PROVE  IsMap(Moved(map, u), R, V)
<1>1. ASSUME NEW q \in DOMAIN Moved(map, u)
      PROVE  q \in R /\ Moved(map, u)[q] \in V
  <2>1. PICK k \in DOMAIN map : ReuseKey(k) = q /\ k.uri = u
    BY <1>1 DEF Moved
  <2>2. (CHOOSE j \in DOMAIN map : ReuseKey(j) = q) \in DOMAIN map
    BY <2>1
  <2>3. Moved(map, u)[q] = map[CHOOSE j \in DOMAIN map : ReuseKey(j) = q]
    BY <1>1 DEF Moved
  <2> QED BY <2>1, <2>2, <2>3 DEF IsMap
<1> QED BY <1>1 DEF IsMap

\* A lookup returns a value of the map, or None when the key is missing.
LEMMA GetOfMap ==
  ASSUME NEW map, NEW K, NEW V, IsMap(map, K, V), NEW k
  PROVE  Get(map, k) \in V \cup {None}
BY DEF IsMap, Get

\* A new cache is a well-typed map, whatever it is to hold.
LEMMA EmptyIsMap ==
  ASSUME NEW K, NEW V
  PROVE IsMap(Empty, K, V)
BY DEF IsMap, Empty

\* CompleteContext returns a result, with or without an earlier one to reuse.
LEMMA CompleteType ==
  ASSUME NEW w \in Workers, NEW s \in Snaps, NEW p \in Result,
         NEW names \in SUBSET Names, NEW previous \in Result \cup {None}
  PROVE  Complete(w, s, p, names, previous) \in Result
BY NoneAssumption DEF Complete, Result, Constants, Table

\* AnalyzeContext returns a result, with or without an earlier one to reuse.
LEMMA AnalyzeContextType ==
  ASSUME NEW w \in Workers, NEW s \in Snaps, NEW u \in Uris, NEW o \in Options,
         NEW t \in Texts, NEW previous \in Result \cup {None}
  PROVE  AnalyzeContext(w, s, u, o, t, previous) \in Result
<1> DEFINE stable == previous # None /\ t \in Stable[previous.text]
           compatible == previous # None /\ t \in Compatible[previous.text]
           new == NewTable(w, s, u, o, t)
           result ==
        [by |-> w, at |-> s, uri |-> u, options |-> o, text |-> t,
         symbols |-> IF stable THEN previous.symbols ELSE new,
         expanded |-> IF compatible THEN previous.expanded ELSE new,
         local |-> stable, unresolved |-> {}, constant |-> None]
<1>1. new \in Table
  BY TextsAssumption DEF NewTable, Table
<1>2. result \in Result
  <2>1. stable \in BOOLEAN OBVIOUS
  <2>2. /\ (IF stable THEN previous.symbols ELSE new) \in Table
        /\ (IF compatible THEN previous.expanded ELSE new) \in Table
    BY <1>1 DEF Result
  <2> HIDE DEF stable, compatible, new
  <2> QED BY <2>1, <2>2 DEF Result, Constants
<1>3. Complete(w, s, result, {}, previous) \in Result
  <2> HIDE DEF result
  <2> QED BY <1>2, CompleteType
<1> QED BY <1>2, <1>3 DEF AnalyzeContext
----------------------------------------------------------------------------
(* What a goroutine's locals are, by where it is. *)

Looping1 == {"prepare", "analyzing"}
Looping2 == {"complete", "completing"}
Resolving == {"resolve", "building"}

CallOK(w) ==
  LET us == call[w].uris
  IN /\ IF pc[w] = "idle" THEN call[w] = None
        ELSE call[w] \in Call /\ call[w].snap <= count
     /\ pc[w] \notin {"idle", "start", "failed"} =>
          \A u \in us : docs[Me(w)][u] # None
     /\ pc[w] \in Looping2 \cup Resolving => call[w].op = "workspace"

LocalsOK(w) ==
  LET us == call[w].uris
  IN /\ pc[w] \in {"idle", "start"} => DOMAIN prepared[w] = {}
     /\ pc[w] \in {"idle", "start"} \cup Looping1 \cup Resolving => DOMAIN files[w] = {}
     /\ pc[w] \in Looping1 => todo[w] \subseteq us /\ DOMAIN prepared[w] = us \ todo[w]
     /\ pc[w] \in Resolving \cup Looping2 \cup {"done"} => DOMAIN prepared[w] = us
     /\ pc[w] \in Looping2 => todo[w] \subseteq us /\ DOMAIN files[w] = us \ todo[w]
     /\ pc[w] = "done" /\ call[w].op = "workspace" => DOMAIN files[w] = us

TypeInv == TypeOK /\ \A w \in Workers : CallOK(w) /\ LocalsOK(w)

\* New returns a snapshot that satisfies the inductive type invariant.
LEMMA TypeInvInit == Init => TypeInv
<1> SUFFICES ASSUME Init PROVE TypeInv
  OBVIOUS
<1>1. PICK d \in InitialDocs :
        docs = [s \in Snaps |-> IF s = 1 THEN d ELSE [u \in Uris |-> None]]
  BY DEF Init
<1>2. docs \in [Snaps -> [Uris -> Document \cup {None}]]
  BY <1>1, InitialDocsAssumption
<1>3. \A s \in Snaps : \A K, V : IsMap(cache[s], K, V) /\ IsMap(complete[s], K, V)
                         /\ IsMap(prior[s], K, V) /\ IsMap(priorComplete[s], K, V)
  BY EmptyIsMap DEF Init
<1>4. \A w \in Workers : \A K, V : IsMap(prepared[w], K, V) /\ IsMap(files[w], K, V)
  BY EmptyIsMap DEF Init
<1>5. TypeOK
  <2>1. count \in Snaps /\ calls \in 0..MaxCalls
    BY BoundsAssumption DEF Init, Snaps
  <2>2. /\ pc \in [Workers -> PCs] /\ call \in [Workers -> Call \cup {None}]
        /\ todo \in [Workers -> SUBSET Uris] /\ resolver \in [Workers -> SUBSET Names]
    BY DEF Init, PCs
  <2>3. DOMAIN workspace = Snaps /\ \A s \in Snaps : workspace[s] = Empty
    BY DEF Init
  <2>4. \A s \in Snaps : DOMAIN workspace[s] = {}
    BY <2>3 DEF Empty
  <2>5. DOMAIN prepared = Workers /\ DOMAIN files = Workers
    BY DEF Init
  <2>6. /\ AreMaps(cache, CacheKeys, Result) /\ AreMaps(complete, CompleteKeys, Result)
        /\ AreMaps(prior, ReuseKeys, Result)
        /\ AreMaps(priorComplete, CompleteReuseKeys, Result)
    BY <1>3 DEF AreMaps, Init
  <2> QED BY <1>2, <1>4, <2>1, <2>2, <2>3, <2>4, <2>5, <2>6 DEF TypeOK, FieldsTyped, LocalsTyped
<1>6. ASSUME NEW w \in Workers PROVE CallOK(w) /\ LocalsOK(w)
  BY DEF Init, CallOK, LocalsOK, Looping1, Looping2, Resolving, Empty
<1> QED BY <1>5, <1>6 DEF TypeInv

\* The fields keep their types when a snapshot is derived.
LEMMA TypeInvUpdate ==
  ASSUME TypeInv, NEW s \in Snaps, NEW u \in Uris, NEW d \in Document, Update(s, u, d)
  PROVE  TypeInv'
<1> DEFINE n == count + 1
<1>1. n \in Snaps /\ count \in Snaps /\ count < n
  BY BoundsAssumption DEF TypeInv, TypeOK, FieldsTyped, LocalsTyped, Snaps, Update, Derive
<1>2. docs' \in [Snaps -> [Uris -> Document \cup {None}]]
  BY DEF TypeInv, TypeOK, FieldsTyped, LocalsTyped, Update, Derive
<1>3. AreMaps(cache, CacheKeys, Result)' /\ AreMaps(complete, CompleteKeys, Result)'
  <2>1. /\ IsMap(Kept(cache[s], u), CacheKeys, Result)
        /\ IsMap(Kept(complete[s], u), CompleteKeys, Result)
    BY KeptIsMap DEF TypeInv, TypeOK, FieldsTyped, LocalsTyped, AreMaps
  <2> QED BY <2>1 DEF TypeInv, TypeOK, FieldsTyped, LocalsTyped, AreMaps, Update, Derive
<1>4. AreMaps(prior, ReuseKeys, Result)' /\ AreMaps(priorComplete, CompleteReuseKeys, Result)'
  <2>1. \A k \in CacheKeys : ReuseKey(k) \in ReuseKeys
    BY DEF CacheKeys, ReuseKeys, ReuseKey
  <2>2. \A k \in CompleteKeys : ReuseKey(k) \in CompleteReuseKeys
    BY DEF CompleteKeys, CompleteReuseKeys, ReuseKey
  <2>3. /\ IsMap(Moved(cache[s], u), ReuseKeys, Result)
        /\ IsMap(Moved(complete[s], u), CompleteReuseKeys, Result)
    BY <2>1, <2>2, MovedIsMap DEF TypeInv, TypeOK, FieldsTyped, LocalsTyped, AreMaps
  <2> QED BY <2>3 DEF TypeInv, TypeOK, FieldsTyped, LocalsTyped, AreMaps, Update, Derive
<1>5. DOMAIN workspace' = Snaps /\ \A x \in Snaps :
        /\ DOMAIN workspace'[x] \subseteq WorkspaceKeys
        /\ \A k \in DOMAIN workspace'[x] : IsIndex(workspace'[x][k], k.uris)
  BY DEF TypeInv, TypeOK, FieldsTyped, LocalsTyped, Update, Derive
<1>6. TypeOK'
  BY <1>1, <1>2, <1>3, <1>4, <1>5 DEF TypeInv, TypeOK, FieldsTyped, LocalsTyped, Update, Derive, AreMaps
<1>7. ASSUME NEW w \in Workers PROVE CallOK(w)' /\ LocalsOK(w)'
  <2>1. LocalsOK(w)'
    BY DEF TypeInv, LocalsOK, Update, Derive
  <2>2. pc[w] # "idle" => docs'[Me(w)] = docs[Me(w)]
    BY <1>1 DEF TypeInv, TypeOK, FieldsTyped, LocalsTyped, CallOK, Update, Derive, Me, Call, Snaps
  <2>3. CallOK(w)'
    BY <1>1, <2>2 DEF TypeInv, TypeOK, FieldsTyped, LocalsTyped, CallOK, Update, Derive, Me, Call, Snaps
  <2> QED BY <2>1, <2>3
<1> QED BY <1>6, <1>7 DEF TypeInv
----------------------------------------------------------------------------
(* The steps of one goroutine.  Those that publish nothing leave the       *)
(* fields alone; the others change the maps of their own snapshot.         *)

\* A call that begins has a request of the right type and empty locals.
LEMMA BeginStep ==
  ASSUME TypeInv, NEW w \in Workers, NEW s \in Snaps, NEW q \in Requests, Begin(w, s, q)
  PROVE  TypeInv'
<1> USE DEF Begin, fields
<1>1. [op |-> q.op, snap |-> s, uris |-> q.uris, options |-> q.options] \in Call
  BY RequestsAssumption DEF Call
<1>2. TypeOK'
  BY <1>1, BoundsAssumption DEF TypeInv, TypeOK, FieldsTyped, LocalsTyped, PCs
<1>3. ASSUME NEW x \in Workers PROVE CallOK(x)' /\ LocalsOK(x)'
  BY <1>1 DEF TypeInv, TypeOK, LocalsTyped, CallOK, LocalsOK, Me, Looping1, Looping2, Resolving
<1> QED BY <1>2, <1>3 DEF TypeInv

\* Entering the first loop, failing, leaving a lookup empty-handed, being
\* cancelled and returning: steps that touch no cache keep the invariant.
LEMMA ControlStep ==
  ASSUME TypeInv, NEW w \in Workers,
         \/ Missing(w) \/ Start(w) \/ ResolveMiss(w) \/ Cancel(w) \/ Collect(w)
         \/ \E u \in Uris : PrepareMiss(w, u) \/ CompleteMiss(w, u)
  PROVE  TypeInv'
<1> USE DEF fields
<1>1. CASE Missing(w) \/ Start(w)
  <2>1. call[w] \in Call
    BY <1>1 DEF TypeInv, CallOK, Missing, Start
  <2>2. TypeOK'
    BY <1>1, <2>1 DEF TypeInv, TypeOK, FieldsTyped, LocalsTyped, PCs, Missing, Start, Call
  <2>3. ASSUME NEW x \in Workers PROVE CallOK(x)' /\ LocalsOK(x)'
    BY <1>1, <2>1 DEF TypeInv, TypeOK, LocalsTyped, CallOK, LocalsOK, Me, Missing, Start,
         Looping1, Looping2, Resolving, Call
  <2> QED BY <2>2, <2>3 DEF TypeInv
<1>2. CASE ResolveMiss(w) \/ Cancel(w) \/ \E u \in Uris : PrepareMiss(w, u) \/ CompleteMiss(w, u)
  <2>1. TypeOK'
    BY <1>2 DEF TypeInv, TypeOK, FieldsTyped, LocalsTyped, PCs, ResolveMiss, Cancel, PrepareMiss, CompleteMiss
  <2>2. ASSUME NEW x \in Workers PROVE CallOK(x)' /\ LocalsOK(x)'
    BY <1>2 DEF TypeInv, TypeOK, LocalsTyped, CallOK, LocalsOK, Me, ResolveMiss, Cancel, PrepareMiss, CompleteMiss,
         Looping1, Looping2, Resolving
  <2> QED BY <2>1, <2>2 DEF TypeInv
<1>3. CASE Collect(w)
  <2>1. TypeOK'
    BY <1>3, EmptyIsMap DEF TypeInv, TypeOK, FieldsTyped, LocalsTyped, PCs, Collect
  <2>2. ASSUME NEW x \in Workers PROVE CallOK(x)' /\ LocalsOK(x)'
    BY <1>3 DEF TypeInv, TypeOK, LocalsTyped, CallOK, LocalsOK, Me, Collect, Looping1, Looping2, Resolving, Empty
  <2> QED BY <2>1, <2>2 DEF TypeInv
<1> QED BY <1>1, <1>2, <1>3

\* The locals after a document of the first loop is prepared.
LEMMA PreparedStep ==
  ASSUME TypeInv, NEW w \in Workers, NEW u \in Uris, NEW r \in Result,
         pc[w] \in Looping1, Current(w, u), PreparedWith(w, u, r), docs' = docs
  PROVE  LocalsTyped' /\ \A x \in Workers : CallOK(x)' /\ LocalsOK(x)'
<1> USE DEF PreparedWith
<1>1. u \in todo[w] /\ u \in call[w].uris /\ call[w] \in Call
  BY DEF TypeInv, CallOK, LocalsOK, Current, Looping1
<1>2. IsMap(Put(prepared[w], u, r), Uris, Result)
  BY PutIsMap DEF TypeInv, TypeOK, LocalsTyped
<1>3. LocalsTyped'
  BY <1>2 DEF TypeInv, TypeOK, LocalsTyped, PCs
<1>4. DOMAIN Put(prepared[w], u, r) = DOMAIN prepared[w] \cup {u}
  BY DEF Put
<1>5. ASSUME NEW x \in Workers PROVE CallOK(x)' /\ LocalsOK(x)'
  <2>1. CASE x # w
    BY <2>1 DEF TypeInv, TypeOK, LocalsTyped, CallOK, LocalsOK, Me
  <2>2. CASE x = w
    <3>1. CallOK(w)'
      BY <1>1 DEF TypeInv, TypeOK, LocalsTyped, CallOK, Me, Call, Looping1, Looping2, Resolving
    <3>2. /\ pc'[w] = "prepare" => todo'[w] # {}
          /\ DOMAIN prepared'[w] = call[w].uris \ todo'[w]
          /\ todo'[w] \subseteq call[w].uris
          /\ pc'[w] # "prepare" => todo'[w] = {}
      BY <1>1, <1>4 DEF TypeInv, TypeOK, LocalsTyped, LocalsOK, Looping1
    <3>3. LocalsOK(w)'
      BY <3>2, <1>1 DEF TypeInv, TypeOK, LocalsTyped, LocalsOK, Looping1, Looping2, Resolving
    <3> QED BY <2>2, <3>1, <3>3
  <2> QED BY <2>1, <2>2
<1> QED BY <1>3, <1>5

\* Inside the first loop the document it is at is open in its snapshot.
LEMMA PrepareKeyType ==
  ASSUME TypeInv, NEW w \in Workers, NEW u \in Uris, pc[w] \in Looping1, Current(w, u)
  PROVE  /\ Me(w) \in Snaps /\ PrepareOptions(call[w]) \in Options
         /\ docs[Me(w)][u] \in Document /\ PrepareKey(w, u) \in CacheKeys
<1>1. call[w] \in Call /\ u \in call[w].uris
  BY DEF TypeInv, CallOK, LocalsOK, Current, Looping1
<1>2. Me(w) \in Snaps /\ PrepareOptions(call[w]) \in Options
  BY <1>1, OptionsAssumption DEF Me, PrepareOptions, Call
<1>3. docs[Me(w)][u] \in Document
  BY <1>1, <1>2 DEF TypeInv, TypeOK, FieldsTyped, CallOK, Looping1
<1> QED BY <1>2, <1>3 DEF PrepareKey, CacheKey, CacheKeys, Document

\* A lookup that finds a prepared result keeps the type invariant.
LEMMA PrepareHitStep ==
  ASSUME TypeInv, NEW w \in Workers, NEW u \in Uris, PrepareHit(w, u)
  PROVE  TypeInv'
<1> DEFINE r == cache[Me(w)][PrepareKey(w, u)]
<1>1. r \in Result
  BY PrepareKeyType DEF TypeInv, TypeOK, FieldsTyped, AreMaps, IsMap, PrepareHit, Looping1
<1>2. LocalsTyped' /\ \A x \in Workers : CallOK(x)' /\ LocalsOK(x)'
  BY <1>1, PreparedStep DEF PrepareHit, Looping1, fields
<1> QED BY <1>2 DEF TypeInv, TypeOK, FieldsTyped, PrepareHit, PreparedWith, fields

\* Publishing a prepared result keeps the type invariant.
LEMMA AnalyzedStep ==
  ASSUME TypeInv, NEW w \in Workers, NEW u \in Uris, Analyzed(w, u)
  PROVE  TypeInv'
<1> DEFINE s == Me(w)
           k == PrepareKey(w, u)
           published == Publish(cache[s], k, Prepare(w, u))
<1>1. pc[w] \in Looping1 /\ Current(w, u)
  BY DEF Analyzed, Looping1
<1>2. s \in Snaps /\ k \in CacheKeys
  BY <1>1, PrepareKeyType
<1>3. Prepare(w, u) \in Result
  <2>1. Get(prior[s], ReuseKey(k)) \in Result \cup {None}
    BY <1>2, GetOfMap DEF TypeInv, TypeOK, FieldsTyped, AreMaps
  <2> QED BY <1>1, <2>1, PrepareKeyType, AnalyzeContextType DEF Prepare, Document
<1>4. /\ IsMap(published, CacheKeys, Result) /\ published[k] \in Result
  BY <1>2, <1>3, PublishIsMap DEF TypeInv, TypeOK, FieldsTyped, AreMaps
<1>5. FieldsTyped'
  BY <1>2, <1>4 DEF TypeInv, TypeOK, FieldsTyped, AreMaps, Analyzed, frozen
<1>6. LocalsTyped' /\ \A x \in Workers : CallOK(x)' /\ LocalsOK(x)'
  BY <1>1, <1>4, PreparedStep DEF Analyzed, frozen
<1>7. count' = count /\ calls' = calls
  BY DEF Analyzed, PreparedWith
<1> QED BY <1>5, <1>6, <1>7 DEF TypeInv, TypeOK

\* The locals once a resolver is at hand.
LEMMA ResolvedStep ==
  ASSUME TypeInv, NEW w \in Workers, NEW names \in SUBSET Names,
         pc[w] \in Resolving, ResolvedWith(w, names), docs' = docs
  PROVE  LocalsTyped' /\ \A x \in Workers : CallOK(x)' /\ LocalsOK(x)'
<1> USE DEF ResolvedWith
<1>1. call[w] \in Call
  BY DEF TypeInv, CallOK, Resolving
<1>2. LocalsTyped'
  BY <1>1 DEF TypeInv, TypeOK, LocalsTyped, PCs, Call
<1>3. ASSUME NEW x \in Workers PROVE CallOK(x)' /\ LocalsOK(x)'
  BY <1>1 DEF TypeInv, TypeOK, LocalsTyped, CallOK, LocalsOK, Me, Looping1, Looping2, Resolving
<1> QED BY <1>2, <1>3

\* The key of a workspace index names the documents of the request.
LEMMA WorkspaceKeyType ==
  ASSUME TypeInv, NEW w \in Workers, pc[w] \in Resolving
  PROVE  Me(w) \in Snaps /\ WorkspaceKey(w) \in WorkspaceKeys /\ call[w].uris \subseteq Uris
BY OptionsAssumption DEF TypeInv, CallOK, Resolving, Me, WorkspaceKey, WorkspaceKeys, Call

\* The index a goroutine builds is one over its own documents.
LEMMA NewIndexType ==
  ASSUME TypeInv, NEW w \in Workers, pc[w] \in Resolving
  PROVE  IsIndex(NewIndex(w), call[w].uris)
<1>1. \A u \in call[w].uris : prepared[w][u] \in Result
  BY DEF TypeInv, TypeOK, LocalsTyped, LocalsOK, Resolving, IsMap
<1>2. \A u \in call[w].uris : Tables(w)[u] \in Table
  BY <1>1 DEF Tables, Result
<1>3. DOMAIN Tables(w) = call[w].uris
  BY DEF Tables
<1> QED BY <1>2, <1>3 DEF IsIndex, NewIndex, Table

\* Taking a usable workspace index keeps the type invariant.
LEMMA ResolveHitStep ==
  ASSUME TypeInv, NEW w \in Workers, ResolveHit(w)
  PROVE  TypeInv'
<1>1. pc[w] \in Resolving
  BY DEF ResolveHit, Resolving
<1>2. workspace[Me(w)][WorkspaceKey(w)].names \in SUBSET Names
  BY <1>1, WorkspaceKeyType DEF TypeInv, TypeOK, FieldsTyped, IsIndex, ResolveHit, Usable
<1>3. LocalsTyped' /\ \A x \in Workers : CallOK(x)' /\ LocalsOK(x)'
  BY <1>1, <1>2, ResolvedStep DEF ResolveHit, fields
<1> QED BY <1>3 DEF TypeInv, TypeOK, FieldsTyped, ResolveHit, ResolvedWith, fields

\* Publishing a workspace index keeps the type invariant.
LEMMA BuiltStep ==
  ASSUME TypeInv, NEW w \in Workers, Built(w)
  PROVE  TypeInv'
<1> DEFINE s == Me(w)
           k == WorkspaceKey(w)
           published == IF Usable(w) THEN workspace[s] ELSE Put(workspace[s], k, NewIndex(w))
<1>1. pc[w] \in Resolving
  BY DEF Built, Resolving
<1>2. s \in Snaps /\ k \in WorkspaceKeys /\ k.uris = call[w].uris
  BY <1>1, WorkspaceKeyType DEF WorkspaceKey
<1>3. /\ DOMAIN published \subseteq WorkspaceKeys /\ k \in DOMAIN published
      /\ \A j \in DOMAIN published : IsIndex(published[j], j.uris)
  BY <1>1, <1>2, NewIndexType DEF TypeInv, TypeOK, FieldsTyped, Put, Usable
<1>4. published[k].names \in SUBSET Names
  BY <1>2, <1>3 DEF IsIndex
<1>5. FieldsTyped'
  BY <1>2, <1>3 DEF TypeInv, TypeOK, FieldsTyped, Built, frozen
<1>6. LocalsTyped' /\ \A x \in Workers : CallOK(x)' /\ LocalsOK(x)'
  BY <1>1, <1>4, ResolvedStep DEF Built, frozen
<1>7. count' = count /\ calls' = calls
  BY DEF Built, ResolvedWith
<1> QED BY <1>5, <1>6, <1>7 DEF TypeInv, TypeOK

\* The locals after a document of the second loop is completed.
LEMMA CompletedLocals ==
  ASSUME TypeInv, NEW w \in Workers, NEW u \in Uris, NEW r \in Result,
         pc[w] \in Looping2, Current(w, u), CompletedWith(w, u, r), docs' = docs
  PROVE  LocalsTyped' /\ \A x \in Workers : CallOK(x)' /\ LocalsOK(x)'
<1> USE DEF CompletedWith
<1>1. u \in todo[w] /\ u \in call[w].uris /\ call[w] \in Call
  BY DEF TypeInv, CallOK, LocalsOK, Current, Looping2
<1>2. IsMap(Put(files[w], u, r), Uris, Result)
  BY PutIsMap DEF TypeInv, TypeOK, LocalsTyped
<1>3. LocalsTyped'
  BY <1>2 DEF TypeInv, TypeOK, LocalsTyped, PCs
<1>4. DOMAIN Put(files[w], u, r) = DOMAIN files[w] \cup {u}
  BY DEF Put
<1>5. ASSUME NEW x \in Workers PROVE CallOK(x)' /\ LocalsOK(x)'
  <2>1. CASE x # w
    BY <2>1 DEF TypeInv, TypeOK, LocalsTyped, CallOK, LocalsOK, Me
  <2>2. CASE x = w
    <3>1. CallOK(w)'
      BY <1>1 DEF TypeInv, TypeOK, LocalsTyped, CallOK, Me, Call, Looping2, Resolving
    <3>2. /\ DOMAIN files'[w] = call[w].uris \ todo'[w]
          /\ todo'[w] \subseteq call[w].uris
          /\ pc'[w] # "complete" => todo'[w] = {}
      BY <1>1, <1>4 DEF TypeInv, TypeOK, LocalsTyped, LocalsOK, Looping2
    <3>3. LocalsOK(w)'
      BY <3>2, <1>1 DEF TypeInv, TypeOK, LocalsTyped, LocalsOK, Looping1, Looping2, Resolving
    <3> QED BY <2>2, <3>1, <3>3
  <2> QED BY <2>1, <2>2
<1> QED BY <1>3, <1>5

\* Inside the second loop the document it is at was prepared in the first.
LEMMA CompleteKeyType ==
  ASSUME TypeInv, NEW w \in Workers, NEW u \in Uris, pc[w] \in Looping2, Current(w, u)
  PROVE  /\ Me(w) \in Snaps /\ docs[Me(w)][u] \in Document
         /\ CompleteKey(w, u) \in CompleteKeys /\ prepared[w][u] \in Result
<1>1. call[w] \in Call /\ u \in call[w].uris
  BY DEF TypeInv, CallOK, LocalsOK, Current, Looping2
<1>2. Me(w) \in Snaps /\ docs[Me(w)][u] \in Document
  BY <1>1 DEF TypeInv, TypeOK, FieldsTyped, CallOK, Looping2, Me, Call
<1>3. CompleteOptions(call[w].options, resolver[w]) \in FullOptions
  BY <1>1 DEF TypeInv, TypeOK, LocalsTyped, Call, CompleteOptions, FullOptions
<1>4. prepared[w][u] \in Result
  BY <1>1 DEF TypeInv, TypeOK, LocalsTyped, LocalsOK, IsMap, Looping2
<1> QED BY <1>2, <1>3, <1>4 DEF CompleteKey, CacheKey, CompleteKeys, Document

\* A lookup that finds a completed result keeps the type invariant.
LEMMA CompleteHitStep ==
  ASSUME TypeInv, NEW w \in Workers, NEW u \in Uris, CompleteHit(w, u)
  PROVE  TypeInv'
<1> DEFINE r == complete[Me(w)][CompleteKey(w, u)]
<1>1. r \in Result
  BY CompleteKeyType DEF TypeInv, TypeOK, FieldsTyped, AreMaps, IsMap, CompleteHit, Looping2
<1>2. LocalsTyped' /\ \A x \in Workers : CallOK(x)' /\ LocalsOK(x)'
  BY <1>1, CompletedLocals DEF CompleteHit, Looping2, fields
<1> QED BY <1>2 DEF TypeInv, TypeOK, FieldsTyped, CompleteHit, CompletedWith, fields

\* Publishing a completed result keeps the type invariant.
LEMMA CompletedStep ==
  ASSUME TypeInv, NEW w \in Workers, NEW u \in Uris, Completed(w, u)
  PROVE  TypeInv'
<1> DEFINE s == Me(w)
           k == CompleteKey(w, u)
           published == Publish(complete[s], k, Finish(w, u))
<1>1. pc[w] \in Looping2 /\ Current(w, u)
  BY DEF Completed, Looping2
<1>2. s \in Snaps /\ k \in CompleteKeys
  BY <1>1, CompleteKeyType
<1>3. Finish(w, u) \in Result
  <2>1. Get(priorComplete[s], ReuseKey(k)) \in Result \cup {None}
    BY <1>2, GetOfMap DEF TypeInv, TypeOK, FieldsTyped, AreMaps
  <2>2. resolver[w] \in SUBSET Names
    BY DEF TypeInv, TypeOK, LocalsTyped
  <2> QED BY <1>1, <2>1, <2>2, CompleteKeyType, CompleteType DEF Finish
<1>4. /\ IsMap(published, CompleteKeys, Result) /\ published[k] \in Result
  BY <1>2, <1>3, PublishIsMap DEF TypeInv, TypeOK, FieldsTyped, AreMaps
<1>5. FieldsTyped'
  BY <1>2, <1>4 DEF TypeInv, TypeOK, FieldsTyped, AreMaps, Completed, frozen
<1>6. LocalsTyped' /\ \A x \in Workers : CallOK(x)' /\ LocalsOK(x)'
  BY <1>1, <1>4, CompletedLocals DEF Completed, frozen
<1>7. count' = count /\ calls' = calls
  BY DEF Completed, CompletedWith
<1> QED BY <1>5, <1>6, <1>7 DEF TypeInv, TypeOK

\* Every step keeps the inductive type invariant.
LEMMA TypeInvStep == TypeInv /\ [Next]_vars => TypeInv'
<1> SUFFICES ASSUME TypeInv, [Next]_vars PROVE TypeInv'
  OBVIOUS
<1>1. CASE UNCHANGED vars
  BY <1>1 DEF vars, TypeInv, TypeOK, FieldsTyped, LocalsTyped, AreMaps, CallOK, LocalsOK, Me
<1>2. ASSUME NEW s \in Snaps, NEW u \in Uris, NEW d \in Document, Update(s, u, d)
      PROVE  TypeInv'
  BY <1>2, TypeInvUpdate
<1>3. ASSUME NEW w \in Workers, NEW s \in Snaps, NEW q \in Requests, Begin(w, s, q)
      PROVE  TypeInv'
  BY <1>3, BeginStep
<1>4. ASSUME NEW w \in Workers, Step(w) \/ Cancel(w) \/ Collect(w)
      PROVE  TypeInv'
  BY <1>4, ControlStep, PrepareHitStep, AnalyzedStep, ResolveHitStep, BuiltStep,
     CompleteHitStep, CompletedStep DEF Step
<1> QED BY <1>1, <1>2, <1>3, <1>4 DEF Next

\* The inductive type invariant: TypeOK, and that a goroutine's locals fit the
\* place in AnalyzeDocuments it has reached (its request, what is left to visit,
\* which documents already have a result).
THEOREM TypeInvariant == Spec => []TypeInv
BY TypeInvInit, TypeInvStep, PTL DEF Spec

\* Every field of every snapshot, and every local of every goroutine, keeps
\* the type its Go declaration gives it, for any number of goroutines,
\* documents, snapshots and option sets.
THEOREM TypeCorrectness == Spec => []TypeOK
<1>1. TypeInv => TypeOK BY DEF TypeInv
<1> QED BY <1>1, TypeInvariant, PTL
----------------------------------------------------------------------------
(* What the maps and the locals contain.                                   *)

Unresolved(t, names) == Refs[t] \ (Exports[t] \cup names)

\* The tables of a result are those of its text, wherever they come from.
Faithful(r) ==
  /\ r.symbols.exports = Exports[r.text] /\ r.symbols.refs = Refs[r.text]
  /\ r.expanded.exports = Exports[r.text]

CleanPrepared(r, o) ==
  Faithful(r) /\ r.unresolved = IF o \in SkipSemantics THEN {} ELSE Unresolved(r.text, {})
CleanCompleted(r, o) ==
  Faithful(r) /\ r.unresolved = Unresolved(r.text, o[2])

ResultsOK(s) ==
  /\ Matches(cache[s], docs[s]) /\ Matches(complete[s], docs[s])
  /\ \A k \in DOMAIN cache[s] : CleanPrepared(cache[s][k], k.options)
  /\ \A k \in DOMAIN complete[s] : CleanCompleted(complete[s][k], k.options)

CandidatesOK(s) ==
  /\ \A q \in DOMAIN prior[s] : CleanPrepared(prior[s][q], q.options)
  /\ \A q \in DOMAIN priorComplete[s] : CleanCompleted(priorComplete[s][q], q.options)

\* Every completed result was made from the prepared one of its document, and
\* so shares its table: in the caches, and among the candidates for reuse.
BaseKey(k) == [uri |-> k.uri, version |-> k.version, options |-> Index[k.options[1]]]
BaseReuseKey(q) == [uri |-> q.uri, options |-> Index[q.options[1]]]
PairsOK(s) ==
  /\ \A k \in DOMAIN complete[s] :
       /\ BaseKey(k) \in DOMAIN cache[s]
       /\ cache[s][BaseKey(k)].symbols = complete[s][k].symbols
  /\ \A q \in DOMAIN priorComplete[s] :
       /\ BaseReuseKey(q) \in DOMAIN prior[s]
       /\ prior[s][BaseReuseKey(q)].symbols = priorComplete[s][q].symbols

IndexesOK(s) ==
  \A k \in DOMAIN workspace[s] :
    workspace[s][k].names = UNION {workspace[s][k].tables[u].exports : u \in k.uris}

SnapshotOK(s) ==
  ResultsOK(s) /\ CandidatesOK(s) /\ PairsOK(s) /\ IndexesOK(s)
  /\ Justified(cache[s], priorComplete[s])

\* What a goroutine holds is what the caches of its snapshot hold.
PreparedOK(w) ==
  \A u \in DOMAIN prepared[w] : /\ PrepareKey(w, u) \in DOMAIN cache[Me(w)]
                                /\ prepared[w][u] = cache[Me(w)][PrepareKey(w, u)]
FilesOK(w) ==
  \A u \in DOMAIN files[w] : /\ CompleteKey(w, u) \in DOMAIN complete[Me(w)]
                             /\ files[w][u] = complete[Me(w)][CompleteKey(w, u)]
ResolverOK(w) ==
  pc[w] \in Looping2 \/ (pc[w] = "done" /\ call[w].op = "workspace") =>
    resolver[w] = UNION {Exports[docs[Me(w)][u].text] : u \in call[w].uris}
AnswerOK(w) == PreparedOK(w) /\ FilesOK(w) /\ ResolverOK(w)

ContentInv == (\A s \in Snaps : SnapshotOK(s)) /\ (\A w \in Workers : AnswerOK(w))

\* CompleteContext reports what a clean name check reports, provided that the
\* result it reuses has the same table and was itself clean.
LEMMA CompleteContent ==
  ASSUME NEW w \in Workers, NEW s \in Snaps, NEW p \in Result, Faithful(p),
         NEW names \in SUBSET Names, NEW previous \in Result \cup {None},
         p.local /\ previous # None =>
           /\ p.symbols = previous.symbols /\ Faithful(previous)
           /\ previous.unresolved = Unresolved(previous.text, names)
  PROVE  LET r == Complete(w, s, p, names, previous)
         IN /\ r.text = p.text /\ r.symbols = p.symbols /\ r.local = p.local
            /\ Faithful(r) /\ r.unresolved = Unresolved(p.text, names)
BY DEF Complete, Faithful, Unresolved, Result

\* AnalyzeContext yields a clean prepared result from a clean candidate, and
\* claims a local edit only when it took over the candidate's own table.
LEMMA AnalyzeContextContent ==
  ASSUME NEW w \in Workers, NEW s \in Snaps, NEW u \in Uris, NEW o \in Options,
         NEW t \in Texts, NEW previous \in Result \cup {None},
         previous # None => CleanPrepared(previous, o)
  PROVE  LET r == AnalyzeContext(w, s, u, o, t, previous)
         IN /\ r.text = t /\ CleanPrepared(r, o)
            /\ r.local => previous # None /\ r.symbols = previous.symbols
<1> DEFINE stable == previous # None /\ t \in Stable[previous.text]
           compatible == previous # None /\ t \in Compatible[previous.text]
           new == NewTable(w, s, u, o, t)
           symbols == IF stable THEN previous.symbols ELSE new
           expanded == IF compatible THEN previous.expanded ELSE new
           r1 == [by |-> w, at |-> s, uri |-> u, options |-> o, text |-> t,
                  symbols |-> symbols, expanded |-> expanded,
                  local |-> stable, unresolved |-> {}, constant |-> None]
<1>1. new \in Table /\ new.exports = Exports[t] /\ new.refs = Refs[t]
  BY TextsAssumption DEF NewTable, Table
<1>2. previous # None => previous.text \in Texts /\ Faithful(previous)
  BY DEF Result, CleanPrepared
<1>3. stable => /\ previous # None
                /\ previous.symbols.exports = Exports[t] /\ previous.symbols.refs = Refs[t]
  BY <1>2, StableAssumption, CompatibleAssumption DEF Faithful
<1>4. compatible => previous.expanded.exports = Exports[t]
  BY <1>2, CompatibleAssumption DEF Faithful
<1>5. /\ symbols \in Table /\ symbols.exports = Exports[t] /\ symbols.refs = Refs[t]
      /\ expanded \in Table /\ expanded.exports = Exports[t] /\ stable \in BOOLEAN
      /\ stable => previous # None /\ symbols = previous.symbols
  BY <1>1, <1>3, <1>4 DEF Result
<1>6. r1 \in Result /\ Faithful(r1) /\ r1.text = t /\ r1.local = stable
      /\ r1.symbols = symbols /\ r1.unresolved = {}
  <2> HIDE DEF symbols, expanded, stable
  <2> QED BY <1>5 DEF Result, Faithful, Constants
<1>7. AnalyzeContext(w, s, u, o, t, previous) =
        IF o \in SkipSemantics THEN r1 ELSE Complete(w, s, r1, {}, previous)
  BY DEF AnalyzeContext
<1>8. CASE o \in SkipSemantics
  <2> HIDE DEF r1
  <2> QED BY <1>5, <1>6, <1>7, <1>8 DEF CleanPrepared
<1>9. CASE o \notin SkipSemantics
  <2>1. previous # None => previous.unresolved = Unresolved(previous.text, {})
    BY <1>9 DEF CleanPrepared
  <2> HIDE DEF r1
  <2>2. r1.local /\ previous # None => r1.symbols = previous.symbols
    BY <1>5, <1>6
  <2> HIDE DEF symbols, expanded, stable
  <2>3. LET r == Complete(w, s, r1, {}, previous)
        IN /\ r.text = r1.text /\ r.symbols = r1.symbols /\ r.local = r1.local
           /\ Faithful(r) /\ r.unresolved = Unresolved(r1.text, {})
    BY <2>1, <2>2, <1>2, <1>6, CompleteContent
  <2> QED BY <2>3, <1>5, <1>6, <1>7, <1>9 DEF CleanPrepared
<1> QED BY <1>8, <1>9

\* A map that only grows: present keys keep their values.
Grows(new, old) == DOMAIN old \subseteq DOMAIN new /\ \A k \in DOMAIN old : new[k] = old[k]

\* A goroutine at rest is not disturbed by what others publish or derive.
LEMMA AnswerStable ==
  ASSUME NEW w \in Workers, AnswerOK(w), TypeInv, LocalsOK(w)',
         pc'[w] = pc[w], call'[w] = call[w], resolver'[w] = resolver[w],
         prepared'[w] = prepared[w], files'[w] = files[w],
         pc[w] # "idle" => /\ docs'[Me(w)] = docs[Me(w)]
                           /\ Grows(cache'[Me(w)], cache[Me(w)])
                           /\ Grows(complete'[Me(w)], complete[Me(w)])
  PROVE  AnswerOK(w)'
<1>1. Me(w)' = Me(w)
  BY DEF Me
<1>2. CASE pc[w] = "idle"
  BY <1>2 DEF AnswerOK, PreparedOK, FilesOK, ResolverOK, LocalsOK, Looping2
<1>3. CASE pc[w] # "idle"
  <2>1. PreparedOK(w)'
    BY <1>1, <1>3 DEF AnswerOK, PreparedOK, PrepareKey, Grows
  <2>2. FilesOK(w)'
    BY <1>1, <1>3 DEF AnswerOK, FilesOK, CompleteKey, Grows
  <2>3. ResolverOK(w)'
    BY <1>1, <1>3 DEF AnswerOK, ResolverOK
  <2> QED BY <2>1, <2>2, <2>3 DEF AnswerOK
<1> QED BY <1>2, <1>3

\* The caches of a new snapshot are empty, so nothing in them can be wrong.
LEMMA ContentInit == Init => ContentInv
<1> SUFFICES ASSUME Init PROVE ContentInv
  OBVIOUS
<1>1. \A s \in Snaps : /\ DOMAIN cache[s] = {} /\ DOMAIN complete[s] = {}
                       /\ DOMAIN prior[s] = {} /\ DOMAIN priorComplete[s] = {}
                       /\ DOMAIN workspace[s] = {}
  BY DEF Init, Empty
<1>2. \A w \in Workers : DOMAIN prepared[w] = {} /\ DOMAIN files[w] = {} /\ pc[w] = "idle"
  BY DEF Init, Empty
<1>3. \A s \in Snaps : SnapshotOK(s)
  BY <1>1 DEF SnapshotOK, ResultsOK, CandidatesOK, PairsOK, IndexesOK, Justified, Matches
<1>4. \A w \in Workers : AnswerOK(w)
  BY <1>2 DEF AnswerOK, PreparedOK, FilesOK, ResolverOK, Looping2
<1> QED BY <1>3, <1>4 DEF ContentInv

\* An entry of Moved comes from an entry of the map, for the moved document.
LEMMA MovedEntry ==
  ASSUME NEW map, NEW u, NEW q \in DOMAIN Moved(map, u)
  PROVE  \E k \in DOMAIN map : /\ ReuseKey(k) = q /\ q.uri = u /\ k.uri = u
                               /\ q.options = k.options
                               /\ Moved(map, u)[q] = map[k]
<1> DEFINE c == CHOOSE j \in DOMAIN map : ReuseKey(j) = q
<1>1. PICK k \in DOMAIN map : ReuseKey(k) = q /\ k.uri = u
  BY DEF Moved
<1>2. c \in DOMAIN map /\ ReuseKey(c) = q
  BY <1>1
<1>3. Moved(map, u)[q] = map[c]
  BY DEF Moved
<1> HIDE DEF c
<1>4. q.uri = u /\ c.uri = u /\ q.options = c.options
  BY <1>1, <1>2 DEF ReuseKey
<1> QED BY <1>2, <1>3, <1>4

\* An entry of a map whose keys carry the document's version moves as it is.
LEMMA MovedOfMatching ==
  ASSUME NEW map, NEW d, NEW u, NEW k \in DOMAIN map, k.uri = u,
         DOMAIN map \subseteq CacheKeys, Matches(map, d)
  PROVE  ReuseKey(k) \in DOMAIN Moved(map, u) /\ Moved(map, u)[ReuseKey(k)] = map[k]
<1>1. ReuseKey(k) \in DOMAIN Moved(map, u)
  BY DEF Moved
<1>2. PICK j \in DOMAIN map : /\ ReuseKey(j) = ReuseKey(k)
                              /\ Moved(map, u)[ReuseKey(k)] = map[j]
  BY <1>1, MovedEntry
<1>3. j.uri = k.uri /\ j.options = k.options
  BY <1>2 DEF ReuseKey
<1>4. j.version = k.version
  BY <1>3 DEF Matches
<1>5. j = k
  BY <1>3, <1>4 DEF CacheKeys
<1> QED BY <1>1, <1>2, <1>5

\* Update keeps results paired: what moves to prior and what moves to
\* priorComplete stem from one symbol table.
LEMMA ContentUpdate ==
  ASSUME TypeInv, ContentInv, TypeInv', NEW s \in Snaps, NEW u \in Uris,
         NEW d \in Document, Update(s, u, d)
  PROVE  ContentInv'
<1>0. PICK n \in Snaps : n = count + 1
  BY BoundsAssumption DEF TypeInv, TypeOK, Snaps, Update, Derive
<1>1. count \in Snaps /\ count < n /\ SnapshotOK(s)
  BY <1>0 DEF TypeInv, TypeOK, Snaps, ContentInv
<1>2. ASSUME NEW x \in Snaps, x # n PROVE SnapshotOK(x)'
  <2>1. /\ docs'[x] = docs[x] /\ cache'[x] = cache[x] /\ complete'[x] = complete[x]
        /\ prior'[x] = prior[x] /\ priorComplete'[x] = priorComplete[x]
        /\ workspace'[x] = workspace[x]
    BY <1>0, <1>2 DEF TypeInv, TypeOK, FieldsTyped, AreMaps, Update, Derive
  <2> QED BY <2>1 DEF ContentInv, SnapshotOK, ResultsOK, CandidatesOK, PairsOK, IndexesOK
<1>3. SnapshotOK(n)'
  <2>1. /\ docs'[n] = [docs[s] EXCEPT ![u] = d]
        /\ cache'[n] = Kept(cache[s], u) /\ complete'[n] = Kept(complete[s], u)
        /\ prior'[n] = Moved(cache[s], u) /\ priorComplete'[n] = Moved(complete[s], u)
        /\ workspace'[n] = workspace[s]
    BY <1>0 DEF TypeInv, TypeOK, FieldsTyped, AreMaps, Update, Derive
  <2>2. /\ DOMAIN cache[s] \subseteq CacheKeys /\ DOMAIN complete[s] \subseteq CompleteKeys
        /\ docs[s] \in [Uris -> Document \cup {None}]
    BY DEF TypeInv, TypeOK, FieldsTyped, AreMaps, IsMap
  <2>3. /\ DOMAIN Kept(cache[s], u) = {k \in DOMAIN cache[s] : k.uri # u}
        /\ \A k \in DOMAIN Kept(cache[s], u) : Kept(cache[s], u)[k] = cache[s][k]
        /\ DOMAIN Kept(complete[s], u) = {k \in DOMAIN complete[s] : k.uri # u}
        /\ \A k \in DOMAIN Kept(complete[s], u) : Kept(complete[s], u)[k] = complete[s][k]
    BY DEF Kept
  <2>4. ResultsOK(n)'
    <3>1. \A k \in CacheKeys \cup CompleteKeys : k.uri \in Uris
      BY DEF CacheKeys, CompleteKeys
    <3>2. Matches(Kept(cache[s], u), docs'[n]) /\ Matches(Kept(complete[s], u), docs'[n])
      BY <1>1, <2>1, <2>2, <2>3, <3>1 DEF SnapshotOK, ResultsOK, Matches
    <3> QED BY <1>1, <2>1, <2>3, <3>2 DEF SnapshotOK, ResultsOK
  <2>5. CandidatesOK(n)'
    <3>1. ASSUME NEW q \in DOMAIN Moved(cache[s], u)
          PROVE  CleanPrepared(Moved(cache[s], u)[q], q.options)
      <4>1. PICK k \in DOMAIN cache[s] : q.options = k.options /\ Moved(cache[s], u)[q] = cache[s][k]
        BY MovedEntry
      <4> QED BY <1>1, <4>1 DEF SnapshotOK, ResultsOK
    <3>2. ASSUME NEW q \in DOMAIN Moved(complete[s], u)
          PROVE  CleanCompleted(Moved(complete[s], u)[q], q.options)
      <4>1. PICK k \in DOMAIN complete[s] : q.options = k.options /\ Moved(complete[s], u)[q] = complete[s][k]
        BY MovedEntry
      <4> QED BY <1>1, <4>1 DEF SnapshotOK, ResultsOK
    <3> QED BY <2>1, <3>1, <3>2 DEF CandidatesOK
  <2>6. PairsOK(n)'
    <3>1. ASSUME NEW k \in DOMAIN Kept(complete[s], u)
          PROVE  /\ BaseKey(k) \in DOMAIN Kept(cache[s], u)
                 /\ Kept(cache[s], u)[BaseKey(k)].symbols = Kept(complete[s], u)[k].symbols
      <4>1. k \in DOMAIN complete[s] /\ k.uri # u /\ BaseKey(k).uri = k.uri
        BY <2>3 DEF BaseKey
      <4>2. BaseKey(k) \in DOMAIN cache[s] /\ cache[s][BaseKey(k)].symbols = complete[s][k].symbols
        BY <1>1, <4>1 DEF SnapshotOK, PairsOK
      <4> QED BY <2>3, <4>1, <4>2
    <3>2. ASSUME NEW q \in DOMAIN Moved(complete[s], u)
          PROVE  /\ BaseReuseKey(q) \in DOMAIN Moved(cache[s], u)
                 /\ Moved(cache[s], u)[BaseReuseKey(q)].symbols = Moved(complete[s], u)[q].symbols
      <4>1. PICK k \in DOMAIN complete[s] :
              /\ q.uri = u /\ k.uri = u /\ q.options = k.options
              /\ Moved(complete[s], u)[q] = complete[s][k]
        BY MovedEntry
      <4>2. BaseKey(k) \in DOMAIN cache[s] /\ cache[s][BaseKey(k)].symbols = complete[s][k].symbols
        BY <1>1 DEF SnapshotOK, PairsOK
      <4>3. ReuseKey(BaseKey(k)) = BaseReuseKey(q) /\ BaseKey(k).uri = u
        BY <4>1 DEF ReuseKey, BaseKey, BaseReuseKey
      <4>4. Matches(cache[s], docs[s])
        BY <1>1 DEF SnapshotOK, ResultsOK
      <4>5. /\ ReuseKey(BaseKey(k)) \in DOMAIN Moved(cache[s], u)
            /\ Moved(cache[s], u)[ReuseKey(BaseKey(k))] = cache[s][BaseKey(k)]
        BY <2>2, <4>2, <4>3, <4>4, MovedOfMatching
      <4> QED BY <4>1, <4>2, <4>3, <4>5
    <3> QED BY <2>1, <3>1, <3>2 DEF PairsOK
  <2>7. IndexesOK(n)'
    BY <1>1, <2>1 DEF SnapshotOK, IndexesOK
  <2>8. Justified(cache'[n], priorComplete'[n])
    <3>1. ASSUME NEW k \in DOMAIN Kept(cache[s], u), NEW q \in DOMAIN Moved(complete[s], u)
          PROVE  k.uri # q.uri
      <4>1. q.uri = u
        BY MovedEntry
      <4> QED BY <2>3, <4>1
    <3> QED BY <2>1, <3>1 DEF Justified
  <2> QED BY <2>4, <2>5, <2>6, <2>7, <2>8 DEF SnapshotOK
<1>4. ASSUME NEW w \in Workers PROVE AnswerOK(w)'
  <2>1. AnswerOK(w) /\ LocalsOK(w)'
    BY DEF ContentInv, TypeInv
  <2>2. /\ pc'[w] = pc[w] /\ call'[w] = call[w] /\ resolver'[w] = resolver[w]
        /\ prepared'[w] = prepared[w] /\ files'[w] = files[w]
    BY DEF Update, Derive
  <2>3. pc[w] # "idle" => /\ docs'[Me(w)] = docs[Me(w)] /\ cache'[Me(w)] = cache[Me(w)]
                          /\ complete'[Me(w)] = complete[Me(w)]
    BY <1>0, <1>1 DEF TypeInv, TypeOK, FieldsTyped, AreMaps, CallOK, Update, Derive, Me, Call, Snaps
  <2> QED BY <2>1, <2>2, <2>3, AnswerStable DEF Grows
<1> QED BY <1>2, <1>3, <1>4 DEF ContentInv

\* Steps that publish nothing: the snapshots stay as they are.
LEMMA FieldsStay ==
  ASSUME ContentInv, UNCHANGED fields
  PROVE  \A s \in Snaps : SnapshotOK(s)'
BY DEF ContentInv, fields, SnapshotOK, ResultsOK, CandidatesOK, PairsOK, IndexesOK

\* A new call holds no result yet.
LEMMA ContentBegin ==
  ASSUME TypeInv, ContentInv, TypeInv', NEW w \in Workers, NEW s \in Snaps,
         NEW q \in Requests, Begin(w, s, q)
  PROVE  ContentInv'
<1>1. ASSUME NEW x \in Workers PROVE AnswerOK(x)'
  <2>1. CASE x = w
    BY <2>1 DEF Begin, TypeInv, TypeOK, LocalsTyped, LocalsOK, AnswerOK, PreparedOK,
         FilesOK, ResolverOK, Looping2
  <2>2. CASE x # w
    BY <2>2, AnswerStable DEF Begin, fields, TypeInv, TypeOK, LocalsTyped, ContentInv, Grows
  <2> QED BY <2>1, <2>2
<1>2. UNCHANGED fields
  BY DEF Begin
<1> QED BY <1>1, <1>2, FieldsStay DEF ContentInv

\* Steps that touch no cache leave the content of caches and locals alone.
LEMMA ContentControl ==
  ASSUME TypeInv, ContentInv, TypeInv', NEW w \in Workers,
         \/ Missing(w) \/ Start(w) \/ ResolveMiss(w) \/ Cancel(w) \/ Collect(w)
         \/ \E u \in Uris : PrepareMiss(w, u) \/ CompleteMiss(w, u)
  PROVE  ContentInv'
<1>1. UNCHANGED fields
  BY DEF Missing, Start, ResolveMiss, Cancel, Collect, PrepareMiss, CompleteMiss
<1>2. ASSUME NEW x \in Workers PROVE AnswerOK(x)'
  <2>1. CASE x # w
    <3>1. /\ pc'[x] = pc[x] /\ call'[x] = call[x] /\ resolver'[x] = resolver[x]
          /\ prepared'[x] = prepared[x] /\ files'[x] = files[x]
      BY <2>1 DEF Missing, Start, ResolveMiss, Cancel, Collect, PrepareMiss, CompleteMiss,
           TypeInv, TypeOK, LocalsTyped
    <3> QED BY <1>1, <3>1, AnswerStable DEF fields, TypeInv, ContentInv, Grows
  <2>2. CASE x = w /\ Collect(w)
    <3>1. pc'[w] = "idle" /\ DOMAIN prepared'[w] = {} /\ DOMAIN files'[w] = {}
      BY <2>2 DEF Collect, TypeInv, TypeOK, LocalsTyped, Empty
    <3> QED BY <2>2, <3>1 DEF AnswerOK, PreparedOK, FilesOK, ResolverOK, Looping2
  <2>3. CASE x = w /\ ~Collect(w)
    <3>1. /\ call'[w] = call[w] /\ resolver'[w] = resolver[w]
          /\ prepared'[w] = prepared[w] /\ files'[w] = files[w]
          /\ pc'[w] \in Looping2 \cup {"done"} => pc[w] \in Looping2
      BY <2>3 DEF Missing, Start, ResolveMiss, Cancel, PrepareMiss, CompleteMiss,
           TypeInv, TypeOK, LocalsTyped, Looping2
    <3>2. AnswerOK(w)
      BY DEF ContentInv
    <3> QED BY <1>1, <2>3, <3>1, <3>2 DEF fields, AnswerOK, PreparedOK, FilesOK,
              ResolverOK, PrepareKey, CompleteKey, Me
  <2> QED BY <2>1, <2>2, <2>3
<1> QED BY <1>1, <1>2, FieldsStay DEF ContentInv

\* The locals after the first loop took up what the cache now holds for u.
LEMMA ContentPrepared ==
  ASSUME TypeInv, ContentInv, TypeInv', NEW w \in Workers, NEW u \in Uris,
         pc[w] \in Looping1, docs' = docs, complete' = complete,
         \A s \in Snaps : Grows(cache'[s], cache[s]),
         PrepareKey(w, u) \in DOMAIN cache'[Me(w)],
         PreparedWith(w, u, cache'[Me(w)][PrepareKey(w, u)])
  PROVE  \A x \in Workers : AnswerOK(x)'
<1> SUFFICES ASSUME NEW x \in Workers PROVE AnswerOK(x)'
  OBVIOUS
<1>1. CASE x # w
  <2>1. /\ pc'[x] = pc[x] /\ call'[x] = call[x] /\ resolver'[x] = resolver[x]
        /\ prepared'[x] = prepared[x] /\ files'[x] = files[x]
    BY <1>1 DEF PreparedWith, TypeInv, TypeOK, LocalsTyped
  <2>2. pc[x] # "idle" => Me(x) \in Snaps
    BY DEF TypeInv, CallOK, Call, Me
  <2> QED BY <2>1, <2>2, AnswerStable DEF TypeInv, ContentInv, Grows
<1>2. CASE x = w
  <2>1. /\ call'[w] = call[w] /\ resolver'[w] = resolver[w] /\ files'[w] = files[w]
        /\ prepared'[w] = Put(prepared[w], u, cache'[Me(w)][PrepareKey(w, u)])
        /\ DOMAIN files[w] = {}
        /\ pc'[w] \notin Looping2 /\ (pc'[w] = "done" => call[w].op = "analyze")
    BY DEF PreparedWith, TypeInv, TypeOK, LocalsTyped, LocalsOK, Looping1, Looping2
  <2>2. /\ Me(w)' = Me(w) /\ Me(w) \in Snaps
        /\ \A v : PrepareKey(w, v)' = PrepareKey(w, v)
    BY <2>1 DEF Me, PrepareKey, TypeInv, CallOK, Call, Looping1
  <2>3. PreparedOK(w)'
    BY <2>1, <2>2 DEF PreparedOK, Put, ContentInv, AnswerOK, Grows
  <2>4. FilesOK(w)' /\ ResolverOK(w)'
    BY <2>1 DEF FilesOK, ResolverOK
  <2> QED BY <1>2, <2>3, <2>4 DEF AnswerOK
<1> QED BY <1>1, <1>2

\* A prepared result taken from the cache is the cache's.
LEMMA ContentPrepareHit ==
  ASSUME TypeInv, ContentInv, TypeInv', NEW w \in Workers, NEW u \in Uris, PrepareHit(w, u)
  PROVE  ContentInv'
<1>1. UNCHANGED fields
  BY DEF PrepareHit
<1>2. \A x \in Workers : AnswerOK(x)'
  BY <1>1, ContentPrepared DEF PrepareHit, fields, Looping1, Grows
<1> QED BY <1>1, <1>2, FieldsStay DEF ContentInv

\* A published prepared result is clean, and every candidate that a later
\* completion could reuse with it has the same symbol table.
LEMMA ContentAnalyzed ==
  ASSUME TypeInv, ContentInv, TypeInv', NEW w \in Workers, NEW u \in Uris, Analyzed(w, u)
  PROVE  ContentInv'
<1>0. PICK s \in Snaps : s = Me(w)
  BY PrepareKeyType DEF Analyzed, Looping1
<1> DEFINE k == PrepareKey(w, u)
           r == Prepare(w, u)
           previous == Get(prior[s], ReuseKey(k))
<1>1. /\ k \in CacheKeys /\ k.uri = u /\ docs[s][u] \in Document /\ docs[s][u] # None
      /\ k.version = docs[s][u].version /\ k.options = PrepareOptions(call[w])
      /\ k.options \in Options /\ pc[w] \in Looping1
  BY <1>0, PrepareKeyType, NoneAssumption DEF Analyzed, Looping1, PrepareKey, CacheKey
<1>2. /\ docs' = docs /\ prior' = prior /\ priorComplete' = priorComplete
      /\ complete' = complete /\ workspace' = workspace
      /\ cache' = [cache EXCEPT ![s] = Publish(cache[s], k, r)]
  BY <1>0 DEF Analyzed, frozen
<1>3. SnapshotOK(s)
  BY DEF ContentInv
<1>4. /\ previous \in Result \cup {None}
      /\ previous # None => /\ ReuseKey(k) \in DOMAIN prior[s]
                            /\ previous = prior[s][ReuseKey(k)]
                            /\ CleanPrepared(previous, k.options)
  <2>1. previous \in Result \cup {None}
    BY GetOfMap DEF TypeInv, TypeOK, FieldsTyped, AreMaps
  <2>2. ReuseKey(k).options = k.options
    BY DEF ReuseKey
  <2> QED BY <1>3, <2>1, <2>2 DEF Get, SnapshotOK, CandidatesOK
<1>5. /\ r.text = docs[s][u].text /\ CleanPrepared(r, k.options)
      /\ r.local => previous # None /\ r.symbols = previous.symbols
  <2>1. r = AnalyzeContext(w, s, u, k.options, docs[s][u].text, previous)
    BY <1>0, <1>1 DEF Prepare
  <2>2. docs[s][u].text \in Texts
    BY <1>1 DEF Document
  <2> HIDE DEF r, previous, k
  <2> QED BY <1>1, <1>4, <2>1, <2>2, AnalyzeContextContent
<1> HIDE DEF r, previous
<1>6. cache'[s] = Publish(cache[s], k, r) /\ \A x \in Snaps : x # s => cache'[x] = cache[x]
  BY <1>2 DEF TypeInv, TypeOK, FieldsTyped, AreMaps
<1>7. /\ Grows(cache'[s], cache[s]) /\ DOMAIN cache'[s] = DOMAIN cache[s] \cup {k}
      /\ cache'[s][k] = IF k \in DOMAIN cache[s] THEN cache[s][k] ELSE r
  <2> HIDE DEF k
  <2>1. /\ Grows(Publish(cache[s], k, r), cache[s])
        /\ DOMAIN Publish(cache[s], k, r) = DOMAIN cache[s] \cup {k}
        /\ Publish(cache[s], k, r)[k] = IF k \in DOMAIN cache[s] THEN cache[s][k] ELSE r
    BY DEF Grows, Publish, Put
  <2> QED BY <1>6, <2>1
<1>8. SnapshotOK(s)'
  <2> HIDE DEF k
  <2>1. ResultsOK(s)'
    BY <1>1, <1>2, <1>3, <1>5, <1>7 DEF SnapshotOK, ResultsOK, Matches, Grows
  <2>2. CandidatesOK(s)' /\ IndexesOK(s)'
    BY <1>2, <1>3 DEF SnapshotOK, CandidatesOK, IndexesOK
  <2>3. PairsOK(s)'
    BY <1>2, <1>3, <1>7 DEF SnapshotOK, PairsOK, Grows
  <2>4. Justified(cache'[s], priorComplete'[s])
    <3> SUFFICES ASSUME NEW q \in DOMAIN priorComplete[s], k.uri = q.uri,
                        k.options = Index[q.options[1]], r.local
                 PROVE  r.symbols = priorComplete[s][q].symbols
      BY <1>2, <1>3, <1>7 DEF SnapshotOK, Justified, Grows
    <3>1. BaseReuseKey(q) = ReuseKey(k)
      BY DEF BaseReuseKey, ReuseKey
    <3> QED BY <1>3, <1>4, <1>5, <3>1 DEF SnapshotOK, PairsOK
  <2> QED BY <2>1, <2>2, <2>3, <2>4 DEF SnapshotOK
<1>9. \A x \in Snaps : SnapshotOK(x)'
  <2>1. ASSUME NEW x \in Snaps, x # s PROVE SnapshotOK(x)'
    BY <1>2, <1>6, <2>1 DEF ContentInv, SnapshotOK, ResultsOK, CandidatesOK, PairsOK, IndexesOK
  <2> QED BY <1>8, <2>1
<1>10. \A x \in Workers : AnswerOK(x)'
  <2>1. \A x \in Snaps : Grows(cache'[x], cache[x])
    BY <1>6, <1>7 DEF Grows
  <2>2. PrepareKey(w, u) \in DOMAIN cache'[Me(w)]
    BY <1>0, <1>7
  <2>3. PreparedWith(w, u, cache'[Me(w)][PrepareKey(w, u)])
    BY <1>0, <1>6 DEF Analyzed, r
  <2> QED BY <1>1, <1>2, <2>1, <2>2, <2>3, ContentPrepared
<1> QED BY <1>9, <1>10 DEF ContentInv

\* The names a goroutine's own tables declare are those of its documents.
LEMMA TablesOfDocuments ==
  ASSUME TypeInv, ContentInv, NEW w \in Workers, pc[w] \in Resolving
  PROVE  UNION {Tables(w)[u].exports : u \in call[w].uris}
           = UNION {Exports[docs[Me(w)][u].text] : u \in call[w].uris}
<1>1. ASSUME NEW u \in call[w].uris
      PROVE  Tables(w)[u].exports = Exports[docs[Me(w)][u].text]
  <2>1. u \in DOMAIN prepared[w]
    BY DEF TypeInv, LocalsOK, Resolving
  <2>2. /\ PrepareKey(w, u) \in DOMAIN cache[Me(w)] /\ Me(w) \in Snaps
        /\ prepared[w][u] = cache[Me(w)][PrepareKey(w, u)] /\ PrepareKey(w, u).uri = u
    BY <2>1 DEF ContentInv, AnswerOK, PreparedOK, PrepareKey, CacheKey, TypeInv, CallOK, Me,
         Call, Resolving
  <2>3. Faithful(prepared[w][u]) /\ prepared[w][u].text = docs[Me(w)][u].text
    BY <2>2 DEF ContentInv, SnapshotOK, ResultsOK, Matches, CleanPrepared
  <2> QED BY <2>3 DEF Tables, Faithful
<1> QED BY <1>1

\* The locals once the resolver knows what the documents declare.
LEMMA ContentResolved ==
  ASSUME TypeInv, ContentInv, TypeInv', NEW w \in Workers, NEW names, pc[w] \in Resolving,
         ResolvedWith(w, names), docs' = docs, cache' = cache, complete' = complete,
         names = UNION {Exports[docs[Me(w)][u].text] : u \in call[w].uris}
  PROVE  \A x \in Workers : AnswerOK(x)'
<1> SUFFICES ASSUME NEW x \in Workers PROVE AnswerOK(x)'
  OBVIOUS
<1>1. CASE x # w
  <2>1. /\ pc'[x] = pc[x] /\ call'[x] = call[x] /\ resolver'[x] = resolver[x]
        /\ prepared'[x] = prepared[x] /\ files'[x] = files[x]
    BY <1>1 DEF ResolvedWith, TypeInv, TypeOK, LocalsTyped
  <2> QED BY <2>1, AnswerStable DEF TypeInv, ContentInv, Grows
<1>2. CASE x = w
  <2>1. /\ call'[w] = call[w] /\ resolver'[w] = names /\ files'[w] = files[w]
        /\ prepared'[w] = prepared[w] /\ DOMAIN files[w] = {} /\ Me(w)' = Me(w)
    BY DEF ResolvedWith, TypeInv, TypeOK, LocalsTyped, LocalsOK, Resolving, Me
  <2> QED BY <1>2, <2>1 DEF ContentInv, AnswerOK, PreparedOK, FilesOK, ResolverOK, PrepareKey
<1> QED BY <1>1, <1>2

\* A usable index was built from the request's own tables.
LEMMA ContentResolveHit ==
  ASSUME TypeInv, ContentInv, TypeInv', NEW w \in Workers, ResolveHit(w)
  PROVE  ContentInv'
<1>1. UNCHANGED fields /\ pc[w] \in Resolving
  BY DEF ResolveHit, Resolving
<1>2. WorkspaceKey(w).uris = call[w].uris /\ Me(w) \in Snaps
  BY <1>1, WorkspaceKeyType DEF WorkspaceKey
<1>3. workspace[Me(w)][WorkspaceKey(w)].names = UNION {Tables(w)[u].exports : u \in call[w].uris}
  BY <1>2 DEF ResolveHit, Usable, ContentInv, SnapshotOK, IndexesOK
<1>4. \A x \in Workers : AnswerOK(x)'
  BY <1>1, <1>3, TablesOfDocuments, ContentResolved DEF ResolveHit, fields
<1> QED BY <1>1, <1>4, FieldsStay DEF ContentInv

\* A published index declares what its tables export.
LEMMA ContentBuilt ==
  ASSUME TypeInv, ContentInv, TypeInv', NEW w \in Workers, Built(w)
  PROVE  ContentInv'
<1>0. PICK s \in Snaps : s = Me(w)
  BY WorkspaceKeyType DEF Built, Resolving
<1> DEFINE k == WorkspaceKey(w)
           names == UNION {Tables(w)[u].exports : u \in call[w].uris}
           published == IF Usable(w) THEN workspace[s] ELSE Put(workspace[s], k, NewIndex(w))
<1>1. pc[w] \in Resolving /\ k.uris = call[w].uris /\ SnapshotOK(s)
  BY DEF Built, Resolving, WorkspaceKey, ContentInv
<1>2. /\ published[k].names = names /\ k \in DOMAIN published
      /\ \A j \in DOMAIN published :
           published[j].names = UNION {published[j].tables[u].exports : u \in j.uris}
  <2>1. CASE Usable(w)
    BY <1>0, <1>1, <2>1 DEF Usable, SnapshotOK, IndexesOK
  <2>2. CASE ~Usable(w)
    <3>1. /\ NewIndex(w).names = names /\ NewIndex(w).tables = Tables(w)
          /\ names = UNION {NewIndex(w).tables[u].exports : u \in k.uris}
      BY <1>1 DEF NewIndex
    <3>2. /\ published[k] = NewIndex(w) /\ DOMAIN published = DOMAIN workspace[s] \cup {k}
          /\ \A j \in DOMAIN published : j # k => published[j] = workspace[s][j]
      BY <2>2 DEF Put
    <3> HIDE DEF k, names, published
    <3> QED BY <1>1, <3>1, <3>2 DEF SnapshotOK, IndexesOK
  <2> QED BY <2>1, <2>2
<1>3. /\ docs' = docs /\ prior' = prior /\ priorComplete' = priorComplete
      /\ cache' = cache /\ complete' = complete
      /\ workspace' = [workspace EXCEPT ![s] = published]
  BY <1>0 DEF Built, frozen
<1>4. ASSUME NEW x \in Snaps PROVE SnapshotOK(x)'
  <2>1. workspace'[x] = IF x = s THEN published ELSE workspace[x]
    BY <1>3 DEF TypeInv, TypeOK, FieldsTyped
  <2> HIDE DEF published
  <2>2. IndexesOK(x)'
    BY <1>2, <2>1 DEF IndexesOK, ContentInv, SnapshotOK
  <2> QED BY <1>3, <2>2 DEF ContentInv, SnapshotOK, ResultsOK, CandidatesOK, PairsOK
<1>5. \A x \in Workers : AnswerOK(x)'
  <2>1. ResolvedWith(w, names)
    BY <1>0, <1>2 DEF Built
  <2> QED BY <1>1, <1>3, <2>1, TablesOfDocuments, ContentResolved
<1> QED BY <1>4, <1>5 DEF ContentInv

\* The locals after the second loop took up what the cache now holds for u.
LEMMA ContentFiles ==
  ASSUME TypeInv, ContentInv, TypeInv', NEW w \in Workers, NEW u \in Uris,
         pc[w] \in Looping2, docs' = docs, cache' = cache,
         \A s \in Snaps : Grows(complete'[s], complete[s]),
         CompleteKey(w, u) \in DOMAIN complete'[Me(w)],
         CompletedWith(w, u, complete'[Me(w)][CompleteKey(w, u)])
  PROVE  \A x \in Workers : AnswerOK(x)'
<1> SUFFICES ASSUME NEW x \in Workers PROVE AnswerOK(x)'
  OBVIOUS
<1>1. CASE x # w
  <2>1. /\ pc'[x] = pc[x] /\ call'[x] = call[x] /\ resolver'[x] = resolver[x]
        /\ prepared'[x] = prepared[x] /\ files'[x] = files[x]
    BY <1>1 DEF CompletedWith, TypeInv, TypeOK, LocalsTyped
  <2>2. pc[x] # "idle" => Me(x) \in Snaps
    BY DEF TypeInv, CallOK, Call, Me
  <2> QED BY <2>1, <2>2, AnswerStable DEF TypeInv, ContentInv, Grows
<1>2. CASE x = w
  <2>1. /\ call'[w] = call[w] /\ resolver'[w] = resolver[w] /\ prepared'[w] = prepared[w]
        /\ files'[w] = Put(files[w], u, complete'[Me(w)][CompleteKey(w, u)])
    BY DEF CompletedWith, TypeInv, TypeOK, LocalsTyped
  <2>2. /\ Me(w)' = Me(w) /\ Me(w) \in Snaps
        /\ \A v : /\ PrepareKey(w, v)' = PrepareKey(w, v)
                  /\ CompleteKey(w, v)' = CompleteKey(w, v)
    BY <2>1 DEF Me, PrepareKey, CompleteKey, TypeInv, CallOK, Call, Looping2
  <2>3. FilesOK(w)'
    BY <2>1, <2>2 DEF FilesOK, Put, ContentInv, AnswerOK, Grows
  <2>4. PreparedOK(w)' /\ ResolverOK(w)'
    BY <2>1, <2>2 DEF PreparedOK, ResolverOK, ContentInv, AnswerOK
  <2> QED BY <1>2, <2>3, <2>4 DEF AnswerOK
<1> QED BY <1>1, <1>2

\* A completed result taken from the cache is the cache's.
LEMMA ContentCompleteHit ==
  ASSUME TypeInv, ContentInv, TypeInv', NEW w \in Workers, NEW u \in Uris, CompleteHit(w, u)
  PROVE  ContentInv'
<1>1. UNCHANGED fields
  BY DEF CompleteHit
<1>2. \A x \in Workers : AnswerOK(x)'
  BY <1>1, ContentFiles DEF CompleteHit, fields, Looping2, Grows
<1> QED BY <1>1, <1>2, FieldsStay DEF ContentInv

\* A published completed result is clean, and stems from the prepared one.
LEMMA ContentCompleted ==
  ASSUME TypeInv, ContentInv, TypeInv', NEW w \in Workers, NEW u \in Uris, Completed(w, u)
  PROVE  ContentInv'
<1>0. PICK s \in Snaps : s = Me(w)
  BY CompleteKeyType DEF Completed, Looping2
<1> DEFINE k == CompleteKey(w, u)
           r == Finish(w, u)
           p == prepared[w][u]
           base == PrepareKey(w, u)
           previous == Get(priorComplete[s], ReuseKey(k))
<1>1. /\ k \in CompleteKeys /\ k.uri = u /\ docs[s][u] \in Document /\ docs[s][u] # None
      /\ k.version = docs[s][u].version
      /\ k.options[1] = call[w].options /\ k.options[2] = resolver[w]
      /\ call[w].options \in Options /\ resolver[w] \in SUBSET Names
      /\ pc[w] \in Looping2 /\ p \in Result
  <2>1. pc[w] \in Looping2 /\ call[w].options \in Options /\ resolver[w] \in SUBSET Names
    BY DEF Completed, TypeInv, TypeOK, LocalsTyped, CallOK, Call, Looping2
  <2> QED BY <1>0, <2>1, CompleteKeyType, NoneAssumption
          DEF Completed, CompleteKey, CacheKey, CompleteOptions
<1>2. /\ docs' = docs /\ prior' = prior /\ priorComplete' = priorComplete
      /\ cache' = cache /\ workspace' = workspace
      /\ complete' = [complete EXCEPT ![s] = Publish(complete[s], k, r)]
  BY <1>0 DEF Completed, frozen
<1>3. SnapshotOK(s)
  BY DEF ContentInv
<1>4. /\ base = BaseKey(k) /\ base \in DOMAIN cache[s] /\ p = cache[s][base]
      /\ base.uri = u /\ base.options = Index[call[w].options]
  <2>1. call[w].op = "workspace" /\ u \in DOMAIN prepared[w]
    BY DEF TypeInv, CallOK, LocalsOK, Completed, Current, Looping2
  <2>2. base = BaseKey(k) /\ base.uri = u /\ base.options = Index[call[w].options]
    BY <1>0, <2>1 DEF PrepareKey, PrepareOptions, CompleteKey, CacheKey, BaseKey, CompleteOptions
  <2> QED BY <1>0, <2>1, <2>2 DEF ContentInv, AnswerOK, PreparedOK
<1> HIDE DEF base, p
<1>5. Faithful(p) /\ p.text = docs[s][u].text
  BY <1>3, <1>4 DEF SnapshotOK, ResultsOK, CleanPrepared, Matches
<1>6. /\ previous \in Result \cup {None}
      /\ previous # None => /\ ReuseKey(k) \in DOMAIN priorComplete[s]
                            /\ previous = priorComplete[s][ReuseKey(k)]
                            /\ CleanCompleted(previous, k.options)
  <2>1. previous \in Result \cup {None}
    BY GetOfMap DEF TypeInv, TypeOK, FieldsTyped, AreMaps
  <2>2. ReuseKey(k).options = k.options
    BY DEF ReuseKey
  <2> QED BY <1>3, <2>1, <2>2 DEF Get, SnapshotOK, CandidatesOK
<1>7. p.local /\ previous # None =>
        /\ p.symbols = previous.symbols /\ Faithful(previous)
        /\ previous.unresolved = Unresolved(previous.text, resolver[w])
  <2>1. ReuseKey(k).uri = base.uri /\ base.options = Index[ReuseKey(k).options[1]]
    BY <1>1, <1>4 DEF ReuseKey
  <2> HIDE DEF previous, k
  <2> QED BY <1>1, <1>3, <1>4, <1>6, <2>1 DEF SnapshotOK, Justified, CleanCompleted
<1>8. /\ r.text = docs[s][u].text /\ r.symbols = p.symbols
      /\ CleanCompleted(r, k.options)
  <2>1. r = Complete(w, s, p, resolver[w], previous)
    BY <1>0 DEF Finish, p
  <2> HIDE DEF r, previous, k
  <2> QED BY <1>1, <1>5, <1>6, <1>7, <2>1, CompleteContent DEF CleanCompleted
<1> HIDE DEF r, previous
<1>9. complete'[s] = Publish(complete[s], k, r) /\ \A x \in Snaps : x # s => complete'[x] = complete[x]
  BY <1>2 DEF TypeInv, TypeOK, FieldsTyped, AreMaps
<1>10. /\ Grows(complete'[s], complete[s]) /\ DOMAIN complete'[s] = DOMAIN complete[s] \cup {k}
       /\ complete'[s][k] = IF k \in DOMAIN complete[s] THEN complete[s][k] ELSE r
  <2> HIDE DEF k
  <2>1. /\ Grows(Publish(complete[s], k, r), complete[s])
        /\ DOMAIN Publish(complete[s], k, r) = DOMAIN complete[s] \cup {k}
        /\ Publish(complete[s], k, r)[k] = IF k \in DOMAIN complete[s] THEN complete[s][k] ELSE r
    BY DEF Grows, Publish, Put
  <2> QED BY <1>9, <2>1
<1>11. SnapshotOK(s)'
  <2> HIDE DEF k
  <2>1. ResultsOK(s)'
    BY <1>1, <1>2, <1>3, <1>8, <1>10 DEF SnapshotOK, ResultsOK, Matches, Grows
  <2>2. CandidatesOK(s)' /\ IndexesOK(s)' /\ Justified(cache'[s], priorComplete'[s])
    BY <1>2, <1>3 DEF SnapshotOK, CandidatesOK, IndexesOK
  <2>3. PairsOK(s)'
    BY <1>2, <1>3, <1>4, <1>8, <1>10 DEF SnapshotOK, PairsOK, Grows
  <2> QED BY <2>1, <2>2, <2>3 DEF SnapshotOK
<1>12. \A x \in Snaps : SnapshotOK(x)'
  <2>1. ASSUME NEW x \in Snaps, x # s PROVE SnapshotOK(x)'
    BY <1>2, <1>9, <2>1 DEF ContentInv, SnapshotOK, ResultsOK, CandidatesOK, PairsOK, IndexesOK
  <2> QED BY <1>11, <2>1
<1>13. \A x \in Workers : AnswerOK(x)'
  <2>1. \A x \in Snaps : Grows(complete'[x], complete[x])
    BY <1>9, <1>10 DEF Grows
  <2>2. CompleteKey(w, u) \in DOMAIN complete'[Me(w)]
    BY <1>0, <1>10
  <2>3. CompletedWith(w, u, complete'[Me(w)][CompleteKey(w, u)])
    BY <1>0, <1>9 DEF Completed, r
  <2> QED BY <1>1, <1>2, <2>1, <2>2, <2>3, ContentFiles
<1> QED BY <1>12, <1>13 DEF ContentInv

\* Every step keeps the content invariant.
LEMMA ContentStep == TypeInv /\ ContentInv /\ [Next]_vars => ContentInv'
<1> SUFFICES ASSUME TypeInv, ContentInv, [Next]_vars PROVE ContentInv'
  OBVIOUS
<1>0. TypeInv'
  BY TypeInvStep
<1>1. CASE UNCHANGED vars
  <2>1. \A s \in Snaps : SnapshotOK(s)'
    BY <1>1, FieldsStay DEF vars, fields
  <2>2. \A w \in Workers : AnswerOK(w)'
    BY <1>1 DEF vars, ContentInv, AnswerOK, PreparedOK, FilesOK, ResolverOK, PrepareKey, CompleteKey, Me
  <2> QED BY <2>1, <2>2 DEF ContentInv
<1>2. ASSUME NEW s \in Snaps, NEW u \in Uris, NEW d \in Document, Update(s, u, d)
      PROVE  ContentInv'
  BY <1>0, <1>2, ContentUpdate
<1>3. ASSUME NEW w \in Workers, NEW s \in Snaps, NEW q \in Requests, Begin(w, s, q)
      PROVE  ContentInv'
  BY <1>0, <1>3, ContentBegin
<1>4. ASSUME NEW w \in Workers, Step(w) \/ Cancel(w) \/ Collect(w)
      PROVE  ContentInv'
  BY <1>0, <1>4, ContentControl, ContentPrepareHit, ContentAnalyzed, ContentResolveHit,
     ContentBuilt, ContentCompleteHit, ContentCompleted DEF Step
<1> QED BY <1>1, <1>2, <1>3, <1>4 DEF Next

\* What caches, reuse candidates and locals hold is what a clean analysis of
\* their documents finds; completed results share the table of prepared ones.
THEOREM ContentInvariant == Spec => [](TypeInv /\ ContentInv)
<1>1. Init => TypeInv /\ ContentInv
  BY TypeInvInit, ContentInit
<1>2. TypeInv /\ ContentInv /\ [Next]_vars => (TypeInv /\ ContentInv)'
  BY TypeInvStep, ContentStep
<1> QED BY <1>1, <1>2, PTL DEF Spec
----------------------------------------------------------------------------
(* The properties.                                                         *)

\* Whatever goroutines publish late and however snapshots are derived, a cache
\* holds analyses of its snapshot's own documents only.
THEOREM CachesAlwaysMatch == Spec => []CachesMatchDocuments
<1>1. ContentInv => CachesMatchDocuments
  BY DEF ContentInv, SnapshotOK, ResultsOK, CachesMatchDocuments
<1> QED BY <1>1, ContentInvariant, PTL

\* The evidence CompleteContext reuses names on is always about the result it
\* reuses them from.
THEOREM ReuseAlwaysJustified == Spec => []ReuseIsJustified
<1>1. ContentInv => ReuseIsJustified
  BY DEF ContentInv, SnapshotOK, ReuseIsJustified
<1> QED BY <1>1, ContentInvariant, PTL

\* A goroutine about to return holds what a clean analysis of its snapshot
\* finds: the step of the refinement proof that matters, and AnswersAreClean.
LEMMA DoneIsClean ==
  ASSUME TypeInv, ContentInv, NEW w \in Workers, pc[w] = "done"
  PROVE  LET found == IF call[w].op = "analyze" THEN prepared[w] ELSE files[w]
         IN /\ DOMAIN found = call[w].uris
            /\ \A u \in call[w].uris :
                 LET clean == Clean!CleanFile(docs[Me(w)], call[w], u)
                 IN /\ found[u].text = clean.text
                    /\ found[u].unresolved = clean.unresolved
<1> DEFINE c == call[w]
           s == Me(w)
<1>1. c \in Call /\ s \in Snaps /\ AnswerOK(w) /\ SnapshotOK(s) /\ LocalsOK(w)
  BY DEF TypeInv, CallOK, ContentInv, Call, Me
<1>2. CASE c.op = "analyze"
  <2>1. DOMAIN prepared[w] = c.uris
    BY <1>1 DEF LocalsOK
  <2>2. ASSUME NEW u \in c.uris
        PROVE  /\ prepared[w][u].text = docs[s][u].text
               /\ prepared[w][u].unresolved =
                    IF c.options \in SkipSemantics THEN {} ELSE Unresolved(docs[s][u].text, {})
    <3>1. /\ PrepareKey(w, u).uri = u /\ PrepareKey(w, u).options = c.options
          /\ PrepareKey(w, u) \in DOMAIN cache[s]
          /\ prepared[w][u] = cache[s][PrepareKey(w, u)]
      BY <1>1, <1>2, <2>1 DEF AnswerOK, PreparedOK, PrepareKey, PrepareOptions, CacheKey
    <3> QED BY <1>1, <3>1 DEF SnapshotOK, ResultsOK, Matches, CleanPrepared
  <2> QED BY <1>2, <2>1, <2>2 DEF Clean!CleanFile, Clean!Unresolved, Clean!SkipSemantics,
            SkipSemantics, Unresolved
<1>3. CASE c.op = "workspace"
  <2>1. DOMAIN files[w] = c.uris
    BY <1>1, <1>3 DEF LocalsOK
  <2>2. ASSUME NEW u \in c.uris
        PROVE  /\ files[w][u].text = docs[s][u].text
               /\ files[w][u].unresolved = Unresolved(docs[s][u].text, resolver[w])
    <3>1. /\ CompleteKey(w, u).uri = u /\ CompleteKey(w, u).options[2] = resolver[w]
          /\ CompleteKey(w, u) \in DOMAIN complete[s]
          /\ files[w][u] = complete[s][CompleteKey(w, u)]
      BY <1>1, <2>1 DEF AnswerOK, FilesOK, CompleteKey, CacheKey, CompleteOptions
    <3> QED BY <1>1, <3>1 DEF SnapshotOK, ResultsOK, Matches, CleanCompleted
  <2>3. resolver[w] = Clean!Declared(docs[s], c.uris)
    BY <1>1, <1>3 DEF AnswerOK, ResolverOK, Clean!Declared
  <2> QED BY <1>3, <2>1, <2>2, <2>3 DEF Clean!CleanFile, Clean!Unresolved, Unresolved
<1> QED BY <1>1, <1>2, <1>3 DEF Call

\* Cached or not, reused or not, raced or not: what a call returns is what a
\* clean analysis of its own snapshot finds.
THEOREM AnswersAlwaysClean == Spec => []AnswersAreClean
<1>1. TypeInv /\ ContentInv => AnswersAreClean
  BY DoneIsClean DEF AnswersAreClean
<1> QED BY <1>1, ContentInvariant, PTL

\* All callers of a snapshot share one result per document and option set.
THEOREM AnswersAlwaysShared == Spec => []AnswersAreShared
<1>1. TypeInv /\ ContentInv => AnswersAreShared
  BY DEF AnswersAreShared, TypeInv, CallOK, LocalsOK, Call, ContentInv, AnswerOK,
     PreparedOK, FilesOK, Get
<1> QED BY <1>1, ContentInvariant, PTL

\* A published result is never replaced or withdrawn, by whichever goroutine.
THEOREM PublishedAlwaysStays == Spec => PublishedStays
<1>1. ASSUME TypeInv, [Next]_vars PROVE [PublishedKept]_vars
  <2>1. 1..count \subseteq Snaps /\ count \in Nat
    BY <1>1, BoundsAssumption DEF TypeInv, TypeOK, Snaps
  <2>2. ASSUME cache' = cache, complete' = complete PROVE PublishedKept
    BY <2>2 DEF PublishedKept, Extends, Get
  <2>3. ASSUME NEW s \in Snaps, NEW u \in Uris, NEW d \in Document, Update(s, u, d)
        PROVE  PublishedKept
    <3>1. \A x \in 1..count : cache'[x] = cache[x] /\ complete'[x] = complete[x]
      BY <1>1, <2>1, <2>3 DEF Update, Derive, TypeInv, TypeOK, FieldsTyped, AreMaps
    <3> QED BY <3>1 DEF PublishedKept, Extends, Get
  <2>4. \A map, k, r : Extends(Publish(map, k, r), map)
    BY DEF Extends, Publish, Put, Get
  <2>5. ASSUME NEW w \in Workers, NEW u \in Uris, Analyzed(w, u) PROVE PublishedKept
    <3>1. /\ complete' = complete
          /\ cache' = [cache EXCEPT ![Me(w)] =
                         Publish(cache[Me(w)], PrepareKey(w, u), Prepare(w, u))]
      BY <2>5 DEF Analyzed
    <3>2. \A x \in 1..count : cache'[x] = cache[x] \/
            cache'[x] = Publish(cache[x], PrepareKey(w, u), Prepare(w, u))
      BY <1>1, <2>1, <3>1 DEF TypeInv, TypeOK, FieldsTyped, AreMaps
    <3> QED BY <2>4, <3>1, <3>2 DEF PublishedKept, Extends, Get
  <2>6. ASSUME NEW w \in Workers, NEW u \in Uris, Completed(w, u) PROVE PublishedKept
    <3>1. /\ cache' = cache
          /\ complete' = [complete EXCEPT ![Me(w)] =
                            Publish(complete[Me(w)], CompleteKey(w, u), Finish(w, u))]
      BY <2>6 DEF Completed
    <3>2. \A x \in 1..count : complete'[x] = complete[x] \/
            complete'[x] = Publish(complete[x], CompleteKey(w, u), Finish(w, u))
      BY <1>1, <2>1, <3>1 DEF TypeInv, TypeOK, FieldsTyped, AreMaps
    <3> QED BY <2>4, <3>1, <3>2 DEF PublishedKept, Extends, Get
  <2>7. ASSUME NEW w \in Workers, Step(w) \/ Cancel(w) \/ Collect(w) PROVE PublishedKept
    <3>1. CASE \E u \in Uris : Analyzed(w, u) \/ Completed(w, u)
      BY <2>5, <2>6, <3>1
    <3>2. CASE ~ \E u \in Uris : Analyzed(w, u) \/ Completed(w, u)
      <4>1. cache' = cache /\ complete' = complete
        BY <2>7, <3>2 DEF Step, Cancel, Collect, Missing, Start, ResolveHit, ResolveMiss, Built,
             PrepareHit, PrepareMiss, CompleteHit, CompleteMiss, fields
      <4> QED BY <2>2, <4>1
    <3> QED BY <3>1, <3>2
  <2>8. ASSUME NEW w \in Workers, NEW s \in Snaps, NEW q \in Requests, Begin(w, s, q)
        PROVE  PublishedKept
    BY <2>2, <2>8 DEF Begin, fields
  <2>9. CASE UNCHANGED vars
    BY <2>9
  <2> QED BY <1>1, <2>3, <2>7, <2>8, <2>9 DEF Next
<1>2. TypeInv /\ [Next]_vars => [PublishedKept]_vars
  BY <1>1
<1> QED BY <1>2, TypeInvariant, PTL DEF Spec, PublishedStays
----------------------------------------------------------------------------
(* Refinement: every step is a step of CleanAnalysis, or changes nothing    *)
(* that its callers can see.                                               *)

DoneIsAnswered ==
  \A w \in Workers : pc[w] = "done" =>
    AnswerOf(w) = Clean!CleanAnswer(docs[Me(w)], call[w])

\* A goroutine that is done gives the answer of the cache-free specification.
LEMMA DoneAnswered == TypeInv /\ ContentInv => DoneIsAnswered
<1> SUFFICES ASSUME TypeInv, ContentInv, NEW w \in Workers, pc[w] = "done"
             PROVE  AnswerOf(w) = Clean!CleanAnswer(docs[Me(w)], call[w])
  BY DEF DoneIsAnswered
<1> DEFINE found == IF call[w].op = "analyze" THEN prepared[w] ELSE files[w]
<1>1. /\ DOMAIN found = call[w].uris
      /\ \A u \in call[w].uris :
           LET clean == Clean!CleanFile(docs[Me(w)], call[w], u)
           IN found[u].text = clean.text /\ found[u].unresolved = clean.unresolved
  BY DoneIsClean
<1>2. \A u \in call[w].uris :
        Clean!CleanFile(docs[Me(w)], call[w], u)
          = [text |-> found[u].text, unresolved |-> found[u].unresolved]
  BY <1>1 DEF Clean!CleanFile
<1>3. AnswerOf(w) = [u \in DOMAIN found |-> [text |-> found[u].text,
                                             unresolved |-> found[u].unresolved]]
  BY DEF AnswerOf
<1> HIDE DEF found
<1> QED BY <1>1, <1>2, <1>3 DEF Clean!CleanAnswer

\* No answer is given before the goroutine is done or has failed.
LEMMA AnswerIsNone ==
  ASSUME TypeInv, NEW w \in Workers
  PROVE  /\ AnswerOf(w) = None <=> pc[w] \notin {"done", "failed"}
         /\ call[w] = None <=> pc[w] = "idle"
<1>1. call[w] = None <=> pc[w] = "idle"
  BY NoneAssumption DEF TypeInv, CallOK
<1>2. CASE pc[w] # "done"
  BY <1>1, <1>2, NoneAssumption DEF AnswerOf
<1>3. CASE pc[w] = "done"
  <2> DEFINE found == IF call[w].op = "analyze" THEN prepared[w] ELSE files[w]
             given == [u \in DOMAIN found |-> [text |-> found[u].text,
                                               unresolved |-> found[u].unresolved]]
  <2>1. IsMap(found, Uris, Result)
    BY DEF TypeInv, TypeOK, LocalsTyped
  <2>2. /\ DOMAIN found \in SUBSET Uris
        /\ given \in [DOMAIN found -> [text : Texts, unresolved : SUBSET Names]]
    BY <2>1 DEF IsMap, Result
  <2>3. AnswerOf(w) = given
    BY <1>3 DEF AnswerOf
  <2> HIDE DEF found, given
  <2> QED BY <1>1, <1>3, <2>2, <2>3, NoneAssumption
<1> QED BY <1>2, <1>3

\* A goroutine whose locals stay put keeps its answer.
LEMMA AnswerStays ==
  ASSUME NEW w, pc'[w] = pc[w], call'[w] = call[w], prepared'[w] = prepared[w],
         files'[w] = files[w]
  PROVE  AnswerOf(w)' = AnswerOf(w)
BY DEF AnswerOf

\* The initial states are initial states of the cache-free specification.
LEMMA InitRefines == Init => Clean!Init
<1> SUFFICES ASSUME Init PROVE Clean!Init
  OBVIOUS
<1>1. [w \in Workers |-> AnswerOf(w)] = [w \in Workers |-> None]
  BY DEF Init, AnswerOf
<1> QED BY <1>1 DEF Init, Clean!Init, Snaps, Clean!Snaps

\* Every step is a step of the cache-free specification, or a stutter.
LEMMA StepRefines ==
  ASSUME TypeInv, TypeInv', DoneIsAnswered', [Next]_vars
  PROVE  [Clean!Next]_(Clean!vars)
<1> DEFINE answer == [w \in Workers |-> AnswerOf(w)]
<1>1. CASE UNCHANGED vars
  <2>1. \A w \in Workers : AnswerOf(w)' = AnswerOf(w)
    BY <1>1, AnswerStays DEF vars
  <2> QED BY <1>1, <2>1 DEF vars, Clean!vars
<1>2. ASSUME NEW s \in Snaps, NEW u \in Uris, NEW d \in Document, Update(s, u, d)
      PROVE  Clean!Next
  <2>1. \A w \in Workers : AnswerOf(w)' = AnswerOf(w)
    BY <1>2, AnswerStays DEF Update, Derive
  <2>2. Clean!Update(s, u, d)
    BY <1>2, <2>1 DEF Update, Derive, Clean!Update
  <2> QED BY <2>2 DEF Clean!Next, Clean!Snaps, Snaps, Clean!Document, Document,
            Clean!Versions, Versions
<1>3. ASSUME NEW w \in Workers, NEW s \in Snaps, NEW q \in Requests, Begin(w, s, q)
      PROVE  Clean!Next
  <2> DEFINE c == [op |-> q.op, snap |-> s, uris |-> q.uris, options |-> q.options]
  <2>1. c \in Clean!Call
    BY RequestsAssumption DEF Clean!Call, Snaps, Clean!Snaps
  <2>2. \A x \in Workers : AnswerOf(x)' = AnswerOf(x)
    BY <1>3, AnswerStays DEF Begin, AnswerOf, TypeInv, TypeOK, LocalsTyped
  <2>3. call[w] = None
    BY <1>3, AnswerIsNone DEF Begin
  <2>4. Clean!Request(w, c)
    BY <1>3, <2>2, <2>3 DEF Begin, Clean!Request, fields
  <2> QED BY <2>1, <2>4 DEF Clean!Next
<1>4. ASSUME NEW w \in Workers, Step(w) \/ Cancel(w)
      PROVE  Clean!Next \/ UNCHANGED Clean!vars
  <2>1. /\ docs' = docs /\ count' = count /\ call' = call
        /\ pc[w] \notin {"idle", "done", "failed"}
        /\ pc' = [pc EXCEPT ![w] = pc'[w]]
        /\ \A x \in Workers : x # w => prepared'[x] = prepared[x] /\ files'[x] = files[x]
    BY <1>4 DEF Step, Cancel, Missing, Start, ResolveHit, ResolveMiss, Built, ResolvedWith,
         PrepareHit, PrepareMiss, Analyzed, PreparedWith, CompleteHit, CompleteMiss,
         Completed, CompletedWith, fields, frozen, TypeInv, TypeOK, LocalsTyped
  <2>2. call[w] # None /\ AnswerOf(w) = None
    BY <2>1, AnswerIsNone
  <2>3. \A x \in Workers : x # w => AnswerOf(x)' = AnswerOf(x)
    BY <2>1, AnswerStays DEF TypeInv, TypeOK, LocalsTyped
  <2>4. answer' = [answer EXCEPT ![w] = AnswerOf(w)']
    BY <2>3
  <2>5. CASE pc'[w] = "failed"
    <3>1. AnswerOf(w)' = Failed
      BY <2>5 DEF AnswerOf
    <3>2. Clean!Fail(w)
      BY <2>1, <2>2, <2>4, <3>1 DEF Clean!Fail
    <3> QED BY <3>2 DEF Clean!Next
  <2>6. CASE pc'[w] = "done"
    <3>1. AnswerOf(w)' = Clean!CleanAnswer(docs[call[w].snap], call[w])
      BY <2>1, <2>6 DEF DoneIsAnswered, Me, Clean!CleanAnswer, Clean!CleanFile,
           Clean!Declared, Clean!Unresolved
    <3>2. \A u \in call[w].uris : docs[call[w].snap][u] # None
      BY <2>1, <2>6 DEF TypeInv, CallOK, Me
    <3>3. Clean!Answer(w)
      BY <2>1, <2>2, <2>4, <3>1, <3>2 DEF Clean!Answer
    <3> QED BY <3>3 DEF Clean!Next
  <2>7. CASE pc'[w] \notin {"done", "failed"}
    <3>1. AnswerOf(w)' = AnswerOf(w)
      BY <2>2, <2>7 DEF AnswerOf
    <3>2. answer' = answer
      BY <2>3, <3>1
    <3> QED BY <2>1, <3>2 DEF Clean!vars
  <2> QED BY <2>5, <2>6, <2>7
<1>5. ASSUME NEW w \in Workers, Collect(w)
      PROVE  Clean!Next
  <2>1. AnswerOf(w) # None
    BY <1>5, AnswerIsNone DEF Collect
  <2>2. AnswerOf(w)' = None
    BY <1>5 DEF Collect, AnswerOf, TypeInv, TypeOK, LocalsTyped
  <2>3. \A x \in Workers : x # w => AnswerOf(x)' = AnswerOf(x)
    BY <1>5, AnswerStays DEF Collect, TypeInv, TypeOK, LocalsTyped
  <2>4. answer' = [answer EXCEPT ![w] = None]
    BY <2>2, <2>3
  <2>5. Clean!Collect(w)
    BY <1>5, <2>1, <2>4 DEF Collect, fields, Clean!Collect
  <2> QED BY <2>5 DEF Clean!Next
<1> QED BY <1>1, <1>2, <1>3, <1>4, <1>5 DEF Next

\* The whole package, with its five caches, its reuse and its races, does
\* what the cache-free specification allows.
THEOREM Refinement == Spec => ImplementsClean
<1>1. TypeInv /\ ContentInv => TypeInv /\ DoneIsAnswered
  BY DoneAnswered
<1>2. TypeInv /\ TypeInv' /\ DoneIsAnswered' /\ [Next]_vars => [Clean!Next]_(Clean!vars)
  BY StepRefines
<1> QED BY <1>1, <1>2, InitRefines, ContentInvariant, PTL DEF Spec, ImplementsClean, Clean!Spec
=============================================================================
