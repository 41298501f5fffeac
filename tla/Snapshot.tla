----------------------------- MODULE Snapshot -----------------------------
(***************************************************************************)
(* Package query: versioned document snapshots, each with its own result   *)
(* caches behind a mutex, derived from one another by Update and queried   *)
(* by concurrent goroutines (Analyze, AnalyzeDocuments).  An action is one *)
(* critical section of Snapshot.mu, together with the lock-free reads next *)
(* to it: everything read outside the mutex (docs, prior, priorComplete)   *)
(* never changes after the snapshot is built.                              *)
(*                                                                         *)
(* The analysis of a text is abstracted to what the caches could confuse:  *)
(* the declarations it exports, the names it refers to, a constant local   *)
(* to one of its functions, and the identity of its symbol tables.         *)
(***************************************************************************)
EXTENDS Naturals

CONSTANTS
  Workers, Uris, Texts, Names, Options, Index, Exports, Refs, InitialDocs,
  MaxSnap, MaxVersion, None, Failed,
  MaxCalls,    \* bound: calls made in a behaviour
  Requests,    \* requests the host makes: [op, uris, options]
  Compatible,  \* Compatible[t]: texts that reuse t's preprocessing
  Stable,      \* Stable[t]: those that reuse t's symbol table as well
  LocalConst   \* LocalConst[t]: value of a constant local to a function of t

VARIABLES
  count,     \* number of snapshots made
  calls,     \* number of calls made, to bound the behaviours
  docs,      \* docs[s][u]: snapshot s's document u, or None
  cache,     \* cache[s]: its published results, by CacheKey
  complete,  \* complete[s]: its published completed results, by CacheKey
  prior,         \* prior[s], priorComplete[s]: results of its parent for the
  priorComplete, \*   updated document, by ReuseKey
  workspace, \* workspace[s]: its name indexes, by WorkspaceKey
  pc,        \* pc[w]: where goroutine w is
  call,      \* call[w]: the request it serves, or None
  todo,      \* todo[w]: documents its present loop still has to visit
  prepared,  \* prepared[w]: results of its first loop, by document
  resolver,  \* resolver[w]: names its workspace resolver knows
  files      \* files[w]: results of its second loop, by document

frozen == <<docs, prior, priorComplete>>
fields == <<docs, cache, complete, prior, priorComplete, workspace>>
vars == <<count, calls, docs, cache, complete, prior, priorComplete, workspace,
          pc, call, todo, prepared, resolver, files>>

\* What goroutine w returns, once it does: an error, or what its results say.
AnswerOf(w) ==
  IF pc[w] = "failed" THEN Failed
  ELSE IF pc[w] # "done" THEN None
  ELSE LET found == IF call[w].op = "analyze" THEN prepared[w] ELSE files[w]
       IN [u \in DOMAIN found |-> [text |-> found[u].text,
                                   unresolved |-> found[u].unresolved]]

Clean == INSTANCE CleanAnalysis WITH answer <- [w \in Workers |-> AnswerOf(w)]

Snaps == 1..MaxSnap
Versions == 1..MaxVersion
Document == [version : Versions, text : Texts]
SkipSemantics == {Index[o] : o \in Options}
Call == [op : {"analyze", "workspace"}, snap : Snaps,
         uris : SUBSET Uris, options : Options]

(***************************************************************************)
(* Assumptions on the constants.  The last two say what the edit           *)
(* classification of package preprocess and root package must guarantee    *)
(* for reuse: an edit that keeps the expansion keeps the exports, one that *)
(* keeps the symbol table touches no identifier at all.                    *)
(***************************************************************************)
ASSUME UrisAssumption == Uris \subseteq Nat
ASSUME BoundsAssumption == MaxSnap \in Nat \ {0} /\ MaxVersion \in Nat /\ MaxCalls \in Nat
ASSUME OptionsAssumption ==
  Index \in [Options -> Options] /\ \A o \in Options : Index[Index[o]] = Index[o]
ASSUME TextsAssumption ==
  /\ Exports \in [Texts -> SUBSET Names] /\ Refs \in [Texts -> SUBSET Names]
  /\ Compatible \in [Texts -> SUBSET Texts] /\ Stable \in [Texts -> SUBSET Texts]
ASSUME RequestsAssumption ==
  /\ Requests \subseteq [op : {"analyze", "workspace"}, uris : SUBSET Uris,
                          options : Options]
  /\ \A q \in Requests : /\ q.uris # {}
                         /\ q.op = "analyze" => \E u \in Uris : q.uris = {u}
ASSUME InitialDocsAssumption == InitialDocs \subseteq [Uris -> Document \cup {None}]
ASSUME CompatibleAssumption ==
  \A t \in Texts : \A n \in Compatible[t] : Exports[n] = Exports[t]
ASSUME StableAssumption ==
  \A t \in Texts : /\ Stable[t] \subseteq Compatible[t]
                   /\ \A n \in Stable[t] : Refs[n] = Refs[t]
----------------------------------------------------------------------------
(* Maps: a Go map is a function whose domain is the set of present keys.   *)

Empty == [k \in {} |-> None]
Put(map, k, v) == [x \in DOMAIN map \cup {k} |-> IF x = k THEN v ELSE map[x]]
Get(map, k) == IF k \in DOMAIN map THEN map[k] ELSE None

CacheKey(u, d, o) == [uri |-> u, version |-> d.version, options |-> o]
ReuseKey(k) == [uri |-> k.uri, options |-> k.options]

\* completeOptionsHash: base options and the resolver's fingerprint.  The
\* hash is taken as injective.
OptionsAlone(o, names) == <<o, {}>>  \* a slip: the resolver is left out
CompleteOptions(o, names) == <<o, names>>

\* Entries of other documents are kept; those of u become reuse candidates.
KeptAll(map, u) == map               \* a slip: nothing is dropped
Kept(map, u) == [k \in {k \in DOMAIN map : k.uri # u} |-> map[k]]
MovedByVersion(map, u) ==            \* a slip: the key keeps its version
  [k \in {k \in DOMAIN map : k.uri = u} |-> map[k]]
Moved(map, u) ==
  [q \in {ReuseKey(k) : k \in {k \in DOMAIN map : k.uri = u}} |->
     map[CHOOSE k \in DOMAIN map : ReuseKey(k) = q]]
----------------------------------------------------------------------------
(* The analysis pipeline, as far as the caches can tell results apart.     *)
(* The goroutine and snapshot that made an object stand for its address:   *)
(* no goroutine publishes a second object under the same key of a snapshot.*)

NewTable(w, s, u, o, t) ==
  [by |-> w, at |-> s, uri |-> u, options |-> o,
   exports |-> Exports[t], refs |-> Refs[t]]

\* CompleteContext.  `names` is what the resolver declares.  Name checks and
\* local constants come from `previous` after an edit that kept the table.
Complete(w, s, p, names, previous) ==
  LET canReuseLocal == p.local /\ previous # None
      cachedConstants ==
        /\ canReuseLocal
        /\ p.symbols = previous.symbols /\ previous.constant # None
  IN [by |-> w, at |-> s, uri |-> p.uri, options |-> p.options, text |-> p.text,
      symbols |-> p.symbols, expanded |-> p.expanded, local |-> p.local,
      unresolved |-> IF canReuseLocal THEN previous.unresolved
                     ELSE p.symbols.refs \ (p.symbols.exports \cup names),
      constant |-> IF cachedConstants THEN previous.constant
                   ELSE LocalConst[p.text]]

\* AnalyzeContext on text t with opts.Previous = previous.
AnalyzeContext(w, s, u, o, t, previous) ==
  LET compatible == previous # None /\ t \in Compatible[previous.text]
      stable == previous # None /\ t \in Stable[previous.text]
      new == NewTable(w, s, u, o, t)
      result ==
        [by |-> w, at |-> s, uri |-> u, options |-> o, text |-> t,
         symbols |-> IF stable THEN previous.symbols ELSE new,
         expanded |-> IF compatible THEN previous.expanded ELSE new,
         local |-> stable, unresolved |-> {}, constant |-> None]
  IN IF o \in SkipSemantics THEN result ELSE Complete(w, s, result, {}, previous)
----------------------------------------------------------------------------
Init ==
  /\ \E d \in InitialDocs :
       docs = [s \in Snaps |-> IF s = 1 THEN d ELSE [u \in Uris |-> None]]
  /\ cache = [s \in Snaps |-> Empty] /\ complete = [s \in Snaps |-> Empty]
  /\ prior = [s \in Snaps |-> Empty] /\ priorComplete = [s \in Snaps |-> Empty]
  /\ workspace = [s \in Snaps |-> Empty]
  /\ count = 1 /\ calls = 0
  /\ pc = [w \in Workers |-> "idle"]
  /\ call = [w \in Workers |-> None]
  /\ todo = [w \in Workers |-> {}]
  /\ prepared = [w \in Workers |-> Empty]
  /\ resolver = [w \in Workers |-> {}]
  /\ files = [w \in Workers |-> Empty]

\* Update and UpdateOwned on any snapshot still held.  A rejected update
\* (version not newer) returns the same snapshot and changes nothing.
Derive(s, u, d) ==
  /\ s <= count /\ count < MaxSnap /\ count' = count + 1
  /\ docs[s][u] # None => docs[s][u].version < d.version
  /\ docs' = [docs EXCEPT ![count + 1] = [docs[s] EXCEPT ![u] = d]]
  /\ cache' = [cache EXCEPT ![count + 1] = Kept(cache[s], u)]
  /\ complete' = [complete EXCEPT ![count + 1] = Kept(complete[s], u)]
  /\ prior' = [prior EXCEPT ![count + 1] = Moved(cache[s], u)]
  /\ workspace' = [workspace EXCEPT ![count + 1] = workspace[s]]
  /\ UNCHANGED <<calls, pc, call, todo, prepared, resolver, files>>

\* A slip: completed results of older versions stay reuse candidates.
UpdateCarrying(s, u, d) ==
  LET moved == Moved(complete[s], u)
      older == priorComplete[s]
  IN /\ Derive(s, u, d)
     /\ priorComplete' = [priorComplete EXCEPT ![count + 1] =
          [k \in DOMAIN moved \cup DOMAIN older |->
             IF k \in DOMAIN moved THEN moved[k] ELSE older[k]]]

Update(s, u, d) ==
  /\ Derive(s, u, d)
  /\ priorComplete' = [priorComplete EXCEPT ![count + 1] = Moved(complete[s], u)]

\* Entry of Analyze (one document) or AnalyzeDocuments (a set of them).
Begin(w, s, q) ==
  /\ pc[w] = "idle" /\ s <= count
  /\ calls < MaxCalls /\ calls' = calls + 1
  /\ call' = [call EXCEPT ![w] = [op |-> q.op, snap |-> s, uris |-> q.uris,
                                  options |-> q.options]]
  /\ pc' = [pc EXCEPT ![w] = "start"]
  /\ UNCHANGED <<count, fields, todo, prepared, resolver, files>>

Me(w) == call[w].snap  \* the snapshot it runs on

\* ErrDocumentNotFound, before any document is analysed.
Missing(w) ==
  /\ pc[w] = "start"
  /\ \E u \in call[w].uris : docs[Me(w)][u] = None
  /\ pc' = [pc EXCEPT ![w] = "failed"]
  /\ UNCHANGED <<count, calls, fields, call, todo, prepared, resolver, files>>

Start(w) ==
  /\ pc[w] = "start"
  /\ \A u \in call[w].uris : docs[Me(w)][u] # None
  /\ pc' = [pc EXCEPT ![w] = "prepare"]
  /\ todo' = [todo EXCEPT ![w] = call[w].uris]
  /\ UNCHANGED <<count, calls, fields, call, prepared, resolver, files>>

\* The document a loop is at: the first one left, in sorted order.
Current(w, u) == u \in todo[w] /\ \A v \in todo[w] : u <= v

\* Options of the first loop: AnalyzeDocuments prepares syntax only.
PrepareOptions(c) == IF c.op = "analyze" THEN c.options ELSE Index[c.options]
PrepareKey(w, u) == CacheKey(u, docs[Me(w)][u], PrepareOptions(call[w]))

\* Document u is prepared with result r; go on to the next one, or return, or
\* start resolving.
PreparedWith(w, u, r) ==
  LET left == todo[w] \ {u}
      last == left = {}
  IN /\ prepared' = [prepared EXCEPT ![w] = Put(prepared[w], u, r)]
     /\ todo' = [todo EXCEPT ![w] = left]
     /\ pc' = [pc EXCEPT ![w] =
                 IF ~last THEN "prepare"
                 ELSE IF call[w].op = "analyze" THEN "done" ELSE "resolve"]
     /\ UNCHANGED <<count, calls, call, resolver, files>>

\* Cache lookup under the lock.
PrepareHit(w, u) ==
  /\ pc[w] = "prepare" /\ Current(w, u)
  /\ PrepareKey(w, u) \in DOMAIN cache[Me(w)]
  /\ PreparedWith(w, u, cache[Me(w)][PrepareKey(w, u)])
  /\ UNCHANGED fields

PrepareMiss(w, u) ==
  /\ pc[w] = "prepare" /\ Current(w, u)
  /\ PrepareKey(w, u) \notin DOMAIN cache[Me(w)]
  /\ pc' = [pc EXCEPT ![w] = "analyzing"]
  /\ UNCHANGED <<count, calls, fields, call, todo, prepared, resolver, files>>

\* The analysis ran outside the lock; publish it, or take the result another
\* goroutine published meanwhile.
PublishOver(map, k, r) == Put(map, k, r)  \* a slip: the last one wins
Publish(map, k, r) == IF k \in DOMAIN map THEN map ELSE Put(map, k, r)

Prepare(w, u) ==
  AnalyzeContext(w, Me(w), u, PrepareOptions(call[w]), docs[Me(w)][u].text,
                 Get(prior[Me(w)], ReuseKey(PrepareKey(w, u))))

Analyzed(w, u) ==
  LET published == Publish(cache[Me(w)], PrepareKey(w, u), Prepare(w, u))
  IN /\ pc[w] = "analyzing" /\ Current(w, u)
     /\ cache' = [cache EXCEPT ![Me(w)] = published]
     /\ PreparedWith(w, u, published[PrepareKey(w, u)])
     /\ UNCHANGED <<frozen, complete, workspace>>

\* workspaceResolver: tables of this request, and the key of its index.
Tables(w) == [u \in call[w].uris |-> prepared[w][u].expanded]
WorkspaceKey(w) == [options |-> Index[call[w].options], uris |-> call[w].uris]
UsableByKey(w) == WorkspaceKey(w) \in DOMAIN workspace[Me(w)]  \* a slip: tables not compared
Usable(w) ==
  /\ WorkspaceKey(w) \in DOMAIN workspace[Me(w)]
  /\ workspace[Me(w)][WorkspaceKey(w)].tables = Tables(w)

ResolvedWith(w, names) ==
  /\ resolver' = [resolver EXCEPT ![w] = names]
  /\ todo' = [todo EXCEPT ![w] = call[w].uris]
  /\ pc' = [pc EXCEPT ![w] = "complete"]
  /\ UNCHANGED <<count, calls, call, prepared, files>>

ResolveHit(w) ==
  /\ pc[w] = "resolve" /\ Usable(w)
  /\ ResolvedWith(w, workspace[Me(w)][WorkspaceKey(w)].names)
  /\ UNCHANGED fields

ResolveMiss(w) ==
  /\ pc[w] = "resolve" /\ ~Usable(w)
  /\ pc' = [pc EXCEPT ![w] = "building"]
  /\ UNCHANGED <<count, calls, fields, call, todo, prepared, resolver, files>>

\* The index was built outside the lock.  An index published meanwhile for
\* the same tables wins; one for other tables is replaced.
NewIndex(w) ==
  [tables |-> Tables(w),
   names |-> UNION {Tables(w)[u].exports : u \in call[w].uris}]

Built(w) ==
  LET published == IF Usable(w) THEN workspace[Me(w)]
                   ELSE Put(workspace[Me(w)], WorkspaceKey(w), NewIndex(w))
  IN /\ pc[w] = "building"
     /\ workspace' = [workspace EXCEPT ![Me(w)] = published]
     /\ ResolvedWith(w, published[WorkspaceKey(w)].names)
     /\ UNCHANGED <<frozen, cache, complete>>

\* Second loop: completed results, keyed by options and resolver fingerprint.
CompleteKey(w, u) ==
  CacheKey(u, docs[Me(w)][u], CompleteOptions(call[w].options, resolver[w]))

CompletedWith(w, u, r) ==
  LET left == todo[w] \ {u}
  IN /\ files' = [files EXCEPT ![w] = Put(files[w], u, r)]
     /\ todo' = [todo EXCEPT ![w] = left]
     /\ pc' = [pc EXCEPT ![w] = IF left = {} THEN "done" ELSE "complete"]
     /\ UNCHANGED <<count, calls, call, prepared, resolver>>

CompleteHit(w, u) ==
  /\ pc[w] = "complete" /\ Current(w, u)
  /\ CompleteKey(w, u) \in DOMAIN complete[Me(w)]
  /\ CompletedWith(w, u, complete[Me(w)][CompleteKey(w, u)])
  /\ UNCHANGED fields

CompleteMiss(w, u) ==
  /\ pc[w] = "complete" /\ Current(w, u)
  /\ CompleteKey(w, u) \notin DOMAIN complete[Me(w)]
  /\ pc' = [pc EXCEPT ![w] = "completing"]
  /\ UNCHANGED <<count, calls, fields, call, todo, prepared, resolver, files>>

Finish(w, u) ==
  Complete(w, Me(w), prepared[w][u], resolver[w],
           Get(priorComplete[Me(w)], ReuseKey(CompleteKey(w, u))))

Completed(w, u) ==
  LET published == Publish(complete[Me(w)], CompleteKey(w, u), Finish(w, u))
  IN /\ pc[w] = "completing" /\ Current(w, u)
     /\ complete' = [complete EXCEPT ![Me(w)] = published]
     /\ CompletedWith(w, u, published[CompleteKey(w, u)])
     /\ UNCHANGED <<frozen, cache, workspace>>

\* The context is cancelled: an error return, and nothing is published.
Cancel(w) ==
  /\ pc[w] \in {"start", "prepare", "analyzing", "complete", "completing"}
  /\ pc' = [pc EXCEPT ![w] = "failed"]
  /\ UNCHANGED <<count, calls, fields, call, todo, prepared, resolver, files>>

\* The caller takes the answer, and the call's locals are dropped.
Collect(w) ==
  /\ pc[w] \in {"done", "failed"}
  /\ pc' = [pc EXCEPT ![w] = "idle"]
  /\ call' = [call EXCEPT ![w] = None]
  /\ todo' = [todo EXCEPT ![w] = {}]
  /\ prepared' = [prepared EXCEPT ![w] = Empty]
  /\ resolver' = [resolver EXCEPT ![w] = {}]
  /\ files' = [files EXCEPT ![w] = Empty]
  /\ UNCHANGED <<count, calls, fields>>

Step(w) ==
  \/ Missing(w) \/ Start(w) \/ ResolveHit(w) \/ ResolveMiss(w) \/ Built(w)
  \/ \E u \in Uris : \/ PrepareHit(w, u) \/ PrepareMiss(w, u) \/ Analyzed(w, u)
                     \/ CompleteHit(w, u) \/ CompleteMiss(w, u) \/ Completed(w, u)

Next ==
  \/ \E s \in Snaps, u \in Uris, d \in Document : Update(s, u, d)
  \/ \E w \in Workers, s \in Snaps, q \in Requests : Begin(w, s, q)
  \/ \E w \in Workers : Step(w) \/ Cancel(w) \/ Collect(w)

Spec == Init /\ [][Next]_vars
----------------------------------------------------------------------------
(* Types. *)

Table == [by : Workers, at : Snaps, uri : Uris, options : Options,
          exports : SUBSET Names, refs : SUBSET Names]
Constants == {LocalConst[t] : t \in Texts} \cup {None}
Result == [by : Workers, at : Snaps, uri : Uris, options : Options,
           text : Texts, symbols : Table, expanded : Table, local : BOOLEAN,
           unresolved : SUBSET Names, constant : Constants]
CacheKeys == [uri : Uris, version : Versions, options : Options]
ReuseKeys == [uri : Uris, options : Options]
FullOptions == Options \X SUBSET Names
CompleteKeys == [uri : Uris, version : Versions, options : FullOptions]
CompleteReuseKeys == [uri : Uris, options : FullOptions]
WorkspaceKeys == [options : Options, uris : SUBSET Uris]

IsMap(map, keys, values) ==
  DOMAIN map \subseteq keys /\ \A k \in DOMAIN map : map[k] \in values

AreMaps(maps, keys, values) ==
  DOMAIN maps = Snaps /\ \A s \in Snaps : IsMap(maps[s], keys, values)

IsIndex(index, us) ==
  /\ DOMAIN index.tables = us /\ \A u \in us : index.tables[u] \in Table
  /\ index.names \subseteq Names

PCs == {"idle", "start", "prepare", "analyzing", "resolve", "building",
        "complete", "completing", "done", "failed"}

FieldsTyped ==
  /\ docs \in [Snaps -> [Uris -> Document \cup {None}]]
  /\ AreMaps(cache, CacheKeys, Result) /\ AreMaps(complete, CompleteKeys, Result)
  /\ AreMaps(prior, ReuseKeys, Result)
  /\ AreMaps(priorComplete, CompleteReuseKeys, Result)
  /\ DOMAIN workspace = Snaps
  /\ \A s \in Snaps : /\ DOMAIN workspace[s] \subseteq WorkspaceKeys
                       /\ \A k \in DOMAIN workspace[s] : IsIndex(workspace[s][k], k.uris)

LocalsTyped ==
  /\ pc \in [Workers -> PCs]
  /\ call \in [Workers -> Call \cup {None}]
  /\ todo \in [Workers -> SUBSET Uris]
  /\ resolver \in [Workers -> SUBSET Names]
  /\ DOMAIN prepared = Workers /\ \A w \in Workers : IsMap(prepared[w], Uris, Result)
  /\ DOMAIN files = Workers /\ \A w \in Workers : IsMap(files[w], Uris, Result)

\* The type invariant: the fields of every snapshot, and every goroutine's
\* locals, hold what their Go types and map key types promise.
TypeOK ==
  count \in Snaps /\ calls \in 0..MaxCalls /\ FieldsTyped /\ LocalsTyped

ASSUME NoneAssumption ==
  /\ None \notin Result /\ None \notin Call /\ None \notin Document
  /\ \A us \in SUBSET Uris : None \notin [us -> [text : Texts, unresolved : SUBSET Names]]
  /\ Failed # None /\ \A t \in Texts : LocalConst[t] # None
----------------------------------------------------------------------------
(* Safety. *)

\* No cache of a snapshot ever holds the analysis of a text other than the
\* one the snapshot's document has, under the version it has: entries are
\* dropped by Update and published by goroutines that may have started long
\* before the snapshot's descendants were made.
Matches(map, d) ==
  \A k \in DOMAIN map : /\ d[k.uri] # None /\ k.version = d[k.uri].version
                        /\ map[k].text = d[k.uri].text
CachesMatchDocuments ==
  \A s \in Snaps : Matches(cache[s], docs[s]) /\ Matches(complete[s], docs[s])

\* CompleteContext reuses the names of opts.Previous on the word of the
\* prepared result, which was compared with an entry of another map (prior)
\* when it was made.  Whenever the two meet in one snapshot they stem from
\* the same symbol table, however updates and publications interleave.
Justified(results, older) ==
  \A k \in DOMAIN results, q \in DOMAIN older :
    k.uri = q.uri /\ k.options = Index[q.options[1]] /\ results[k].local
      => results[k].symbols = older[q].symbols
ReuseIsJustified == \A s \in Snaps : Justified(cache[s], priorComplete[s])

\* What a returned result says of its text is what a clean analysis of the
\* request's own snapshot says: no stale text, no names checked against the
\* declarations of another document set.
AnswersAreClean ==
  \A w \in Workers : pc[w] = "done" =>
    LET found == IF call[w].op = "analyze" THEN prepared[w] ELSE files[w]
    IN /\ DOMAIN found = call[w].uris
       /\ \A u \in call[w].uris :
            LET clean == Clean!CleanFile(docs[Me(w)], call[w], u)
            IN /\ found[u].text = clean.text
               /\ found[u].unresolved = clean.unresolved

\* A goroutine that lost the race to publish returns the winner's object, so
\* all callers of one snapshot share one result per document and options.
AnswersAreShared ==
  \A w \in Workers : pc[w] = "done" =>
    IF call[w].op = "analyze"
    THEN \A u \in call[w].uris :
           Get(cache[Me(w)], PrepareKey(w, u)) = prepared[w][u]
    ELSE \A u \in call[w].uris :
           Get(complete[Me(w)], CompleteKey(w, u)) = files[w][u]

\* A published result is never replaced or removed: a result handed out once
\* is what every later query of that snapshot gets.
Extends(new, old) == \A k \in DOMAIN old : Get(new, k) = old[k]
PublishedKept ==
  \A s \in 1..count : Extends(cache'[s], cache[s]) /\ Extends(complete'[s], complete[s])
PublishedStays == [][PublishedKept]_vars

\* The whole package implements its cache-free specification.
ImplementsClean == Clean!Spec

\* docs/architecture.md: a body edit may reuse "resolved constants ... when
\* the edited function has no local constant declarations", so the constants
\* behind an answer are those of the request's own text.
ConstantsAreClean ==
  \A w \in Workers : pc[w] = "done" /\ call[w].op = "workspace" =>
    \A u \in call[w].uris : files[w][u].constant = LocalConst[docs[Me(w)][u].text]
=============================================================================
