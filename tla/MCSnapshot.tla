---------------------------- MODULE MCSnapshot ----------------------------
(* Values of Snapshot's constants for TLC. *)
EXTENDS Snapshot, TLC

\* Three texts declare f and refer to g: t1 and t2 differ in a literal only,
\* t3 refers to h instead.  t4 declares g, and refers to f.
MCExports == [t \in Texts |-> IF t = "t4" THEN {"g"} ELSE {"f"}]
MCRefs == [t \in Texts |-> CASE t = "t3" -> {"h"} [] t = "t4" -> {"f"}
                             [] OTHER -> {"g"}]
MCCompatible == [t \in Texts |-> IF t = "t4" THEN {"t4"} ELSE Texts \ {"t4"}]
MCStable == [t \in Texts |-> IF t \in {"t1", "t2"} THEN {"t1", "t2"} \cap Texts
                             ELSE {t}]
MCLocalConst == [t \in Texts |-> IF t = "t2" THEN 0 ELSE 1]
MCIndex == [o \in Options |-> "index"]

Analyze(u, o) == [op |-> "analyze", uris |-> {u}, options |-> o]
Workspace(us, o) == [op |-> "workspace", uris |-> us, options |-> o]
\* A host that indexes document 1 and analyses the whole workspace.
IndexThenBoth == {Analyze(1, "index"), Workspace({1, 2}, "edit")}
IndexThenWorkspace == {Analyze(1, "index"), Workspace({1}, "edit")}
SmallRequests == {Analyze(1, "index"), Workspace({1, 2}, "index")}

\* Goroutines are interchangeable.
Interchangeable == Permutations(Workers)

Doc(t) == [version |-> 1, text |-> t]
BothOpen == {[u \in Uris |-> Doc("t1")]}
OneOrBothOpen == BothOpen \cup {[u \in Uris |-> IF u = 1 THEN Doc("t1") ELSE None]}
OneOpen == {[u \in Uris |-> IF u = 1 THEN Doc("t1") ELSE None]}
===========================================================================
