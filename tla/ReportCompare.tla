---------------------------- MODULE ReportCompare ----------------------------
(***************************************************************************)
(* `flopbench report diff` and `report compare` (reporting/compare.py): a  *)
(* bounded diff of two documents, one node of theirs at a time, and the    *)
(* comparison of two benchmark reports.                                    *)
(*                                                                         *)
(* A document is a function of its paths.  A path is the sequence of the   *)
(* keys and indices that lead to a node, all of them numbers in their      *)
(* order; a node is [kind |-> "object"], [kind |-> "array"] or a leaf      *)
(* [kind |-> its type, value |-> a number].                                *)
(***************************************************************************)
EXTENDS Integers, Sequences

CONSTANTS
  Trees,       \* the documents that are diffed
  MaxKey,      \* no key and no index of theirs is larger
  MaxDepth,    \* nor is a path longer
  MaxChanges,  \* MAX_DIFF_CHANGES
  Benchmarks,  \* the documents that are compared
  MaxFloat     \* the largest finite number

Inner == {"object", "array"}

Paths == UNION {[1..n -> 1..MaxKey] : n \in 0..MaxDepth}

Above(path) == {[i \in 1..n |-> path[i]] : n \in 0..Len(path) - 1}

\* What is above a node of a document is an object or an array.
ASSUME TreeAssumption ==
  /\ MaxKey \in Nat /\ MaxDepth \in Nat /\ MaxChanges \in Nat
  /\ \A t \in Trees : /\ <<>> \in DOMAIN t /\ DOMAIN t \subseteq Paths
                      /\ \A p \in DOMAIN t : \A q \in Above(p) : q \in DOMAIN t /\ t[q].kind \in Inner

MetricNames == <<"ttft", "tokens_per_second", "latency", "peak_vram">>

\* What may be None: of its values one or none.
Optional(S) == {{}} \cup {{v} : v \in S}

\* A p50 is finite and not negative; a report has the metrics of its schema.
ASSUME BenchmarkAssumption ==
  /\ MaxFloat \in Nat /\ MaxFloat >= 100
  /\ \A b \in Benchmarks : \A m \in DOMAIN b.metrics : b.metrics[m].p50 \in Optional(0..MaxFloat)
  /\ \A b \in Benchmarks : DOMAIN b.metrics \subseteq {MetricNames[i] : i \in DOMAIN MetricNames}
  /\ \A b, c \in Benchmarks : DOMAIN b.metrics = DOMAIN c.metrics

VARIABLES
  job,        \* "diff" or "compare", "diffed", "compared" or "none"
  left,       \* the first document
  right,      \* the second
  pending,    \* the paths walk() has still to look at, in its order
  changes,    \* the changes listed
  truncated,  \* were some left out?
  comparison  \* what compare_benchmarks() returns

compareVars == <<job, left, right, pending, changes, truncated, comparison>>

Missing == [kind |-> "missing"]
Nothing == [kind |-> "none"]

CompareInit ==
  /\ \/ job = "diff" /\ left \in Trees /\ right \in Trees /\ pending = << <<>> >>
     \/ job = "compare" /\ left \in Benchmarks /\ right \in Benchmarks /\ pending = <<>>
  /\ changes = <<>> /\ truncated = FALSE /\ comparison = Nothing

\* No document is diffed or compared.
CompareNone ==
  /\ job = "none" /\ left = Missing /\ right = Missing /\ pending = <<>>
  /\ changes = <<>> /\ truncated = FALSE /\ comparison = Nothing
-----------------------------------------------------------------------------
(* diff_exports() *)

At(document, path) == IF path \in DOMAIN document THEN document[path] ELSE Missing

\* Both are objects, or both are arrays: walk() goes into them.
SameKind(path) == At(left, path).kind = At(right, path).kind /\ At(left, path).kind \in Inner

\* Python's ==, for which True is 1.
PyEqual(before, after) ==
  IF before.kind \in {"boolean", "number"} /\ after.kind \in {"boolean", "number"}
  THEN before.value = after.value
  ELSE before = after

Unchanged(path) == PyEqual(At(left, path), At(right, path))

\* The keys of either; the indices of the longer.
KeysOf(path) == {k \in 1..MaxKey : Append(path, k) \in DOMAIN left \cup DOMAIN right}

IsSorted(s, S) ==
  /\ S = {s[i] : i \in DOMAIN s}
  /\ \A i, j \in DOMAIN s : i < j => s[i] < s[j]

Sorted(S) == CHOOSE s \in UNION {[1..n -> S] : n \in 0..MaxKey} : IsSorted(s, S)

\* Mutant: the last of them first.
ChildrenReversed(path) ==
  LET keys == Sorted(KeysOf(path)) IN [i \in DOMAIN keys |-> Append(path, keys[Len(keys) + 1 - i])]

Children(path) ==
  LET keys == Sorted(KeysOf(path)) IN [i \in DOMAIN keys |-> Append(path, keys[i])]

Kind(path) ==
  CASE At(left, path) = Missing  -> "added"
    [] At(right, path) = Missing -> "removed"
    [] OTHER                     -> "changed"

Full == Len(changes) >= MaxChanges

Diffing == job = "diff" /\ pending # <<>>

\* Mutant: the changes that do not fit are dropped unsaid.
Drop ==
  /\ Diffing /\ Full
  /\ pending' = Tail(pending)
  /\ UNCHANGED <<job, left, right, changes, truncated, comparison>>

\* The head of walk() and of add(): once the list is full nothing is looked at.
Skip ==
  /\ Diffing /\ Full
  /\ truncated' = TRUE
  /\ pending' = Tail(pending)
  /\ UNCHANGED <<job, left, right, changes, comparison>>

Walk ==
  /\ Diffing /\ ~Full
  /\ SameKind(Head(pending))
  /\ pending' = Children(Head(pending)) \o Tail(pending)
  /\ UNCHANGED <<job, left, right, changes, truncated, comparison>>

Add ==
  /\ Diffing /\ ~Full
  /\ ~SameKind(Head(pending)) /\ ~Unchanged(Head(pending))
  /\ changes' = Append(changes, [path |-> Head(pending), kind |-> Kind(Head(pending))])
  /\ pending' = Tail(pending)
  /\ UNCHANGED <<job, left, right, truncated, comparison>>

Same ==
  /\ Diffing /\ ~Full
  /\ ~SameKind(Head(pending)) /\ Unchanged(Head(pending))
  /\ pending' = Tail(pending)
  /\ UNCHANGED <<job, left, right, changes, truncated, comparison>>

ReturnDiff ==
  /\ job = "diff" /\ pending = <<>>
  /\ job' = "diffed"
  /\ UNCHANGED <<left, right, pending, changes, truncated, comparison>>
-----------------------------------------------------------------------------
(* compare_benchmarks() *)

Identity == {"workload", "adapter", "model"}

\* Mutant: the mismatch is looked for in what the first of them has.
ReasonsOfLeft(l, r) ==
  (IF l.v2 /\ r.v2 THEN {} ELSE {"requires_benchmark_v2"})
  \cup (IF l.profile = 0 THEN {"profile_missing"}
        ELSE IF l.profile # r.profile THEN {"profile_mismatch"} ELSE {})
  \cup (IF ~(l.v2 /\ r.v2) THEN {} ELSE {i \in Identity : l[i] # r[i]})

\* For the reasons only v2 reports have an identity and metrics to look at.
Reasons(l, r) ==
  (IF l.v2 /\ r.v2 THEN {} ELSE {"requires_benchmark_v2"})
  \cup (IF l.profile = 0 \/ r.profile = 0 THEN {"profile_missing"}
        ELSE IF l.profile # r.profile THEN {"profile_mismatch"} ELSE {})
  \cup (IF ~(l.v2 /\ r.v2) THEN {}
        ELSE {i \in Identity : l[i] # r[i]}
             \cup {m \in DOMAIN l.metrics : \/ l.metrics[m].unit # r.metrics[m].unit
                                            \/ l.metrics[m].confidence # r.metrics[m].confidence})

Delta(l, r) == {b - a : a \in l, b \in r}

\* The relative delta in percent is 100 delta / left, kept as this fraction;
\* there is none of a p50 that is 0.
Relative(l, r) == {[num |-> 100 * (b - a), den |-> a] : a \in l \ {0}, b \in r}

\* Mutant: only the absolute delta is looked at.
NeverNonFinite(l, r) == \E d \in Delta(l, r) : d > MaxFloat

\* What one p50 is larger by is finite as they are: only the quotient overflows.
NonFinite(l, r) == \E q \in Relative(l, r) : q.num > MaxFloat * q.den

MetricDelta(l, r) == [absolute |-> Delta(l, r), relative |-> Relative(l, r)]

NoMetrics == [m \in {} |-> 0]

\* The first metric whose delta is not finite refuses them all.
Comparison(l, r) ==
  LET why   == Reasons(l, r)
      first == {i \in DOMAIN MetricNames :
                  /\ MetricNames[i] \in DOMAIN l.metrics
                  /\ NonFinite(l.metrics[MetricNames[i]].p50, r.metrics[MetricNames[i]].p50)}
  IN  IF why # {} THEN [kind |-> "incompatible", reasons |-> why, metrics |-> NoMetrics]
      ELSE IF first # {}
      THEN [kind |-> "incompatible",
            reasons |-> {"non_finite." \o MetricNames[CHOOSE i \in first : \A j \in first : i <= j]},
            metrics |-> NoMetrics]
      ELSE [kind |-> "compatible", reasons |-> {},
            metrics |-> [m \in DOMAIN l.metrics |-> MetricDelta(l.metrics[m].p50, r.metrics[m].p50)]]

Compare ==
  /\ job = "compare"
  /\ comparison' = Comparison(left, right)
  /\ job' = "compared"
  /\ UNCHANGED <<left, right, pending, changes, truncated>>

CompareNext == Skip \/ Walk \/ Add \/ Same \/ ReturnDiff \/ Compare
-----------------------------------------------------------------------------
\* Where two documents differ: not below a path where they already do.
Differs(path) ==
  /\ \A p \in Above(path) : SameKind(p)
  /\ ~SameKind(path) /\ ~Unchanged(path)

\* The order of a document: parents first, then by key.
Precedes(p, q) ==
  \E n \in 0..Len(p) : /\ n < Len(q) /\ \A i \in 1..n : p[i] = q[i]
                       /\ n = Len(p) \/ p[n + 1] < q[n + 1]

Listed == {changes[i].path : i \in DOMAIN changes}

\* What happened at a path that is listed.
KindIsRight(change) ==
  /\ change.kind = "added"   <=> At(left, change.path) = Missing
  /\ change.kind = "removed" <=> At(right, change.path) = Missing

\* A diff lists the first places where the documents differ (up to Python's
\* ==), each once and with what happened there: all of them, or as many as
\* there is room for when it says that it is truncated.  There need not be
\* more of them then (reporting/compare.py:34-36).
DiffListsTheFirst ==
  job = "diffed" =>
    /\ \A p \in Listed : Differs(p)
    /\ \A p \in Listed, q \in Paths : Differs(q) /\ Precedes(q, p) => q \in Listed
    /\ \A i, j \in DOMAIN changes : changes[i].path = changes[j].path => i = j
    /\ \A i \in DOMAIN changes : KindIsRight(changes[i])
    /\ IF truncated THEN Len(changes) = MaxChanges ELSE \A p \in Paths : Differs(p) => p \in Listed

\* Which of two benchmarks comes first changes the sign of what is compared
\* and never whether they may be: only a quotient that overflows one way need
\* not do so the other (docs/reporting.md:49-61).  And no number of a comparison
\* is infinite: MetricComparison would refuse it with an error that no command
\* handles.
ComparisonIsSound ==
  comparison # Nothing =>
    LET back == Comparison(right, left)
    IN  /\ Reasons(left, right) = Reasons(right, left)
        /\ comparison.kind = "compatible" /\ back.kind = "compatible" =>
             \A m \in DOMAIN left.metrics :
               comparison.metrics[m].absolute = {-d : d \in back.metrics[m].absolute}
        /\ comparison.kind = "compatible" =>
             \A m \in DOMAIN comparison.metrics :
               /\ \A d \in comparison.metrics[m].absolute : -MaxFloat <= d /\ d <= MaxFloat
               /\ \A q \in comparison.metrics[m].relative :
                    q.den > 0 /\ -MaxFloat * q.den <= q.num /\ q.num <= MaxFloat * q.den
=============================================================================
