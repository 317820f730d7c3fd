---- MODULE MCFileCommands ----
(* Small exports and benchmark reports for FileCommands. *)
EXTENDS FileCommands

\* Two reports that may be signed, and one that may not.
MCSchemaOf == [d \in Documents |->
  CASE d = "d1" -> "readiness" [] d = "d2" -> "benchmark" [] d = "d3" -> "other"]

\* The document of a node that has these documents in it.
Document(node, below) ==
  [p \in {<<>>} \cup UNION {{<<k>> \o q : q \in DOMAIN below[k]} : k \in DOMAIN below} |->
     IF p = <<>> THEN node ELSE below[Head(p)][Tail(p)]]

Leaf(kind, value) == Document([kind |-> kind, value |-> value], <<>>)
Array(items)      == Document([kind |-> "array"], items)
Object(fields)    == Document([kind |-> "object"], fields)

\* True and 1 differ in JSON and not in Python.
Leaves == {Leaf("boolean", 1), Leaf("number", 1), Leaf("number", 2)}
Values == Leaves \cup {Array(<<>>)} \cup {Array(<<v>>) : v \in Leaves}
            \cup {Array(<<Leaf("number", 1), Leaf("number", 2)>>),
                  Object([k \in {2} |-> Leaf("number", 1)])}

\* Every object of up to two fields.
MCTrees == UNION {{Object(f) : f \in [K -> Values]} : K \in SUBSET {1, 2}}

Metric(unit, confidence, p50) == [unit |-> unit, confidence |-> confidence, p50 |-> p50]

Usual == [v2 |-> TRUE, profile |-> 1, workload |-> 1, adapter |-> 1, model |-> 1,
          metrics |-> [m \in {"ttft", "latency"} |-> Metric(1, 1, {2})]]

\* Reports whose contexts differ, and some whose metrics do: 50 - 0 and 50 / 1
\* are finite for MaxFloat = 1000, and 100 * 49 / 1 is not.
MCBenchmarks ==
  {[[[[Usual EXCEPT !.v2 = v] EXCEPT !.profile = p] EXCEPT !.workload = w] EXCEPT !.adapter = a] :
     v \in BOOLEAN, p \in 0..2, w \in 1..2, a \in 1..2}
  \cup {[Usual EXCEPT !.model = 2]}
  \cup {[Usual EXCEPT !.metrics = f] :
          f \in [{"ttft", "latency"} ->
                   {Metric(u, 1, p) : u \in 1..2, p \in {{}, {0}, {1}, {50}}} \cup {Metric(1, 2, {0})}]}
====
