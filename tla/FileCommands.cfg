\* Three exports, two signers, trees of two levels, two runs of a release, two
\* commands on one output path and a source edited once.
CONSTANTS
  Documents = {"d1", "d2", "d3"}
  SchemaOf <- MCSchemaOf
  Keys = {"k1", "k2"}
  MaxMeddling = 3
  None = None
  Trees <- MCTrees
  MaxKey = 2
  MaxDepth = 2
  MaxChanges = 2
  Benchmarks <- MCBenchmarks
  MaxFloat = 1000
  MaxRuns = 2
  MaxActs = 2
  Exporters = {a, b}
  MaxVersion = 2
SPECIFICATION Spec
INVARIANTS CreatedReceiptIsSigned DiffListsTheFirst ComparisonIsSound VerifiedIsWhole FinalizedByOneRun
INVARIANTS PublicWasPreviewed NoPartialLeft
PROPERTIES VerifiedWasSigned NothingReplaced
\* The commands end.
CHECK_DEADLOCK FALSE
