-------------------------- MODULE MCBenchmarkEngine --------------------------
(* Instances of BenchmarkEngine: where Ctrl-C may come in each run.         *)
EXTENDS BenchmarkEngine

AllButClose == InLoop \cup {"identity", "assemble"}
=============================================================================
