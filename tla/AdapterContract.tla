--------------------------- MODULE AdapterContract ---------------------------
(***************************************************************************)
(* What the benchmark engine assumes of BenchmarkAdapter.run()             *)
(* (benchmark/adapters.py): it answers once, with one outcome; a success   *)
(* has every core metric, a partial answer has a sample without them, the  *)
(* other failures have one or none; and only an event that was set cancels *)
(* a request.                                                              *)
(***************************************************************************)

VARIABLES
  answered,    \* has run() returned or raised?
  outcome,     \* as what the engine classifies the request
  sample,      \* what the engine gets of the sample
  requested    \* is the cancellation event set?

vars == <<answered, outcome, sample, requested>>

Outcome == {"success", "timeout", "error", "cancelled", "partial"}
Sample  == {"none", "incomplete", "complete"}

Init ==
  /\ answered = FALSE /\ outcome = "none" /\ sample = "none"
  /\ requested = FALSE

RequestCancel ==
  /\ requested' = TRUE
  /\ UNCHANGED <<answered, outcome, sample>>

Answer(o, s) ==
  /\ ~answered
  /\ o = "success"   => s = "complete"
  /\ o = "partial"   => s = "incomplete"
  /\ o # "success"   => s # "complete"
  /\ o = "cancelled" => requested
  /\ answered' = TRUE /\ outcome' = o /\ sample' = s
  /\ UNCHANGED requested

Next == RequestCancel \/ \E o \in Outcome, s \in Sample : Answer(o, s)

Spec == Init /\ [][Next]_vars
=============================================================================
