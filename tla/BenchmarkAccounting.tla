------------------------- MODULE BenchmarkAccounting -------------------------
(***************************************************************************)
(* What run_benchmark (benchmark/engine.py) promises its caller: every     *)
(* configured request ends up in the account, in order and with one        *)
(* outcome; once one of them is cancelled all the later ones are; the      *)
(* account is published when it is complete, or never.                     *)
(***************************************************************************)
EXTENDS Naturals, Sequences

CONSTANT Total   \* the configured number of requests, warmups included

VARIABLES
  account,   \* the outcome of each request so far
  phase      \* has the account been published, or given up?

Outcome == {"success", "timeout", "error", "cancelled", "partial"}

HasCancelled(s) == \E i \in DOMAIN s : s[i] = "cancelled"

Init == account = <<>> /\ phase = "open"

Classify(o) ==
  /\ phase = "open"
  /\ Len(account) < Total
  /\ HasCancelled(account) => o = "cancelled"
  /\ account' = Append(account, o)
  /\ UNCHANGED phase

Publish ==
  /\ phase = "open"
  /\ Len(account) = Total
  /\ phase' = "published"
  /\ UNCHANGED account

GiveUp ==
  /\ phase = "open"
  /\ phase' = "failed"
  /\ UNCHANGED account

Next == (\E o \in Outcome : Classify(o)) \/ Publish \/ GiveUp

Spec == Init /\ [][Next]_<<account, phase>>
=============================================================================
