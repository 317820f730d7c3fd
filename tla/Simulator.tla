------------------------------ MODULE Simulator ------------------------------
(***************************************************************************)
(* The PoUI teaching simulation (simulator/machine.py, engine.py): a       *)
(* session machine with an event for every transition, the path each       *)
(* scenario takes through it and the mock accounting of where it ends.     *)
(***************************************************************************)
EXTENDS Naturals, Sequences

\* ALLOWED_TRANSITIONS
AllowedTransitions ==
  [created    |-> {"offered", "cancelled"},
   offered    |-> {"accepted", "rejected", "timed_out", "cancelled"},
   accepted   |-> {"running", "cancelled", "timed_out"},
   running    |-> {"submitted", "cancelled", "timed_out"},
   submitted  |-> {"validating", "challenged"},
   validating |-> {"settled", "challenged", "timed_out"},
   challenged |-> {"settled", "rejected", "timed_out"},
   settled    |-> {}, rejected |-> {}, timed_out |-> {}, cancelled |-> {}]

SessionState == DOMAIN AllowedTransitions
Scenarios ==
  {"success", "wrong-model", "high-latency", "canned-answer", "timeout", "miner-cancel",
   "validator-match", "validator-mismatch"}

Event(from, to) == [from |-> from, to |-> to]

\* SessionMachine.__init__()
NewMachine ==
  [state |-> "created", events |-> <<Event("none", "created")>>, raised |-> FALSE]

\* transition(): the state and then its event, or a SimulationError that no
\* caller in run_simulation() handles.
Transition(machine, to) ==
  CASE machine.raised -> machine
    [] ~machine.raised /\ to \notin AllowedTransitions[machine.state] ->
         [machine EXCEPT !.raised = TRUE]
    [] ~machine.raised /\ to \in AllowedTransitions[machine.state] ->
         [machine EXCEPT !.state = to, !.events = Append(@, Event(machine.state, to))]

\* What a validator finds, of the scenarios that come to one.
Reason(scenario) ==
  CASE scenario = "wrong-model"        -> "model_digest_mismatch"
    [] scenario = "high-latency"       -> "latency_limit_exceeded"
    [] scenario = "canned-answer"      -> "canned_answer_detected"
    [] scenario = "validator-mismatch" -> "validator_sample_mismatch"
    [] OTHER                           -> "none"

Steps(scenario) ==
  CASE scenario = "miner-cancel" -> <<"offered", "accepted", "running", "cancelled">>
    [] scenario = "timeout"      -> <<"offered", "accepted", "running", "timed_out">>
    [] OTHER ->
         IF Reason(scenario) = "none"
         THEN <<"offered", "accepted", "running", "submitted", "validating", "settled">>
         ELSE <<"offered", "accepted", "running", "submitted", "validating", "challenged", "rejected">>

Challenge(scenario) ==
  IF scenario \in {"miner-cancel", "timeout"} \/ Reason(scenario) = "none" THEN "none"
  ELSE IF scenario = "validator-mismatch" THEN "full-rerun" ELSE "sample"

RequestedFee == 25
MockStake    == 100
MockSlash    == 40

AccountingIf(settled, rejected) ==
  LET slashed == IF rejected THEN MockSlash ELSE 0
  IN  [charged |-> IF settled THEN RequestedFee ELSE 0,
       slashed |-> slashed, refunded |-> MockStake - slashed]

\* Mutant: who does not settle is slashed.
SlashUnsettled(final) == AccountingIf(final = "settled", final # "settled")

Accounting(final) == AccountingIf(final = "settled", final = "rejected")

\* The machine after each of these transitions.
Course(steps) ==
  LET machine[n \in 0..Len(steps)] ==
        IF n = 0 THEN NewMachine ELSE Transition(machine[n - 1], steps[n])
  IN  machine

\* run_simulation()
RunSimulation(scenario) ==
  LET machine == Course(Steps(scenario))[Len(Steps(scenario))]
  IN  [raised |-> machine.raised, scenario |-> scenario, events |-> machine.events,
       challenge |-> Challenge(scenario), accounting |-> Accounting(machine.state),
       final |-> machine.state]
=============================================================================
