-------------------------------- MODULE WebApi --------------------------------
(***************************************************************************)
(* `flopbench serve` and its API (webapp.py, cli.py): the boundary every   *)
(* request passes, the handlers, which run side by side in threads, and    *)
(* what the process keeps in memory.                                       *)
(*                                                                         *)
(* The process may end at any time and be started again: it then has       *)
(* another token and has forgotten everything.  A token stands for the     *)
(* process that made it.                                                   *)
(***************************************************************************)
EXTENDS Simulator, Integers, FiniteSets

CONSTANTS
  Seeds,         \* the seeds of simulations
  MaxProcesses,  \* how often it is started
  MaxCalls,      \* how many requests are made
  None           \* no answer yet, no header

ASSUME ApiAssumption == MaxProcesses \in Nat \ {0} /\ MaxCalls \in Nat

VARIABLES
  process,      \* the process that runs, or 0
  started,      \* how many have been
  calls,        \* the requests whose answers are still to come
  serial,       \* how many have been made
  benchmarks,   \* app.state.benchmarks: their ids
  simulations,  \* app.state.simulations: the results, by session id
  told          \* what this process has answered: ids and results

apiVars == <<process, started, calls, serial, benchmarks, simulations, told>>

store   == <<benchmarks, simulations, told>>
running == <<process, started>>

NoSimulations == [id \in {} |-> None]

\* Mutant: the scenario is no part of it.
SessionIdOfSeed(scenario, seed) == <<"any", seed>>

\* build_session_request(): uuid5 of the scenario and the seed.
SessionId(scenario, seed) == <<scenario, seed>>

\* What is asked: of the simulations the scenario and the seed, else no matter.
Simulation(scenario, seed) == [path |-> "simulations", scenario |-> scenario, seed |-> seed]
Asks(path)                 == [path |-> path]

\* An answer other than a simulation's tells whether it is one.
Success == [raised |-> FALSE]
Failure == [raised |-> TRUE]

Call(id, ask, token) ==
  [id |-> id, ask |-> ask, token |-> token, stage |-> "sent", answer |-> None]

ApiInit ==
  /\ process = 0 /\ started = 0
  /\ calls = {} /\ serial = 0
  /\ benchmarks = {} /\ simulations = NoSimulations /\ told = {}
-----------------------------------------------------------------------------
(* local_boundary() *)

Loopback == {"127.0.0.1", "::1"}
NoPort   == 0
Port     == 4173

\* A Host header that urlsplit() refuses, or none, is None.
IsLoopbackHost(host) == host # None /\ host.name \in Loopback

OriginPort(origin) ==
  IF origin.port # NoPort THEN origin.port ELSE IF origin.scheme = "https" THEN 443 ELSE 80

OriginMatches(origin, host) ==
  /\ origin.scheme \in {"http", "https"}
  /\ origin.name \in Loopback /\ origin.name = host.name
  /\ host.port \in {NoPort, OriginPort(origin)}

Boundary(path, host, origin, token) ==
  CASE ~IsLoopbackHost(host) -> "api.host_rejected"
    [] IsLoopbackHost(host) /\ origin # None /\ ~OriginMatches(origin, host) ->
         "api.origin_rejected"
    [] IsLoopbackHost(host) /\ (origin = None \/ OriginMatches(origin, host)) ->
         IF path = "health" \/ token = process THEN "pass" ELSE "api.token_rejected"

Hosts   == {None} \cup [name : {"127.0.0.1", "localhost"}, port : {NoPort, Port}]
Origins == {None} \cup [scheme : {"http", "file"}, name : {"127.0.0.1", "::1"}, port : {NoPort, Port}]
-----------------------------------------------------------------------------
(* The process *)

\* validate_bind_host(): literal loopback addresses only.
Serve(host) ==
  /\ process = 0 /\ started < MaxProcesses
  /\ host \in Loopback
  /\ process' = started + 1 /\ started' = started + 1
  /\ benchmarks' = {} /\ simulations' = NoSimulations /\ told' = {}
  /\ UNCHANGED <<calls, serial>>

Failed(c) == [c EXCEPT !.stage = "answered", !.answer = Failure]

\* What is not answered fails, and what is on its way may.
ServerStops ==
  /\ process # 0
  /\ process' = 0
  /\ \E arrived \in SUBSET {c \in calls : c.stage \in {"sent", "answered"}} :
       calls' = {IF c \in arrived THEN c ELSE Failed(c) : c \in calls}
  /\ UNCHANGED <<started, serial, store>>

Becomes(c, d) == calls' = (calls \ {c}) \cup {d}

\* The page sends the headers of the origin it is of.
Receive(c) ==
  /\ c.stage = "sent"
  /\ LET own == [name |-> "127.0.0.1", port |-> Port]
         origin == [scheme |-> "http", name |-> "127.0.0.1", port |-> Port]
     IN  Becomes(c, IF process # 0 /\ Boundary(c.ask.path, own, origin, c.token) = "pass"
                    THEN [c EXCEPT !.stage = "handled"] ELSE Failed(c))
  /\ UNCHANGED <<running, serial, store>>

\* Another client, with whatever headers; one that is rejected is answered at
\* once and changes nothing.
Arrive(ask) ==
  /\ process # 0 /\ serial < MaxCalls
  /\ \E host \in Hosts, origin \in Origins, token \in 0..started :
       Boundary(ask.path, host, origin, token) = "pass"
  /\ serial' = serial + 1
  /\ calls' = calls \cup {[Call(-serial - 1, ask, process) EXCEPT !.stage = "handled"]}
  /\ UNCHANGED <<running, store>>
-----------------------------------------------------------------------------
(* The handlers *)

Handles(c, path) == c.stage = "handled" /\ c.ask.path = path

Answers(c, answer) ==
  /\ Becomes(c, [c EXCEPT !.stage = "answered", !.answer = answer])
  /\ UNCHANGED <<running, serial>>

\* checks(), report_preview(): nothing is kept, and what they raise is a 500.
Inspect(c) ==
  /\ Handles(c, "miner") \/ Handles(c, "validator") \/ Handles(c, "preview")
  /\ Answers(c, Success) \/ Answers(c, Failure)
  /\ UNCHANGED store

\* simulation() and benchmark(): what is computed is kept a moment later.  A
\* workload that cannot be loaded, or a report that refuses itself, is a 500.
Compute(c) ==
  /\ \/ /\ Handles(c, "simulations")
        /\ LET result == RunSimulation(c.ask.scenario)
           IN  Becomes(c, IF result.raised THEN Failed(c)
                          ELSE [c EXCEPT !.stage = "computed", !.answer = result])
     \/ /\ Handles(c, "benchmarks")
        /\ \/ Becomes(c, [c EXCEPT !.stage = "computed", !.answer = Success])
           \/ Becomes(c, Failed(c))
  /\ UNCHANGED <<running, serial, store>>

KeepSimulation(c) ==
  /\ c.stage = "computed" /\ c.ask.path = "simulations"
  /\ LET id == SessionId(c.ask.scenario, c.ask.seed)
     IN  /\ simulations' = [i \in DOMAIN simulations \cup {id} |->
                              IF i = id THEN c.answer ELSE simulations[i]]
         /\ told' = told \cup {[id |-> id, answer |-> c.answer]}
  /\ Answers(c, c.answer)
  /\ UNCHANGED benchmarks

\* A benchmark has an id of its own.
KeepBenchmark(c) ==
  /\ c.stage = "computed" /\ c.ask.path = "benchmarks"
  /\ benchmarks' = benchmarks \cup {<<"benchmark", c.id>>}
  /\ told' = told \cup {[id |-> <<"benchmark", c.id>>, answer |-> c.answer]}
  /\ Answers(c, c.answer)
  /\ UNCHANGED simulations

\* simulation_detail(): what is there, or a 404.
Detail(c) ==
  /\ Handles(c, "detail")
  /\ LET id == SessionId(c.ask.scenario, c.ask.seed)
     IN  IF id \in DOMAIN simulations
         THEN /\ told' = told \cup {[id |-> id, answer |-> simulations[id]]}
              /\ Answers(c, simulations[id])
         ELSE Answers(c, Failure) /\ UNCHANGED told
  /\ UNCHANGED <<benchmarks, simulations>>

\* The answer reaches another client.
Delivered(c) ==
  /\ c.stage = "answered" /\ c.id < 0
  /\ calls' = calls \ {c}
  /\ UNCHANGED <<running, serial, store>>

Strangers ==
  {Simulation(s, n) : s \in {"success", "wrong-model"}, n \in Seeds}
    \cup {[Simulation("success", n) EXCEPT !.path = "detail"] : n \in Seeds}

ApiNext ==
  \/ \E host \in {"127.0.0.1", "0.0.0.0"} : Serve(host)
  \/ ServerStops
  \/ \E ask \in Strangers : Arrive(ask)
  \/ \E c \in calls :
       \/ Receive(c) \/ Inspect(c) \/ Compute(c)
       \/ KeepSimulation(c) \/ KeepBenchmark(c) \/ Detail(c) \/ Delivered(c)
-----------------------------------------------------------------------------
\* What the process has answered for an id it would answer again, whoever runs
\* simulations beside (webapp.py:234, 263).
ToldIsKept ==
  process # 0 =>
    \A t \in told :
      \/ t.id \in benchmarks
      \/ t.id \in DOMAIN simulations /\ simulations[t.id] = t.answer

Visits(result, state) == \E i \in DOMAIN result.events : result.events[i].to = state

Accounted(result) ==
  LET last == Len(result.events)
  IN  /\ \A i \in 2..last :
           /\ result.events[i].from = result.events[i - 1].to
           /\ result.events[i].to \in AllowedTransitions[result.events[i].from]
      /\ AllowedTransitions[result.events[last].to] = {}
      /\ result.accounting.charged > 0 <=> Visits(result, "settled")
      /\ result.accounting.slashed > 0 <=> Visits(result, "challenged")
      /\ result.challenge # "none" <=> Visits(result, "challenged")
      /\ result.accounting.slashed + result.accounting.refunded = MockStake

\* A session that is told of has ended by the table, event by event, and its
\* accounting follows from what the events say: a fee for a settlement, a slash
\* for a challenge that was upheld, and no credit made or lost
\* (simulator/engine.py:61-71).
AccountingFollowsEvents == \A id \in DOMAIN simulations : Accounted(simulations[id])
=============================================================================
