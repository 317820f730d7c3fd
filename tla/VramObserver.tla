---------------------------- MODULE VramObserver ----------------------------
(***************************************************************************)
(* NvidiaVramObserver (benchmark/vram.py) between the benchmark loop that  *)
(* calls start() before and stop() after each request, and the daemon      *)
(* thread that start() leaves sampling the GPU's used memory.              *)
(*                                                                         *)
(* The two threads share _stop, _peak and _available with no lock, so      *)
(* every read and write of one of them is a step.  Request r's call of     *)
(* start() creates sampler r.  stop() waits for its sampler with a         *)
(* timeout and forgets it either way, also while an NVML call of the       *)
(* sampler goes on.                                                        *)
(*                                                                         *)
(* NVML itself is external: a reading is any member of Levels, taken at    *)
(* some moment between the call and its return; a call may fail, and one   *)
(* made while the library is not initialised does.                         *)
(***************************************************************************)
EXTENDS Naturals, FiniteSets

CONSTANTS
  Requests,   \* how many requests the benchmark runs, the bound on start()
  Levels      \* the amounts of used memory NVML can report

ASSUME RequestsAssumption == Requests \in Nat \ {0}
ASSUME LevelsAssumption   == Levels \subseteq Nat

Request == 1..Requests

\* A reading remembers the request during which NVML took it.
Reading == [of : Request, used : Levels]
None    == [of |-> 0, used |-> 0]

NoThread == 0

VARIABLES
  stopped,     \* _stop
  thread,      \* _thread: the sampler stop() will wait for
  peak,        \* _peak
  available,   \* _available
  initialized, \* _initialized
  nvml,        \* is the NVML library initialised? (external)
  cur,         \* the request start() was last called for
  pc,          \* where the benchmark's thread is
  mine,        \* stop()'s own reading
  mybase,      \* the peak stop() read before it stores the maximum
  spc,         \* where each sampler is
  used,        \* each sampler's latest reading
  base,        \* the peak a sampler read before it stores the maximum
  results,     \* what stop() returned for each request
  seen,        \* history: the readings each request's threads got
  gaveUp       \* history: has a join timed out?

observer == <<stopped, thread, peak, available, initialized, nvml>>
caller   == <<cur, pc, mine, mybase, results>>
samplers == <<spc, used, base>>
history  == <<seen, gaveUp>>
vars     == <<observer, caller, samplers, history>>

CallerAt  == {"idle", "reset", "init", "running", "join", "final", "reading",
              "merge", "store", "return", "shutdown"}
SamplerAt == {"unborn", "handle", "check", "read", "calling", "peek", "merge", "store",
              "failed", "ended"}

Live(s) == spc[s] \notin {"unborn", "ended"}

InNvml(s) == spc[s] \in {"handle", "calling"}

\* start() and stop() call NVML on the benchmark's own thread, with no bound.
CallerInNvml == pc \in {"init", "reading"} \/ (pc = "shutdown" /\ initialized)

\* Mutant: the latest reading is kept.
HigherLast(old, new) == new

Higher(old, new) == IF old = None \/ old.used < new.used THEN new ELSE old

At(here, there) == pc = here /\ pc' = there

SamplerMoves(s, here, there) == spc[s] = here /\ spc' = [spc EXCEPT ![s] = there]

Init ==
  /\ stopped = FALSE /\ thread = NoThread /\ peak = None
  /\ available = FALSE /\ initialized = FALSE /\ nvml = FALSE
  /\ cur = 0 /\ pc = "idle" /\ mine = None /\ mybase = None
  /\ spc  = [s \in Request |-> "unborn"]
  /\ used = [s \in Request |-> None]
  /\ base = [s \in Request |-> None]
  /\ results = [r \in Request |-> None]
  /\ seen    = [r \in Request |-> {}] /\ gaveUp = FALSE
-----------------------------------------------------------------------------
(* start(), called by the benchmark's thread *)

\* The guard of start() and _stop.clear().
StartClear ==
  /\ At("idle", "reset")
  /\ cur < Requests
  /\ thread = NoThread
  /\ cur' = cur + 1
  /\ stopped' = FALSE
  /\ UNCHANGED <<thread, peak, available, initialized, nvml>>
  /\ UNCHANGED <<mine, mybase, results, samplers, history>>

StartReset ==
  /\ At("reset", "init")
  /\ peak' = None
  /\ UNCHANGED <<stopped, thread, available, initialized, nvml>>
  /\ UNCHANGED <<cur, mine, mybase, results, samplers, history>>

\* nvmlInit and nvmlDeviceGetHandleByIndex both succeed; the sampler starts.
StartSampler ==
  /\ At("init", "running")
  /\ nvml' = TRUE /\ initialized' = TRUE /\ available' = TRUE
  /\ thread' = cur
  /\ spc' = [spc EXCEPT ![cur] = "handle"]
  /\ UNCHANGED <<stopped, peak, used, base, cur, mine, mybase, results, history>>

\* Either call fails: start() undoes nvmlInit, if it can, and leaves no sampler.
StartUnavailable ==
  /\ At("init", "running")
  /\ available' = FALSE
  /\ nvml' \in {nvml, TRUE} /\ initialized' = FALSE
  /\ UNCHANGED <<stopped, thread, peak>>
  /\ UNCHANGED <<cur, mine, mybase, results, samplers, history>>
-----------------------------------------------------------------------------
(* stop(), called by the benchmark's thread when the request is over *)

\* Mutant: _stop is not set.
StopSilently ==
  /\ At("running", IF thread = NoThread THEN "final" ELSE "join")
  /\ UNCHANGED <<observer, cur, mine, mybase, results, samplers, history>>

StopSignal ==
  /\ At("running", IF thread = NoThread THEN "final" ELSE "join")
  /\ stopped' = TRUE
  /\ UNCHANGED <<thread, peak, available, initialized, nvml>>
  /\ UNCHANGED <<cur, mine, mybase, results, samplers, history>>

JoinAfter(condition) ==
  /\ At("join", "final")
  /\ condition
  /\ thread' = NoThread
  /\ gaveUp' = (gaveUp \/ spc[thread] # "ended")
  /\ UNCHANGED <<stopped, peak, available, initialized, nvml>>
  /\ UNCHANGED <<cur, mine, mybase, results, samplers, seen>>

\* Mutant: a join without a timeout.
StopWaits == JoinAfter(spc[thread] = "ended")

\* join() returns because the sampler ended, or because the timeout passed
\* while the sampler was waiting for NVML.
StopJoin == JoinAfter(spc[thread] = "ended" \/ InNvml(thread))

\* `if self._available`: also after a join that timed out, stop() calls NVML
\* for a last reading.
StopChecks ==
  /\ At("final", IF available THEN "reading" ELSE "return")
  /\ UNCHANGED <<observer, cur, mine, mybase, results, samplers, history>>

StopReads ==
  /\ At("reading", "merge")
  /\ \E u \in Levels : mine' = [of |-> cur, used |-> u]
  /\ seen' = [seen EXCEPT ![cur] = @ \cup {mine'.used}] /\ UNCHANGED gaveUp
  /\ UNCHANGED <<observer, cur, mybase, results, samplers>>

StopReadFails ==
  /\ At("reading", "return")
  /\ available' = FALSE
  /\ UNCHANGED <<stopped, thread, peak, initialized, nvml>>
  /\ UNCHANGED <<cur, mine, mybase, results, samplers, history>>

StopMerges ==
  /\ At("merge", "store")
  /\ mybase' = peak
  /\ UNCHANGED <<observer, cur, mine, results, samplers, history>>

StopStores ==
  /\ At("store", "return")
  /\ peak' = Higher(mybase, mine)
  /\ UNCHANGED <<stopped, thread, available, initialized, nvml>>
  /\ UNCHANGED <<cur, mine, mybase, results, samplers, history>>

StopResult ==
  /\ At("return", "shutdown")
  /\ results' = [results EXCEPT ![cur] = IF available THEN peak ELSE None]
  /\ mine' = None /\ mybase' = None
  /\ UNCHANGED <<observer, cur, samplers, history>>

\* nvmlShutdown may fail, which is ignored.
StopShutdown ==
  /\ At("shutdown", "idle")
  /\ nvml' = nvml \/ nvml' = (nvml /\ ~initialized)
  /\ initialized' = FALSE
  /\ UNCHANGED <<stopped, thread, peak, available>>
  /\ UNCHANGED <<cur, mine, mybase, results, samplers, history>>

Benchmark ==
  \/ StartClear \/ StartReset \/ StartSampler \/ StartUnavailable
  \/ StopSignal \/ StopJoin \/ StopChecks \/ StopReads \/ StopReadFails
  \/ StopMerges \/ StopStores \/ StopResult \/ StopShutdown
-----------------------------------------------------------------------------
(* _sample_loop(), the body of sampler s *)

SamplerOpens(s) ==
  /\ SamplerMoves(s, "handle", "check")
  /\ nvml
  /\ UNCHANGED <<observer, caller, used, base, history>>

SamplerChecks(s) ==
  /\ SamplerMoves(s, "check", IF stopped THEN "ended" ELSE "read")
  /\ UNCHANGED <<observer, caller, used, base, history>>

\* nvmlDeviceGetMemoryInfo is called, and may take its reading at once.
SamplerCalls(s) ==
  /\ SamplerMoves(s, "read", "calling")
  /\ nvml
  /\ \E u \in Levels : used' = [used EXCEPT ![s] = [of |-> cur, used |-> u]]
  /\ UNCHANGED <<observer, caller, base, history>>

\* It returns that reading, or one taken while the call was blocked.
SamplerReads(s) ==
  /\ SamplerMoves(s, "calling", "peek")
  /\ \/ UNCHANGED used
     \/ nvml /\ \E u \in Levels : used' = [used EXCEPT ![s] = [of |-> cur, used |-> u]]
  /\ seen' = [seen EXCEPT ![used'[s].of] = @ \cup {used'[s].used}] /\ UNCHANGED gaveUp
  /\ UNCHANGED <<observer, caller, base>>

SamplerNvmlFails(s) ==
  /\ InNvml(s) \/ (spc[s] = "read" /\ ~nvml)
  /\ spc' = [spc EXCEPT ![s] = "failed"]
  /\ UNCHANGED <<observer, caller, used, base, history>>

\* `self._peak is None`: the first of two reads of _peak.
SamplerPeeks(s) ==
  /\ SamplerMoves(s, "peek", IF peak = None THEN "store" ELSE "merge")
  /\ base' = [base EXCEPT ![s] = None]
  /\ UNCHANGED <<observer, caller, used, history>>

\* `max(self._peak, used)`: a start() in between has made _peak None again,
\* and the comparison with None kills the thread.
SamplerMerges(s) ==
  /\ SamplerMoves(s, "merge", IF peak = None THEN "ended" ELSE "store")
  /\ base' = [base EXCEPT ![s] = peak]
  /\ UNCHANGED <<observer, caller, used, history>>

SamplerStores(s) ==
  /\ SamplerMoves(s, "store", "check")
  /\ peak' = Higher(base[s], used[s])
  /\ used' = [used EXCEPT ![s] = None] /\ base' = [base EXCEPT ![s] = None]
  /\ UNCHANGED <<stopped, thread, available, initialized, nvml>>
  /\ UNCHANGED <<caller, history>>

SamplerGivesUp(s) ==
  /\ SamplerMoves(s, "failed", "ended")
  /\ available' = FALSE
  /\ UNCHANGED <<stopped, thread, peak, initialized, nvml>>
  /\ UNCHANGED <<caller, used, base, history>>

\* The sampler's steps that wait for nothing but the interpreter.
SamplerRuns(s) ==
  \/ SamplerChecks(s) \/ SamplerCalls(s) \/ SamplerPeeks(s)
  \/ SamplerMerges(s) \/ SamplerStores(s) \/ SamplerGivesUp(s)

Sampler(s) ==
  \/ SamplerRuns(s) \/ SamplerOpens(s) \/ SamplerReads(s) \/ SamplerNvmlFails(s)

Next == Benchmark \/ \E s \in Request : Sampler(s)

Spec == Init /\ [][Next]_vars

\* Both threads get to run, but an NVML call of either may never return.
FairThreads ==
  /\ Spec
  /\ WF_vars(~CallerInNvml /\ Benchmark)
  /\ \A s \in Request : WF_vars(SamplerRuns(s))
-----------------------------------------------------------------------------
\* The values each variable takes.
TypeOK ==
  /\ stopped \in BOOLEAN /\ available \in BOOLEAN
  /\ initialized \in BOOLEAN /\ nvml \in BOOLEAN
  /\ thread \in Request \cup {NoThread}
  /\ peak \in Reading \cup {None}
  /\ cur \in 0..Requests
  /\ pc \in CallerAt
  /\ mine \in Reading \cup {None} /\ mybase \in Reading \cup {None}
  /\ spc \in [Request -> SamplerAt]
  /\ used \in [Request -> Reading \cup {None}]
  /\ base \in [Request -> Reading \cup {None}]
  /\ results \in [Request -> Reading \cup {None}]
  /\ seen \in [Request -> SUBSET Levels] /\ gaveUp \in BOOLEAN

\* The peak stop() returns for a request was read during that request: what
\* start() and stop() are for (docs/benchmarks.md:58-59).
PeakFromOwnRequest == \A r \in Request : results[r] # None => results[r].of = r

PeakCoversReadings ==
  \A r \in Request : results[r] # None => \A u \in seen[r] : u <= results[r].used

OnlyOwnSampler == \A s \in Request : Live(s) => thread = s /\ nvml

\* Until a join has timed out the unlocked attributes are safe: the peak of a
\* request is of that request, since start() resets it and stop() reads it
\* last; no reading the request got exceeds it, since the read-modify-write of
\* _peak by two threads loses no maximum (vram.py:60,74); and a sampler that is
\* alive is the one stop() will wait for, with NVML initialised for it, so that
\* none outlives nvmlShutdown (vram.py:36,67-69,78-81).
JoinedSafe == ~gaveUp => PeakFromOwnRequest /\ PeakCoversReadings /\ OnlyOwnSampler

\* A sampler stuck in NVML does not keep stop() for ever (vram.py:68): stop()
\* returns, unless a call into NVML of its own, which it makes on the caller's
\* thread and without a bound, never comes back (vram.py:71-73,80).
StopReturns == pc = "join" ~> (pc = "idle" \/ []CallerInNvml)

NvmlReturns == \A s \in Request : WF_vars(Sampler(s))

\* If the samplers' NVML calls return at all, no sampler goes on for ever once the last
\* request is over, not even one that an earlier stop() gave up waiting for
\* and a later start() let run again.
SamplersEnd == NvmlReturns => ((pc = "idle" /\ cur = Requests) ~> \A s \in Request : ~Live(s))
=============================================================================
