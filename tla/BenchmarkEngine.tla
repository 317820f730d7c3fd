--------------------------- MODULE BenchmarkEngine ---------------------------
(***************************************************************************)
(* run_benchmark (benchmark/engine.py) and the command that calls it       *)
(* (benchmark_run in cli.py): the loop over warmup and measured requests,  *)
(* its try/except/finally blocks, the assembly of the report and its       *)
(* validation, and the exit code.                                          *)
(*                                                                         *)
(* Around the loop there are the adapter, which answers a request in any   *)
(* of the ways its protocol has; the cancellation event, which another     *)
(* thread may set at any time; and Ctrl-C, a KeyboardInterrupt raised at   *)
(* whatever the benchmark's thread is doing.  The constants say where it   *)
(* may come and which of the rarer failures are let happen.                *)
(***************************************************************************)
EXTENDS Integers, Sequences, FiniteSets

CONSTANTS
  Warmup,          \* warmup_runs of the workload
  Measured,        \* measured_runs of the workload
  Prompts,         \* how many prompts the workload cycles through
  Observed,        \* is there a VRAM observer?
  InterruptsAt,    \* the places at which Ctrl-C may come
  MaxInterrupts,   \* how often it comes: a bound
  AdapterConforms, \* does run() only raise AdapterErrors and return full samples?
  ClockStepsBack   \* can the wall clock be set back beyond the start?

ASSUME WorkloadAssumption ==
  Warmup \in Nat /\ Measured \in Nat \ {0} /\ Prompts \in Nat \ {0}
ASSUME EnvironmentAssumption ==
  /\ {Observed, AdapterConforms, ClockStepsBack} \subseteq BOOLEAN
  /\ MaxInterrupts \in Nat

Total == Warmup + Measured

VARIABLES
  pc,         \* where the benchmark's thread is
  offset,     \* the loop variable
  records,    \* records
  cancelled,  \* cancellation.is_set()
  late,       \* was the adapter called after that?  history: how often
  observing,  \* has the observer been started and not stopped?
  closed,     \* has adapter.close() been called?
  answer,     \* outcome, error_code and sample of the request in progress
  raising,    \* the exception on its way out of run_benchmark
  report,     \* what run_benchmark returns
  exit,       \* the exit code of the command
  interrupts, \* how many times Ctrl-C has come
  outside     \* history: has it come anywhere but in adapter.run()?

vars == <<pc, offset, records, cancelled, late, observing, closed, answer,
          raising, report, exit, interrupts, outside>>

Outcome == {"success", "timeout", "error", "cancelled", "partial"}
Sample  == {"none", "incomplete", "complete"}

Code == {"none", "request", "before_start"}

\* outcome, error_code and what the sample has of the core metrics.
Answer == [outcome : Outcome, code : Code, sample : Sample]

Unanswered == [outcome |-> "success", code |-> "none", sample |-> "none"]

NoReport  == [counts |-> [o \in Outcome |-> 0], failed |-> 0, measured |-> 0]
NoExit    == -1
InLoop    == {"loop", "start", "call", "inflight", "stop", "record"}
Places    == {"identity", "close", "assemble", "reported", "raised", "exited"} \cup InLoop
Exception == {"none", "interrupt", "adapter", "validation", "clock", "unexpected"}

\* Mutant: an off-by-one.
OneWarmupMore(i) == i <= Warmup

IsWarmup(i) == i < Warmup
PromptOf(i) == i % Prompts

Record == [sequence : 1..Total, prompt : 0..Prompts-1, warmup : BOOLEAN,
           outcome : Outcome, code : Code, sample : Sample, vram : BOOLEAN]

\* The fields of a record that outcome_fields_are_consistent() relates.
Acceptable(a) ==
  /\ a.outcome = "success" => a.sample = "complete" /\ a.code = "none"
  /\ a.outcome # "success" => a.code # "none"

RecordOf(i, a, vram) ==
  [sequence |-> i + 1, prompt |-> PromptOf(i), warmup |-> IsWarmup(i),
   outcome |-> a.outcome, code |-> a.code, sample |-> a.sample, vram |-> vram]

\* Where the measured records are, and those of them with an outcome.
MeasuredOf(rs) == {i \in DOMAIN rs : ~rs[i].warmup}
CountOf(rs, o) == Cardinality({i \in MeasuredOf(rs) : rs[i].outcome = o})

\* The counters, and the error rate as a fraction.
ReportOf(rs) ==
  LET counts == [o \in Outcome |-> CountOf(rs, o)] IN
  [counts   |-> counts,
   failed   |-> Cardinality(MeasuredOf(rs)) - counts["success"],
   measured |-> Cardinality(MeasuredOf(rs))]

\* report_is_consistent(), but for the timestamps.
Consistent(rs, rep) ==
  /\ Len(rs) = Total
  /\ \A i \in DOMAIN rs : rs[i].sequence = i /\ rs[i].warmup = (i - 1 < Warmup)
  /\ Cardinality(MeasuredOf(rs)) = Measured
  /\ \A o \in Outcome : rep.counts[o] = CountOf(rs, o)
  /\ LET total == rep.counts["success"] + rep.counts["timeout"] + rep.counts["error"]
                  + rep.counts["cancelled"] + rep.counts["partial"]
     IN rep.failed * total = (total - rep.counts["success"]) * rep.measured

Init ==
  /\ pc = "identity" /\ offset = 0 /\ records = <<>>
  /\ cancelled = FALSE /\ late = 0
  /\ observing = FALSE /\ closed = FALSE
  /\ answer = Unanswered /\ raising = "none"
  /\ report = NoReport /\ exit = NoExit /\ interrupts = 0 /\ outside = FALSE
-----------------------------------------------------------------------------
(* The loop *)

Go(here, there) == pc = here /\ pc' = there

ModelIdentity ==
  /\ \/ Go("identity", "loop") /\ UNCHANGED raising
     \/ /\ Go("identity", "close")
        /\ raising' \in {"adapter"} \cup IF AdapterConforms THEN {} ELSE {"validation", "unexpected"}
  /\ UNCHANGED <<offset, records, cancelled, late, observing, closed, answer,
                 report, exit, interrupts, outside>>

\* The event is set: the request is recorded without being made.
SkipCancelled ==
  /\ Go("loop", "loop")
  /\ offset < Total
  /\ cancelled
  /\ LET skipped == [outcome |-> "cancelled", code |-> "before_start", sample |-> "none"]
     IN records' = Append(records, RecordOf(offset, skipped, FALSE))
  /\ offset' = offset + 1
  /\ UNCHANGED <<cancelled, late, observing, closed, answer, raising, report,
                 exit, interrupts, outside>>

BeginUnless(skipped) ==
  /\ Go("loop", IF Observed THEN "start" ELSE "call")
  /\ offset < Total
  /\ ~skipped
  /\ answer' = Unanswered
  /\ UNCHANGED <<offset, records, cancelled, late, observing, closed, raising,
                 report, exit, interrupts, outside>>

\* Mutant: the event is not looked at between requests.
BeginAnyway == BeginUnless(FALSE)

BeginRequest == BeginUnless(cancelled)

StartObserver ==
  /\ Go("start", "call")
  /\ observing' = TRUE
  /\ UNCHANGED <<offset, records, cancelled, late, closed, answer, raising,
                 report, exit, interrupts, outside>>

\* An adapter looks at the event before it does anything else.
CallAdapter ==
  /\ pc = "call"
  /\ late' = IF cancelled THEN late + 1 ELSE late
  /\ IF cancelled
     THEN /\ pc' = "stop"
          /\ answer' = [outcome |-> "cancelled", code |-> "request", sample |-> "none"]
     ELSE /\ pc' = "inflight"
          /\ UNCHANGED answer
  /\ UNCHANGED <<offset, records, cancelled, observing, closed, raising, report,
                 exit, interrupts, outside>>

AdapterSucceeds ==
  /\ Go("inflight", "stop")
  /\ \E s \in {"complete"} \cup (IF AdapterConforms THEN {} ELSE {"incomplete"}) :
       answer' = [outcome |-> "success", code |-> "none", sample |-> s]
  /\ UNCHANGED <<offset, records, cancelled, late, observing, closed, raising,
                 report, exit, interrupts, outside>>

\* A partial answer has a sample, the other failures have one if text came.
AdapterFails ==
  /\ Go("inflight", "stop")
  /\ \E o \in {"timeout", "error", "partial"}, s \in {"none", "incomplete"} :
       /\ o = "partial" => s = "incomplete"
       /\ answer' = [outcome |-> o, code |-> "request", sample |-> s]
  /\ UNCHANGED <<offset, records, cancelled, late, observing, closed, raising,
                 report, exit, interrupts, outside>>

\* The handler sets the event, which the adapter found set already.
AdapterCancelled ==
  /\ Go("inflight", "stop")
  /\ cancelled
  /\ cancelled' = TRUE
  /\ \E s \in {"none", "incomplete"} :
       answer' = [outcome |-> "cancelled", code |-> "request", sample |-> s]
  /\ UNCHANGED <<offset, records, late, observing, closed, raising, report,
                 exit, interrupts, outside>>

\* An exception that no handler of the loop is for.
AdapterRaises ==
  /\ ~AdapterConforms
  /\ Go("inflight", "stop")
  /\ raising' = "unexpected"
  /\ UNCHANGED <<offset, records, cancelled, late, observing, closed, answer,
                 report, exit, interrupts, outside>>

LeaveObserver(running) ==
  /\ Go("stop", IF raising = "none" THEN "record" ELSE "close")
  /\ observing' = running
  /\ UNCHANGED <<offset, records, cancelled, late, closed, answer, raising,
                 report, exit, interrupts, outside>>

\* Mutant: only a successful request stops the observer.
StopIfSuccess == LeaveObserver(observing /\ answer.outcome # "success")

\* The inner finally: with or without an exception on its way.
StopObserver == LeaveObserver(FALSE)

RecordRun ==
  /\ Go("record", "loop")
  /\ Acceptable(answer)
  /\ \E vram \in (IF Observed THEN BOOLEAN ELSE {FALSE}) :
       records' = Append(records, RecordOf(offset, answer, vram))
  /\ offset' = offset + 1
  /\ UNCHANGED <<cancelled, late, observing, closed, answer, raising, report,
                 exit, interrupts, outside>>

RecordRefused ==
  /\ Go("record", "close")
  /\ ~Acceptable(answer)
  /\ raising' = "validation"
  /\ UNCHANGED <<offset, records, cancelled, late, observing, closed, answer,
                 report, exit, interrupts, outside>>

LoopEnds ==
  /\ Go("loop", "close")
  /\ offset = Total
  /\ UNCHANGED <<offset, records, cancelled, late, observing, closed, answer,
                 raising, report, exit, interrupts, outside>>

LeaveTry(close) ==
  /\ Go("close", IF raising = "none" THEN "assemble" ELSE "raised")
  /\ closed' = close
  /\ UNCHANGED <<offset, records, cancelled, late, observing, answer, raising,
                 report, exit, interrupts, outside>>

\* Mutant: the adapter is not closed when an exception leaves the loop.
CloseIfSuccess == LeaveTry(raising = "none")

\* The outer finally.
CloseAdapter == LeaveTry(TRUE)
-----------------------------------------------------------------------------
(* The report and the exit code *)

Assemble ==
  /\ Go("assemble", "reported")
  /\ Consistent(records, ReportOf(records))
  /\ report' = ReportOf(records)
  /\ UNCHANGED <<offset, records, cancelled, late, observing, closed, answer,
                 raising, exit, interrupts, outside>>

\* The report's own validator refuses it: finished_at precedes started_at,
\* or it does not account for the workload.
AssembleRefused ==
  /\ Go("assemble", "raised")
  /\ \/ ClockStepsBack /\ raising' = "clock"
     \/ ~Consistent(records, ReportOf(records)) /\ raising' = "validation"
  /\ UNCHANGED <<offset, records, cancelled, late, observing, closed, answer,
                 report, exit, interrupts, outside>>

AnyCancelled == \E i \in DOMAIN records : records[i].outcome = "cancelled"

ExitReport ==
  /\ Go("reported", "exited")
  /\ exit' = IF AnyCancelled THEN 130 ELSE 0
  /\ UNCHANGED <<offset, records, cancelled, late, observing, closed, answer,
                 raising, report, interrupts, outside>>

ExitError ==
  /\ Go("raised", "exited")
  /\ exit' = CASE raising = "interrupt" -> 130
               [] raising \in {"adapter", "validation", "clock"} -> 2
               [] OTHER -> 1
  /\ UNCHANGED <<offset, records, cancelled, late, observing, closed, answer,
                 raising, report, interrupts, outside>>
-----------------------------------------------------------------------------
(* The rest of the process *)

\* Another thread sets the event run_benchmark was given.
Cancel ==
  /\ pc \in InLoop \cup {"identity"}
  /\ ~cancelled
  /\ cancelled' = TRUE
  /\ UNCHANGED <<pc, offset, records, late, observing, closed, answer, raising,
                 report, exit, interrupts, outside>>

CtrlC(here) ==
  /\ pc = here /\ here \in InterruptsAt
  /\ interrupts < MaxInterrupts
  /\ interrupts' = interrupts + 1

\* Ctrl-C during adapter.run(): what becomes of the event and of the request.
InterruptCall(event, outcome) ==
  /\ \E here \in {"call", "inflight"} : CtrlC(here)
  /\ pc' = "stop"
  /\ cancelled' = event
  /\ answer' = [outcome |-> outcome, code |-> "request", sample |-> "none"]
  /\ UNCHANGED <<offset, records, late, observing, closed, raising, report, exit, outside>>

\* Mutants: the event is not set; there is no handler.
InterruptForgotten == InterruptCall(cancelled, "cancelled")
InterruptUnhandled ==
  /\ \E here \in {"call", "inflight"} : CtrlC(here)
  /\ pc' = "stop" /\ raising' = "interrupt"
  /\ UNCHANGED <<offset, records, cancelled, late, observing, closed, answer, report, exit, outside>>

\* The handler around adapter.run() turns Ctrl-C into a cancellation.
InterruptRequest == InterruptCall(TRUE, "cancelled")

\* Anywhere else in the loop it leaves through the outer finally; start() and
\* stop() may or may not have taken effect.
InterruptLoop ==
  /\ \E here \in (InLoop \cup {"identity"}) \ {"inflight", "call"} : CtrlC(here)
  /\ pc' = "close"
  /\ raising' = "interrupt" /\ outside' = TRUE
  /\ observing' \in IF pc \in {"start", "stop"} THEN {observing, pc = "start"} ELSE {observing}
  /\ UNCHANGED <<offset, records, cancelled, late, closed, answer, report, exit>>

\* Outside the try block there is nothing left to run.
InterruptEnd ==
  /\ \E here \in {"close", "assemble"} : CtrlC(here)
  /\ pc' = "raised"
  /\ raising' = "interrupt" /\ outside' = TRUE
  /\ UNCHANGED <<offset, records, cancelled, late, observing, closed, answer, report, exit>>

Program ==
  \/ ModelIdentity \/ SkipCancelled \/ BeginRequest \/ StartObserver \/ CallAdapter
  \/ AdapterSucceeds \/ AdapterFails \/ AdapterCancelled \/ AdapterRaises
  \/ StopObserver \/ RecordRun \/ RecordRefused \/ LoopEnds \/ CloseAdapter
  \/ Assemble \/ AssembleRefused \/ ExitReport \/ ExitError

Environment == Cancel \/ InterruptRequest \/ InterruptLoop \/ InterruptEnd

Next == Program \/ Environment

Spec == Init /\ [][Next]_vars
-----------------------------------------------------------------------------
TypeOK ==
  /\ pc \in Places /\ offset \in 0..Total
  /\ records \in Seq(Record)
  /\ cancelled \in BOOLEAN /\ late \in Nat
  /\ observing \in BOOLEAN /\ closed \in BOOLEAN
  /\ answer \in Answer /\ raising \in Exception
  /\ exit \in {NoExit, 0, 1, 2, 130} /\ interrupts \in 0..MaxInterrupts
  /\ outside \in BOOLEAN

Ended == pc \in {"reported", "raised", "exited"}

CancelledSuffix ==
  \A i, j \in DOMAIN records :
    i < j /\ records[i].outcome = "cancelled" => records[j].code = "before_start"

\* A cancelled request is never followed by one that was made: what comes
\* after it was cancelled before its start (engine.py:103-113,135-143).  And
\* once the event is set the adapter is called at most once more, by the
\* request that had passed the check at the head of the loop (engine.py:103).
NothingAfterCancellation == CancelledSuffix /\ late <= 1

\* However run_benchmark ends, the adapter has been closed, and it ends with
\* either a report of every request or an exception (engine.py:88,161).
AdapterClosed == Ended => closed /\ (raising = "none" => Len(records) = Total)

\* The observer is stopped for every request it was started for, before the
\* next one and before the end (engine.py:120-121,148-149), unless Ctrl-C broke
\* into its start() or stop().
ObserverStopped == ~outside /\ (pc \in {"loop", "close"} \/ Ended) => ~observing

\* An interrupted command never exits as if it had succeeded, and keeps what it
\* had measured: it exits with 130 only with the report printed, if any request
\* had been completed (docs/benchmarks.md:43-44, cli.py:507-515) and each Ctrl-C
\* came during adapter.run() (engine.py:140-143).
InterruptsAreTold ==
  /\ interrupts > 0 => exit # 0
  /\ exit = 130 /\ records # <<>> /\ ~outside => report # NoReport

\* When every request has been made the report comes: its validator recounts
\* what the engine counted and agrees.  The wall clock set back or Ctrl-C after
\* the last request may still lose it (docs/benchmarks.md:36-39, engine.py:164-230).
RequestsReported ==
  pc = "exited" /\ Len(records) = Total /\ ~outside /\ raising # "clock" => report # NoReport

Phase ==
  CASE raising # "none" -> "failed"
    [] raising = "none" /\ pc \in {"reported", "exited"} -> "published"
    [] OTHER -> "open"

\* run_benchmark keeps the promise of BenchmarkAccounting: the account is the
\* outcomes of the records, and it is published when the report is returned.
Accounting == INSTANCE BenchmarkAccounting WITH
  account <- [i \in DOMAIN records |-> records[i].outcome], phase <- Phase

AccountingSpec == Accounting!Spec
=============================================================================
