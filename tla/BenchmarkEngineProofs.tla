------------------------ MODULE BenchmarkEngineProofs ------------------------
(***************************************************************************)
(* Proofs about BenchmarkEngine, for every workload, wherever Ctrl-C comes *)
(* and whatever the adapter and the clock do: cancellation is final, the   *)
(* adapter is closed and the observer stopped, a report of every request   *)
(* comes, and the engine implements BenchmarkAccounting.                   *)
(***************************************************************************)
EXTENDS BenchmarkEngine, FiniteSetTheorems, TLAPS

NoneCancelled == \A i \in DOMAIN records : records[i].outcome # "cancelled"

\* Places between the check of the event and the record of the request.
Making == {"start", "call", "inflight", "stop", "record"}

\* The loop variable counts the records, and a loop that was not left early
\* has one for each request.
Progress ==
  /\ Len(records) = offset
  /\ pc \in Making => offset < Total
  /\ raising = "none" /\ pc \in {"close", "assemble", "reported", "exited"} => offset = Total
  /\ pc = "raised" => raising # "none"
  /\ pc \in InLoop \cup {"identity", "assemble", "reported"} /\ pc # "stop" => raising = "none"

\* The event and the records agree on whether the benchmark was cancelled.
Cancellation ==
  /\ ~cancelled => NoneCancelled
  /\ pc \in Making => NoneCancelled
  /\ pc \in {"start", "call", "inflight"} => answer.outcome # "cancelled"
  /\ pc \in {"stop", "record"} /\ answer.outcome = "cancelled" => cancelled
  /\ CancelledSuffix

\* A call after the event was set comes from a request begun before.
Lateness ==
  /\ late \in {0, 1}
  /\ ~cancelled => late = 0
  /\ pc \in {"start", "call"} => late = 0

IInv == TypeOK /\ Progress /\ Cancellation /\ Lateness
-----------------------------------------------------------------------------
LEMMA RecordType ==
  ASSUME NEW i \in 0..Total, i < Total, NEW a \in Answer, NEW v \in BOOLEAN
  PROVE  RecordOf(i, a, v) \in Record
<1>1. i + 1 \in 1..Total BY WorkloadAssumption DEF Total
<1>2. i % Prompts \in 0..Prompts-1 BY WorkloadAssumption
<1>3. (i < Warmup) \in BOOLEAN BY WorkloadAssumption
<1> QED BY <1>1, <1>2, <1>3 DEF RecordOf, Record, IsWarmup, PromptOf, Answer

LEMMA TypeInit == Init => TypeOK
<1> SUFFICES ASSUME Init PROVE TypeOK
  OBVIOUS
<1>1. 0 \in 0..Total BY WorkloadAssumption DEF Total
<1>2. 0 \in 0..MaxInterrupts BY EnvironmentAssumption
<1>3. answer \in Answer BY DEF Init, Answer, Unanswered, Outcome, Code, Sample
<1>4. records \in Seq(Record) BY DEF Init
<1> QED BY <1>1, <1>2, <1>3, <1>4 DEF Init, TypeOK, Places, InLoop, Exception, NoExit

LEMMA TypeStep == TypeOK /\ Progress /\ [Next]_vars => TypeOK'
<1> SUFFICES ASSUME TypeOK, Progress, [Next]_vars PROVE TypeOK'
  OBVIOUS
<1>0. Total \in Nat BY WorkloadAssumption DEF Total
<1> USE <1>0, EnvironmentAssumption DEF TypeOK, Go, CtrlC, Places, InLoop, Exception, NoExit
<1>1. CASE ModelIdentity BY <1>1 DEF ModelIdentity
<1>2. CASE SkipCancelled
  <2> DEFINE skipped == [outcome |-> "cancelled", code |-> "before_start", sample |-> "none"]
  <2>1. skipped \in Answer BY DEF Answer, Outcome, Code, Sample
  <2>2. RecordOf(offset, skipped, FALSE) \in Record BY <1>2, <2>1, RecordType DEF SkipCancelled
  <2>3. offset + 1 \in 0..Total BY <1>2 DEF SkipCancelled
  <2>4. records' = Append(records, RecordOf(offset, skipped, FALSE)) BY <1>2 DEF SkipCancelled
  <2>5. PICK r \in Record : records' = Append(records, r) BY <2>2, <2>4
  <2>6. records' \in Seq(Record) BY <2>5
  <2> QED BY <1>2, <2>3, <2>6 DEF SkipCancelled
<1>3. CASE BeginRequest
  BY <1>3 DEF BeginRequest, BeginUnless, Answer, Unanswered, Outcome, Code, Sample
<1>4. CASE StartObserver BY <1>4 DEF StartObserver
<1>5. CASE CallAdapter BY <1>5 DEF CallAdapter, Answer, Outcome, Code, Sample
<1>6. CASE AdapterSucceeds BY <1>6 DEF AdapterSucceeds, Answer, Outcome, Code, Sample
<1>7. CASE AdapterFails BY <1>7 DEF AdapterFails, Answer, Outcome, Code, Sample
<1>8. CASE AdapterCancelled BY <1>8 DEF AdapterCancelled, Answer, Outcome, Code, Sample
<1>9. CASE AdapterRaises BY <1>9 DEF AdapterRaises
<1>10. CASE StopObserver BY <1>10 DEF StopObserver, LeaveObserver
<1>11. CASE RecordRun
  <2>1. offset < Total /\ offset + 1 \in 0..Total BY <1>11 DEF RecordRun, Progress, Making
  <2>2. PICK vram \in BOOLEAN : records' = Append(records, RecordOf(offset, answer, vram))
    BY <1>11 DEF RecordRun
  <2>3. RecordOf(offset, answer, vram) \in Record BY <2>1, RecordType
  <2>4. records' \in Seq(Record) BY <2>2, <2>3
  <2> QED BY <1>11, <2>1, <2>4 DEF RecordRun
<1>12. CASE RecordRefused BY <1>12 DEF RecordRefused
<1>13. CASE LoopEnds BY <1>13 DEF LoopEnds
<1>14. CASE CloseAdapter BY <1>14 DEF CloseAdapter, LeaveTry
<1>15. CASE Assemble BY <1>15 DEF Assemble
<1>16. CASE AssembleRefused BY <1>16 DEF AssembleRefused
<1>17. CASE ExitReport BY <1>17 DEF ExitReport
<1>18. CASE ExitError
  <2>1. exit' \in {130, 2, 1} BY <1>18 DEF ExitError
  <2> QED BY <1>18, <2>1 DEF ExitError
<1>19. CASE Cancel BY <1>19 DEF Cancel
<1>20. CASE InterruptRequest BY <1>20 DEF InterruptRequest, InterruptCall, Answer, Outcome, Code, Sample
<1>21. CASE InterruptLoop
  <2>1. observing' \in {observing, TRUE, FALSE} BY <1>21, Zenon DEF InterruptLoop
  <2>2. observing' \in BOOLEAN BY <2>1
  <2> QED BY <1>21, <2>2 DEF InterruptLoop
<1>22. CASE InterruptEnd BY <1>22 DEF InterruptEnd
<1>23. CASE UNCHANGED vars BY <1>23 DEF vars
<1> QED BY <1>1, <1>2, <1>3, <1>4, <1>5, <1>6, <1>7, <1>8, <1>9, <1>10, <1>11, <1>12,
           <1>13, <1>14, <1>15, <1>16, <1>17, <1>18, <1>19, <1>20, <1>21, <1>22, <1>23
        DEF Next, Program, Environment
-----------------------------------------------------------------------------
LEMMA SafetyInit == Init => IInv
BY TypeInit, WorkloadAssumption
   DEF Init, IInv, Progress, Cancellation, Lateness, NoneCancelled, CancelledSuffix, InLoop, Making

\* Appending a record leaves the earlier ones where they were.
LEMMA AppendRecord ==
  ASSUME NEW s \in Seq(Record), NEW r \in Record
  PROVE  /\ DOMAIN s = 1..Len(s)
         /\ DOMAIN Append(s, r) = 1..(Len(s) + 1)
         /\ Len(Append(s, r)) = Len(s) + 1
         /\ \A i \in 1..Len(s) : Append(s, r)[i] = s[i]
         /\ Append(s, r)[Len(s) + 1] = r
OBVIOUS

LEMMA ProgressStep == TypeOK /\ Progress /\ [Next]_vars => Progress'
<1> SUFFICES ASSUME TypeOK, Progress, [Next]_vars PROVE Progress'
  OBVIOUS
<1>0. Total \in Nat BY WorkloadAssumption DEF Total
<1> USE <1>0 DEF TypeOK, Progress, Go, CtrlC, InLoop, Making
<1>1. CASE SkipCancelled
  <2>1. Len(records') = Len(records) + 1 BY <1>1 DEF SkipCancelled
  <2> QED BY <1>1, <2>1 DEF SkipCancelled
<1>2. CASE RecordRun
  <2>1. Len(records') = Len(records) + 1 BY <1>2 DEF RecordRun
  <2> QED BY <1>2, <2>1 DEF RecordRun
<1>3. CASE ModelIdentity BY <1>3 DEF ModelIdentity
<1>4. CASE BeginRequest BY <1>4 DEF BeginRequest, BeginUnless
<1>5. CASE StartObserver BY <1>5 DEF StartObserver
<1>6. CASE CallAdapter BY <1>6 DEF CallAdapter
<1>7. CASE AdapterSucceeds BY <1>7 DEF AdapterSucceeds
<1>8. CASE AdapterFails BY <1>8 DEF AdapterFails
<1>9. CASE AdapterCancelled BY <1>9 DEF AdapterCancelled
<1>10. CASE AdapterRaises BY <1>10 DEF AdapterRaises
<1>11. CASE StopObserver BY <1>11 DEF StopObserver, LeaveObserver
<1>12. CASE RecordRefused BY <1>12 DEF RecordRefused
<1>13. CASE LoopEnds BY <1>13 DEF LoopEnds
<1>14. CASE CloseAdapter BY <1>14 DEF CloseAdapter, LeaveTry
<1>15. CASE Assemble BY <1>15 DEF Assemble
<1>16. CASE AssembleRefused BY <1>16 DEF AssembleRefused
<1>17. CASE ExitReport BY <1>17 DEF ExitReport
<1>18. CASE ExitError BY <1>18 DEF ExitError
<1>19. CASE Cancel BY <1>19 DEF Cancel
<1>20. CASE InterruptRequest BY <1>20 DEF InterruptRequest, InterruptCall
<1>21. CASE InterruptLoop BY <1>21 DEF InterruptLoop
<1>22. CASE InterruptEnd BY <1>22 DEF InterruptEnd
<1>23. CASE UNCHANGED vars BY <1>23 DEF vars
<1> QED BY <1>1, <1>2, <1>3, <1>4, <1>5, <1>6, <1>7, <1>8, <1>9, <1>10, <1>11, <1>12, <1>13, <1>14, <1>15, <1>16, <1>17, <1>18, <1>19, <1>20, <1>21, <1>22, <1>23
        DEF Next, Program, Environment

LEMMA CancellationStep == TypeOK /\ Progress /\ Cancellation /\ [Next]_vars => Cancellation'
<1> SUFFICES ASSUME TypeOK, Progress, Cancellation, [Next]_vars PROVE Cancellation'
  OBVIOUS
<1>0. Total \in Nat BY WorkloadAssumption DEF Total
<1> USE <1>0 DEF Cancellation, NoneCancelled, CancelledSuffix, Go, CtrlC, InLoop, Making
<1>1. CASE SkipCancelled
  <2>1. PICK r : records' = Append(records, r) /\ r.code = "before_start" /\ r.outcome = "cancelled"
    BY <1>1 DEF SkipCancelled, RecordOf
  <2>2. /\ DOMAIN records = 1..Len(records) /\ DOMAIN records' = 1..(Len(records) + 1)
        /\ \A i \in 1..Len(records) : records'[i] = records[i]
        /\ records'[Len(records) + 1] = r
    BY <2>1 DEF TypeOK
  <2>3. CancelledSuffix' BY <2>1, <2>2 DEF TypeOK
  <2> QED BY <1>1, <2>3 DEF SkipCancelled
<1>2. CASE RecordRun
  <2>1. PICK r : records' = Append(records, r) /\ r.outcome = answer.outcome
    BY <1>2 DEF RecordRun, RecordOf
  <2>2. /\ DOMAIN records = 1..Len(records) /\ DOMAIN records' = 1..(Len(records) + 1)
        /\ \A i \in 1..Len(records) : records'[i] = records[i]
        /\ records'[Len(records) + 1] = r
    BY <2>1 DEF TypeOK
  <2>3. NoneCancelled BY <1>2 DEF RecordRun
  <2>4. CancelledSuffix' BY <2>2, <2>3 DEF TypeOK
  <2>5. ~cancelled => NoneCancelled' BY <1>2, <2>1, <2>2, <2>3 DEF RecordRun
  <2> QED BY <1>2, <2>4, <2>5 DEF RecordRun
<1>3. CASE ModelIdentity BY <1>3 DEF ModelIdentity
<1>4. CASE BeginRequest BY <1>4 DEF BeginRequest, BeginUnless, Unanswered
<1>5. CASE StartObserver BY <1>5 DEF StartObserver
<1>6. CASE CallAdapter BY <1>6 DEF CallAdapter
<1>7. CASE AdapterSucceeds BY <1>7 DEF AdapterSucceeds
<1>8. CASE AdapterFails BY <1>8 DEF AdapterFails
<1>9. CASE AdapterCancelled BY <1>9 DEF AdapterCancelled
<1>10. CASE AdapterRaises BY <1>10 DEF AdapterRaises
<1>11. CASE StopObserver BY <1>11 DEF StopObserver, LeaveObserver
<1>12. CASE RecordRefused BY <1>12 DEF RecordRefused
<1>13. CASE LoopEnds BY <1>13 DEF LoopEnds
<1>14. CASE CloseAdapter BY <1>14 DEF CloseAdapter, LeaveTry
<1>15. CASE Assemble BY <1>15 DEF Assemble
<1>16. CASE AssembleRefused BY <1>16 DEF AssembleRefused
<1>17. CASE ExitReport BY <1>17 DEF ExitReport
<1>18. CASE ExitError BY <1>18 DEF ExitError
<1>19. CASE Cancel BY <1>19 DEF Cancel
<1>20. CASE InterruptRequest BY <1>20 DEF InterruptRequest, InterruptCall
<1>21. CASE InterruptLoop BY <1>21 DEF InterruptLoop
<1>22. CASE InterruptEnd BY <1>22 DEF InterruptEnd
<1>23. CASE UNCHANGED vars BY <1>23 DEF vars
<1> QED BY <1>1, <1>2, <1>3, <1>4, <1>5, <1>6, <1>7, <1>8, <1>9, <1>10, <1>11, <1>12, <1>13, <1>14, <1>15, <1>16, <1>17, <1>18, <1>19, <1>20, <1>21, <1>22, <1>23
        DEF Next, Program, Environment

LEMMA LatenessStep == TypeOK /\ Lateness /\ [Next]_vars => Lateness'
<1> SUFFICES ASSUME TypeOK, Lateness, [Next]_vars PROVE Lateness'
  OBVIOUS
<1>0. Total \in Nat BY WorkloadAssumption DEF Total
<1> USE <1>0 DEF Lateness, Go, CtrlC, InLoop
<1>1. CASE SkipCancelled BY <1>1 DEF SkipCancelled
<1>2. CASE RecordRun BY <1>2 DEF RecordRun
<1>3. CASE ModelIdentity BY <1>3 DEF ModelIdentity
<1>4. CASE BeginRequest BY <1>4 DEF BeginRequest, BeginUnless
<1>5. CASE StartObserver BY <1>5 DEF StartObserver
<1>6. CASE CallAdapter BY <1>6 DEF CallAdapter
<1>7. CASE AdapterSucceeds BY <1>7 DEF AdapterSucceeds
<1>8. CASE AdapterFails BY <1>8 DEF AdapterFails
<1>9. CASE AdapterCancelled BY <1>9 DEF AdapterCancelled
<1>10. CASE AdapterRaises BY <1>10 DEF AdapterRaises
<1>11. CASE StopObserver BY <1>11 DEF StopObserver, LeaveObserver
<1>12. CASE RecordRefused BY <1>12 DEF RecordRefused
<1>13. CASE LoopEnds BY <1>13 DEF LoopEnds
<1>14. CASE CloseAdapter BY <1>14 DEF CloseAdapter, LeaveTry
<1>15. CASE Assemble BY <1>15 DEF Assemble
<1>16. CASE AssembleRefused BY <1>16 DEF AssembleRefused
<1>17. CASE ExitReport BY <1>17 DEF ExitReport
<1>18. CASE ExitError BY <1>18 DEF ExitError
<1>19. CASE Cancel BY <1>19 DEF Cancel
<1>20. CASE InterruptRequest BY <1>20 DEF InterruptRequest, InterruptCall
<1>21. CASE InterruptLoop BY <1>21 DEF InterruptLoop
<1>22. CASE InterruptEnd BY <1>22 DEF InterruptEnd
<1>23. CASE UNCHANGED vars BY <1>23 DEF vars
<1> QED BY <1>1, <1>2, <1>3, <1>4, <1>5, <1>6, <1>7, <1>8, <1>9, <1>10, <1>11, <1>12, <1>13, <1>14, <1>15, <1>16, <1>17, <1>18, <1>19, <1>20, <1>21, <1>22, <1>23
        DEF Next, Program, Environment

LEMMA SafetyStep == IInv /\ [Next]_vars => IInv'
BY TypeStep, ProgressStep, CancellationStep, LatenessStep DEF IInv

\* Every variable keeps its type (engine.py:92-97).
THEOREM TypeCorrect == Spec => []TypeOK
<1>1. Init => IInv BY SafetyInit
<1>2. IInv /\ [Next]_vars => IInv' BY SafetyStep
<1>3. IInv => TypeOK BY DEF IInv
<1>4. QED BY <1>1, <1>2, <1>3, PTL DEF Spec

\* Cancellation is final: no request made is recorded after a cancelled one,
\* and the adapter is called at most once after the event is set
\* (engine.py:103-113,135-143).
THEOREM CancellationIsFinal == Spec => []NothingAfterCancellation
<1>1. Init => IInv BY SafetyInit
<1>2. IInv /\ [Next]_vars => IInv' BY SafetyStep
<1>3. IInv => NothingAfterCancellation
  BY DEF IInv, Cancellation, Lateness, NothingAfterCancellation
<1>4. QED BY <1>1, <1>2, <1>3, PTL DEF Spec
-----------------------------------------------------------------------------
\* Behind the outer finally the adapter is closed.
Closing == pc \in {"assemble", "reported", "raised", "exited"} => closed

LEMMA ClosingStep ==
  ASSUME "close" \notin InterruptsAt
  PROVE  Closing /\ [Next]_vars => Closing'
BY DEF Closing, Next, Program, Environment, vars, Go, CtrlC, InLoop, ModelIdentity, SkipCancelled,
   BeginRequest, BeginUnless, StartObserver, CallAdapter, AdapterSucceeds, AdapterFails, AdapterCancelled,
   AdapterRaises, StopObserver, LeaveObserver, RecordRun, RecordRefused, LoopEnds, CloseAdapter, LeaveTry, Assemble,
   AssembleRefused, ExitReport, ExitError, Cancel, InterruptRequest, InterruptCall, InterruptLoop, InterruptEnd

\* Whatever ends run_benchmark, the adapter has been closed and what it did
\* not raise an exception about is complete, unless Ctrl-C hits the very
\* statement that closes it (engine.py:88,98,161-162).
THEOREM AdapterIsClosed ==
  "close" \notin InterruptsAt => (Spec => []AdapterClosed)
<1> SUFFICES ASSUME "close" \notin InterruptsAt PROVE Spec => []AdapterClosed
  OBVIOUS
<1>1. Init => IInv /\ Closing BY SafetyInit DEF Init, Closing
<1>2. (IInv /\ Closing) /\ [Next]_vars => (IInv /\ Closing)' BY SafetyStep, ClosingStep
<1>3. IInv /\ Closing => AdapterClosed
  BY DEF IInv, Closing, Progress, AdapterClosed, Ended
<1>4. QED BY <1>1, <1>2, <1>3, PTL DEF Spec
-----------------------------------------------------------------------------
Account == [i \in DOMAIN records |-> records[i].outcome]

\* A record appended is an outcome appended to the account.
LEMMA AppendAccount ==
  ASSUME TypeOK, NEW r \in Record, records' = Append(records, r)
  PROVE  /\ Account' = Append(Account, r.outcome)
         /\ Account \in Seq(Outcome) /\ Len(Account) = Len(records)
<1>1. DOMAIN records = 1..Len(records) /\ Len(records) \in Nat BY DEF TypeOK
<1>2. Account \in Seq(Outcome) /\ Len(Account) = Len(records)
  <2>1. \A i \in 1..Len(records) : records[i].outcome \in Outcome
    <3>1. records \in Seq(Record) BY DEF TypeOK
    <3>2. \A i \in 1..Len(records) : records[i] \in Record BY <3>1
    <3>3. \A r1 \in Record : r1.outcome \in Outcome BY DEF Record
    <3> QED BY <3>2, <3>3
  <2>2. Account \in [1..Len(records) -> Outcome] BY <1>1, <2>1 DEF Account
  <2> QED BY <1>1, <2>2
<1>3. DOMAIN records' = 1..(Len(records) + 1) BY <1>1 DEF TypeOK
<1>4. Append(Account, r.outcome) = [i \in 1..(Len(records) + 1) |->
        IF i = Len(records) + 1 THEN r.outcome ELSE Account[i]]
  BY <1>2
<1>5. \A i \in 1..(Len(records) + 1) :
        records'[i] = IF i = Len(records) + 1 THEN r ELSE records[i]
  BY DEF TypeOK
<1> QED BY <1>1, <1>2, <1>3, <1>4, <1>5 DEF Account

\* Recording a request is the abstract classification of it.
LEMMA ClassifyStep ==
  ASSUME IInv, TypeOK', SkipCancelled \/ RecordRun
  PROVE  \E o \in Outcome : Accounting!Classify(o)
<1>1. offset < Total /\ Len(records) = offset /\ raising = "none" /\ raising' = "none"
  BY DEF IInv, Progress, SkipCancelled, RecordRun, Go, InLoop, Making
<1>2. PICK r : /\ records' = Append(records, r)
               /\ ~NoneCancelled => r.outcome = "cancelled"
  <2>1. CASE SkipCancelled BY <2>1 DEF SkipCancelled, RecordOf
  <2>2. CASE RecordRun BY <2>2 DEF RecordRun, Go, IInv, Cancellation, Making
  <2> QED BY <2>1, <2>2
<1>3. r \in Record
  <2>1. Len(records) + 1 \in DOMAIN records' /\ records'[Len(records) + 1] = r
    BY <1>2 DEF IInv, TypeOK
  <2> QED BY <2>1 DEF TypeOK
<1>4. /\ Account' = Append(Account, r.outcome)
      /\ Account \in Seq(Outcome) /\ Len(Account) = Len(records)
  BY <1>2, <1>3, AppendAccount DEF IInv
<1>5. Phase = "open" /\ Phase' = "open"
  BY <1>1 DEF Phase, SkipCancelled, RecordRun, Go
<1>6. (\E i \in DOMAIN Account : Account[i] = "cancelled") => r.outcome = "cancelled"
  BY <1>2 DEF Account, NoneCancelled
<1>7. r.outcome \in Outcome BY <1>3 DEF Record
<1>8. Accounting!Classify(r.outcome)
  BY <1>1, <1>4, <1>5, <1>6 DEF Accounting!Classify, Accounting!HasCancelled, Account
<1> QED BY <1>7, <1>8

\* The other steps leave the account alone, and publish it at most when it is
\* complete.
LEMMA QuietStep ==
  ASSUME IInv, IInv', UNCHANGED records
  PROVE  [Next]_vars => [Accounting!Next]_<<Account, Phase>>
<1> SUFFICES ASSUME [Next]_vars PROVE [Accounting!Next]_<<Account, Phase>>
  OBVIOUS
<1>1. Account' = Account BY DEF Account
<1>2. Len(Account) = Len(records) BY DEF Account, IInv, TypeOK
<1>3. CASE Assemble
  <2>1. Phase = "open" /\ Phase' = "published" BY <1>3 DEF Assemble, Go, Phase, IInv, Progress
  <2>2. Len(Account) = Total BY <1>2, <1>3 DEF Assemble, Consistent
  <2> QED BY <1>1, <2>1, <2>2 DEF Accounting!Publish, Accounting!Next, Account
<1>4. CASE raising = "none" /\ raising' # "none"
  <2>1. Phase = "open" /\ Phase' = "failed"
    BY <1>4 DEF Phase, Next, Program, Environment, vars, Go, CtrlC, InLoop, ModelIdentity,
       SkipCancelled, BeginRequest, BeginUnless, StartObserver, CallAdapter, AdapterSucceeds, AdapterFails,
       AdapterCancelled, AdapterRaises, StopObserver, LeaveObserver, RecordRun, RecordRefused, LoopEnds,
       CloseAdapter, LeaveTry, Assemble, AssembleRefused, ExitReport, ExitError, Cancel,
       InterruptRequest, InterruptCall, InterruptLoop, InterruptEnd
  <2> QED BY <1>1, <2>1 DEF Accounting!GiveUp, Accounting!Next, Account
<1>5. CASE ~Assemble /\ ~(raising = "none" /\ raising' # "none")
  <2>1. Phase' = Phase
    BY <1>5 DEF IInv, Progress, Phase, Next, Program, Environment, vars, Go, CtrlC, InLoop, ModelIdentity,
       SkipCancelled, BeginRequest, BeginUnless, StartObserver, CallAdapter, AdapterSucceeds, AdapterFails,
       AdapterCancelled, AdapterRaises, StopObserver, LeaveObserver, RecordRun, RecordRefused, LoopEnds,
       CloseAdapter, LeaveTry, Assemble, AssembleRefused, ExitReport, ExitError, Cancel,
       InterruptRequest, InterruptCall, InterruptLoop, InterruptEnd
  <2> QED BY <1>1, <2>1
<1> QED BY <1>3, <1>4, <1>5

\* The engine implements BenchmarkAccounting: what it returns, if it returns,
\* is the outcome of every configured request, cancelled ones at the end
\* (engine.py:77-230).
THEOREM EngineImplementsAccounting == Spec => AccountingSpec
<1>1. Init => IInv /\ Accounting!Init
  <2>1. Init => IInv BY SafetyInit
  <2>2. ASSUME Init PROVE Account = <<>> /\ Phase = "open" BY <2>2 DEF Init, Account, Phase
  <2> QED BY <2>1, <2>2 DEF Accounting!Init, Account
<1>2. IInv /\ [Next]_vars => IInv' BY SafetyStep
<1>3. IInv /\ IInv' /\ [Next]_vars => [Accounting!Next]_<<Account, Phase>>
  <2> SUFFICES ASSUME IInv, IInv', [Next]_vars PROVE [Accounting!Next]_<<Account, Phase>>
    OBVIOUS
  <2>1. CASE SkipCancelled \/ RecordRun
    BY <2>1, ClassifyStep DEF IInv, Accounting!Next, Accounting!Outcome, Outcome
  <2>2. CASE ~(SkipCancelled \/ RecordRun)
    <3>1. UNCHANGED records
      BY <2>2 DEF Next, Program, Environment, vars, ModelIdentity, BeginRequest, BeginUnless, StartObserver,
         CallAdapter, AdapterSucceeds, AdapterFails, AdapterCancelled, AdapterRaises,
         StopObserver, LeaveObserver, RecordRefused, LoopEnds, CloseAdapter, LeaveTry, Assemble, AssembleRefused,
         ExitReport, ExitError, Cancel, InterruptRequest, InterruptCall, InterruptLoop, InterruptEnd
    <3> QED BY <3>1, QuietStep
  <2> QED BY <2>1, <2>2
<1>4. QED BY <1>1, <1>2, <1>3, PTL DEF Spec, AccountingSpec, Accounting!Spec, Account
-----------------------------------------------------------------------------
(* The observer, and what the command leaves *)

\* The observer runs while its request does.
Watching == ~outside /\ observing => pc \in {"call", "inflight", "stop"}

\* Records are numbered and divided as the report's validator recounts them.
Ordered ==
  \A i \in DOMAIN records : records[i].sequence = i /\ records[i].warmup = (i - 1 < Warmup)

\* Which exceptions leave the loop before it has made every request.
Raised ==
  /\ outside <=> raising = "interrupt"
  /\ raising \in {"adapter", "validation", "unexpected"} => offset < Total
  /\ pc = "identity" => offset = 0

\* An interrupt of the adapter is on its way to a record, or in one.
Told ==
  interrupts > 0 =>
    \/ raising # "none"
    \/ ~NoneCancelled
    \/ pc \in {"stop", "record"} /\ answer.outcome = "cancelled"

\* The exit code follows from what was raised and what was recorded.
Exits ==
  /\ pc # "exited" => exit = NoExit
  /\ pc \in {"reported", "exited"} /\ raising = "none" => report # NoReport
  /\ exit = 0 => raising = "none" /\ NoneCancelled
  /\ exit = 130 => raising \in {"none", "interrupt"}

LEMMA WatchingStep == Progress /\ Watching /\ [Next]_vars => Watching'
<1> SUFFICES ASSUME Progress, Watching, [Next]_vars PROVE Watching'
  OBVIOUS
<1> USE DEF Watching, Progress, Go, CtrlC, InLoop, Making
<1>1. CASE ModelIdentity BY <1>1 DEF ModelIdentity
<1>2. CASE SkipCancelled BY <1>2 DEF SkipCancelled
<1>3. CASE BeginRequest BY <1>3 DEF BeginRequest, BeginUnless
<1>4. CASE StartObserver BY <1>4 DEF StartObserver
<1>5. CASE CallAdapter BY <1>5 DEF CallAdapter
<1>6. CASE AdapterSucceeds BY <1>6 DEF AdapterSucceeds
<1>7. CASE AdapterFails BY <1>7 DEF AdapterFails
<1>8. CASE AdapterCancelled BY <1>8 DEF AdapterCancelled
<1>9. CASE AdapterRaises BY <1>9 DEF AdapterRaises
<1>10. CASE StopObserver BY <1>10 DEF StopObserver, LeaveObserver
<1>11. CASE RecordRun BY <1>11 DEF RecordRun
<1>12. CASE RecordRefused BY <1>12 DEF RecordRefused
<1>13. CASE LoopEnds BY <1>13 DEF LoopEnds
<1>14. CASE CloseAdapter BY <1>14 DEF CloseAdapter, LeaveTry
<1>15. CASE Assemble BY <1>15 DEF Assemble
<1>16. CASE AssembleRefused BY <1>16 DEF AssembleRefused
<1>17. CASE ExitReport BY <1>17 DEF ExitReport
<1>18. CASE ExitError BY <1>18 DEF ExitError
<1>19. CASE Cancel BY <1>19 DEF Cancel
<1>20. CASE InterruptRequest BY <1>20 DEF InterruptRequest, InterruptCall
<1>21. CASE InterruptLoop BY <1>21 DEF InterruptLoop
<1>22. CASE InterruptEnd BY <1>22 DEF InterruptEnd
<1>23. CASE UNCHANGED vars BY <1>23 DEF vars
<1> QED BY <1>1, <1>2, <1>3, <1>4, <1>5, <1>6, <1>7, <1>8, <1>9, <1>10, <1>11, <1>12,
           <1>13, <1>14, <1>15, <1>16, <1>17, <1>18, <1>19, <1>20, <1>21, <1>22, <1>23
        DEF Next, Program, Environment

\* The observer is stopped after every request it was started for, unless
\* Ctrl-C broke into its start() or stop() (engine.py:120-121,148-149).
THEOREM ObserverIsStopped == Spec => []ObserverStopped
<1>1. Init => IInv /\ Watching BY SafetyInit DEF Init, Watching
<1>2. (IInv /\ Watching) /\ [Next]_vars => (IInv /\ Watching)'
  BY SafetyStep, WatchingStep DEF IInv
<1>3. Watching => ObserverStopped BY DEF Watching, ObserverStopped, Ended
<1>4. QED BY <1>1, <1>2, <1>3, PTL DEF Spec

LEMMA OrderedStep == TypeOK /\ Progress /\ Ordered /\ [Next]_vars => Ordered'
<1> SUFFICES ASSUME TypeOK, Progress, Ordered, [Next]_vars PROVE Ordered'
  OBVIOUS
<1>0. ASSUME NEW a \in Answer, NEW v \in BOOLEAN, offset < Total,
             records' = Append(records, RecordOf(offset, a, v))
      PROVE  Ordered'
  <2> DEFINE r == RecordOf(offset, a, v)
  <2>1. r.sequence = Len(records) + 1 /\ r.warmup = (Len(records) < Warmup)
    BY DEF RecordOf, IsWarmup, Progress
  <2>2. r \in Record BY <1>0, RecordType DEF TypeOK
  <2>3. /\ DOMAIN records = 1..Len(records) /\ DOMAIN records' = 1..(Len(records) + 1)
        /\ \A i \in 1..Len(records) : records'[i] = records[i]
        /\ records'[Len(records) + 1] = r
        /\ Len(records) \in Nat
    <3> HIDE DEF r
    <3> QED BY <1>0, <2>2 DEF TypeOK, r
  <2> HIDE DEF r
  <2>4. ASSUME NEW i \in 1..(Len(records) + 1)
        PROVE  records'[i].sequence = i /\ records'[i].warmup = (i - 1 < Warmup)
    <3>1. CASE i \in 1..Len(records) BY <3>1, <2>3 DEF Ordered
    <3>2. CASE i = Len(records) + 1
      <4>1. i - 1 = Len(records) BY <3>2, <2>3
      <4> QED BY <3>2, <4>1, <2>1, <2>3
    <3> QED BY <3>1, <3>2, <2>3
  <2> QED BY <2>3, <2>4 DEF Ordered
<1>1. CASE SkipCancelled \/ RecordRun
  <2>1. [outcome |-> "cancelled", code |-> "before_start", sample |-> "none"] \in Answer
    BY DEF Answer, Outcome, Code, Sample
  <2>2. offset < Total BY <1>1 DEF SkipCancelled, RecordRun, Go, Progress, Making
  <2>3. \E a \in Answer, v \in BOOLEAN : records' = Append(records, RecordOf(offset, a, v))
    <3>1. CASE SkipCancelled BY <3>1, <2>1 DEF SkipCancelled
    <3>2. CASE RecordRun
      <4>1. answer \in Answer BY DEF TypeOK
      <4>2. PICK v \in (IF Observed THEN BOOLEAN ELSE {FALSE}) :
              records' = Append(records, RecordOf(offset, answer, v))
        BY <3>2 DEF RecordRun
      <4> QED BY <4>1, <4>2
    <3> QED BY <1>1, <3>1, <3>2
  <2> QED BY <1>0, <2>2, <2>3
<1>2. CASE ~(SkipCancelled \/ RecordRun)
  <2>1. UNCHANGED records
    BY <1>2 DEF Next, Program, Environment, vars, ModelIdentity, BeginRequest, BeginUnless, StartObserver,
       CallAdapter, AdapterSucceeds, AdapterFails, AdapterCancelled, AdapterRaises,
       StopObserver, LeaveObserver, RecordRefused, LoopEnds, CloseAdapter, LeaveTry, Assemble, AssembleRefused,
       ExitReport, ExitError, Cancel, InterruptRequest, InterruptCall, InterruptLoop, InterruptEnd
  <2> QED BY <2>1 DEF Ordered
<1> QED BY <1>1, <1>2

\* A finite set that is divided in two has as many elements as the parts.
LEMMA TwoParts ==
  ASSUME NEW S, IsFiniteSet(S), NEW A, NEW B, A \cup B = S, A \cap B = {}
  PROVE  /\ IsFiniteSet(A) /\ IsFiniteSet(B)
         /\ Cardinality(A) \in Nat /\ Cardinality(B) \in Nat
         /\ Cardinality(S) = Cardinality(A) + Cardinality(B)
<1>1. IsFiniteSet(A) /\ IsFiniteSet(B)
  <2>1. A \in SUBSET S /\ B \in SUBSET S OBVIOUS
  <2> QED BY <2>1, FS_Subset
<1>2. Cardinality(A) \in Nat /\ Cardinality(B) \in Nat BY <1>1, FS_CardinalityType
<1>3. Cardinality(A \cap B) = 0 BY FS_EmptySet
<1>4. Cardinality(A \cup B) = Cardinality(A) + Cardinality(B) - Cardinality(A \cap B) BY <1>1, FS_Union
<1>5. Cardinality(S) = Cardinality(A \cup B) BY Zenon
<1> QED BY <1>1, <1>2, <1>3, <1>4, <1>5

\* The five outcomes divide the measured records.
LEMMA OutcomesAddUp ==
  ASSUME TypeOK, IsFiniteSet(MeasuredOf(records))
  PROVE  /\ \A o \in Outcome : CountOf(records, o) \in Nat
         /\ Cardinality(MeasuredOf(records)) =
              CountOf(records, "success") + CountOf(records, "timeout") + CountOf(records, "error")
                + CountOf(records, "cancelled") + CountOf(records, "partial")
<1> DEFINE M == MeasuredOf(records)
           With(o) == {i \in M : records[i].outcome = o}
           After(S) == {i \in M : records[i].outcome \notin S}
<1>1. \A i \in M : records[i].outcome \in Outcome
  <2>1. \A i \in DOMAIN records : records[i] \in Record BY DEF TypeOK
  <2> QED BY <2>1 DEF MeasuredOf, Record
<1>2. \A o \in Outcome : IsFiniteSet(With(o)) /\ Cardinality(With(o)) \in Nat
  <2>1. \A o \in Outcome : IsFiniteSet(With(o)) BY FS_Subset
  <2> QED BY <2>1, FS_CardinalityType
<1>3. \A S : IsFiniteSet(After(S)) BY FS_Subset
<1>4. Cardinality(M) = Cardinality(With("success")) + Cardinality(After({"success"}))
  <2>1. With("success") \cup After({"success"}) = M OBVIOUS
  <2>2. With("success") \cap After({"success"}) = {} OBVIOUS
  <2> HIDE DEF M, With, After
  <2> QED BY <2>1, <2>2, TwoParts DEF M
<1>5. Cardinality(After({"success"})) =
        Cardinality(With("timeout")) + Cardinality(After({"success", "timeout"}))
  <2>1. With("timeout") \cup After({"success", "timeout"}) = After({"success"}) OBVIOUS
  <2>2. With("timeout") \cap After({"success", "timeout"}) = {} OBVIOUS
  <2> HIDE DEF With, After
  <2> QED BY <2>1, <2>2, <1>3, TwoParts
<1>6. Cardinality(After({"success", "timeout"})) =
        Cardinality(With("error")) + Cardinality(After({"success", "timeout", "error"}))
  <2>1. With("error") \cup After({"success", "timeout", "error"}) = After({"success", "timeout"}) OBVIOUS
  <2>2. With("error") \cap After({"success", "timeout", "error"}) = {} OBVIOUS
  <2> HIDE DEF With, After
  <2> QED BY <2>1, <2>2, <1>3, TwoParts
<1>7. Cardinality(After({"success", "timeout", "error"})) =
        Cardinality(With("cancelled")) + Cardinality(With("partial"))
  <2>1. With("cancelled") \cup With("partial") = After({"success", "timeout", "error"})
    BY <1>1 DEF Outcome
  <2>2. With("cancelled") \cap With("partial") = {} OBVIOUS
  <2> HIDE DEF With, After
  <2> QED BY <2>1, <2>2, <1>3, TwoParts
<1>8. \A o \in Outcome : CountOf(records, o) = Cardinality(With(o)) BY DEF CountOf
<1> HIDE DEF M, With, After
<1>9. Cardinality(M) = Cardinality(With("success")) + Cardinality(With("timeout"))
        + Cardinality(With("error")) + Cardinality(With("cancelled")) + Cardinality(With("partial"))
  <2>1. \A S : Cardinality(After(S)) \in Nat BY <1>3, FS_CardinalityType
  <2> QED BY <1>2, <1>4, <1>5, <1>6, <1>7, <2>1 DEF Outcome
<1> QED BY <1>2, <1>8, <1>9 DEF M, Outcome

\* What run_benchmark counted is what its report's validator counts.
LEMMA ReportAgrees ==
  ASSUME TypeOK, Ordered, Len(records) = Total
  PROVE  Consistent(records, ReportOf(records))
<1>0. Total \in Nat /\ Warmup \in Nat /\ Measured \in Nat \ {0} /\ Total = Warmup + Measured
  BY WorkloadAssumption DEF Total
<1>1. DOMAIN records = 1..Total BY DEF TypeOK
<1>2. MeasuredOf(records) = (Warmup + 1)..Total
  <2>1. ASSUME NEW i \in 1..Total PROVE ~records[i].warmup <=> i >= Warmup + 1
    <3>1. records[i].warmup = (i - 1 < Warmup) BY <1>1 DEF Ordered
    <3>2. (i - 1 < Warmup) <=> ~(i >= Warmup + 1) BY <1>0
    <3> QED BY <3>1, <3>2, Zenon
  <2> QED BY <2>1, <1>0, <1>1 DEF MeasuredOf
<1>3. IsFiniteSet(MeasuredOf(records)) /\ Cardinality(MeasuredOf(records)) = Measured
  BY <1>0, <1>2, FS_Interval
<1> DEFINE counts == [o \in Outcome |-> CountOf(records, o)]
           total == counts["success"] + counts["timeout"] + counts["error"]
                      + counts["cancelled"] + counts["partial"]
<1>4. ReportOf(records) = [counts |-> counts, failed |-> Measured - counts["success"], measured |-> Measured]
  BY <1>3 DEF ReportOf
<1>5. total = Measured
  BY <1>3, OutcomesAddUp DEF Outcome
<1>6. \A i \in DOMAIN records : records[i].sequence = i /\ records[i].warmup = (i - 1 < Warmup)
  BY DEF Ordered
<1>7. (Measured - counts["success"]) * total = (total - counts["success"]) * Measured
  BY <1>5
<1> QED BY <1>3, <1>4, <1>6, <1>7 DEF Consistent

LEMMA RaisedStep ==
  ASSUME TypeOK, Progress, Ordered, Raised, [Next]_vars
  PROVE  Raised'
<1>0. Total \in Nat \ {0} BY WorkloadAssumption DEF Total
<1> USE <1>0 DEF TypeOK, Raised, Progress, Go, CtrlC, InLoop, Making
<1>1. CASE ModelIdentity BY <1>1 DEF ModelIdentity
<1>2. CASE SkipCancelled BY <1>2 DEF SkipCancelled
<1>3. CASE BeginRequest BY <1>3 DEF BeginRequest, BeginUnless
<1>4. CASE StartObserver BY <1>4 DEF StartObserver
<1>5. CASE CallAdapter BY <1>5 DEF CallAdapter
<1>6. CASE AdapterSucceeds BY <1>6 DEF AdapterSucceeds
<1>7. CASE AdapterFails BY <1>7 DEF AdapterFails
<1>8. CASE AdapterCancelled BY <1>8 DEF AdapterCancelled
<1>9. CASE AdapterRaises BY <1>9 DEF AdapterRaises
<1>10. CASE StopObserver BY <1>10 DEF StopObserver, LeaveObserver
<1>11. CASE RecordRun BY <1>11 DEF RecordRun
<1>12. CASE RecordRefused BY <1>12 DEF RecordRefused
<1>13. CASE LoopEnds BY <1>13 DEF LoopEnds
<1>14. CASE CloseAdapter BY <1>14 DEF CloseAdapter, LeaveTry
<1>15. CASE Assemble BY <1>15 DEF Assemble
<1>16. CASE AssembleRefused
  <2>1. Consistent(records, ReportOf(records)) BY <1>16, ReportAgrees DEF AssembleRefused
  <2> QED BY <1>16, <2>1 DEF AssembleRefused
<1>17. CASE ExitReport BY <1>17 DEF ExitReport
<1>18. CASE ExitError BY <1>18 DEF ExitError
<1>19. CASE Cancel BY <1>19 DEF Cancel
<1>20. CASE InterruptRequest BY <1>20 DEF InterruptRequest, InterruptCall
<1>21. CASE InterruptLoop BY <1>21 DEF InterruptLoop
<1>22. CASE InterruptEnd BY <1>22 DEF InterruptEnd
<1>23. CASE UNCHANGED vars BY <1>23 DEF vars
<1> QED BY <1>1, <1>2, <1>3, <1>4, <1>5, <1>6, <1>7, <1>8, <1>9, <1>10, <1>11, <1>12,
           <1>13, <1>14, <1>15, <1>16, <1>17, <1>18, <1>19, <1>20, <1>21, <1>22, <1>23
        DEF Next, Program, Environment

\* Records are only added.
LEMMA CancelledStays ==
  ASSUME TypeOK, [Next]_vars, ~NoneCancelled PROVE (~NoneCancelled)'
<1>1. PICK i \in DOMAIN records : records[i].outcome = "cancelled" BY DEF NoneCancelled
<1>2. \/ UNCHANGED records
      \/ \E r : records' = Append(records, r)
  BY DEF Next, Program, Environment, vars, ModelIdentity, SkipCancelled, BeginRequest, BeginUnless,
     StartObserver, CallAdapter, AdapterSucceeds, AdapterFails, AdapterCancelled, AdapterRaises,
     StopObserver, LeaveObserver, RecordRun, RecordRefused, LoopEnds, CloseAdapter, LeaveTry, Assemble,
     AssembleRefused, ExitReport, ExitError, Cancel, InterruptRequest, InterruptCall, InterruptLoop, InterruptEnd
<1>3. i \in DOMAIN records' /\ records'[i] = records[i] BY <1>2 DEF TypeOK
<1> QED BY <1>1, <1>3 DEF NoneCancelled

LEMMA ToldStep ==
  ASSUME TypeOK, Progress, Raised, Raised', Told, [Next]_vars
  PROVE  Told'
<1>a. ~NoneCancelled => (~NoneCancelled)' BY CancelledStays
<1> USE <1>a DEF TypeOK, Told, Raised, Progress, Go, CtrlC, InLoop, Making
<1>1. CASE ModelIdentity BY <1>1 DEF ModelIdentity
<1>2. CASE SkipCancelled BY <1>2 DEF SkipCancelled
<1>3. CASE BeginRequest BY <1>3 DEF BeginRequest, BeginUnless
<1>4. CASE StartObserver BY <1>4 DEF StartObserver
<1>5. CASE CallAdapter BY <1>5 DEF CallAdapter
<1>6. CASE AdapterSucceeds BY <1>6 DEF AdapterSucceeds
<1>7. CASE AdapterFails BY <1>7 DEF AdapterFails
<1>8. CASE AdapterCancelled BY <1>8 DEF AdapterCancelled
<1>9. CASE AdapterRaises BY <1>9 DEF AdapterRaises
<1>10. CASE StopObserver BY <1>10 DEF StopObserver, LeaveObserver
<1>11. CASE RecordRun
  <2>1. CASE answer.outcome = "cancelled"
    <3>1. PICK r : records' = Append(records, r) /\ r.outcome = "cancelled"
      BY <1>11, <2>1 DEF RecordRun, RecordOf
    <3>2. Len(records) + 1 \in DOMAIN records' /\ records'[Len(records) + 1] = r BY <3>1
    <3> QED BY <3>1, <3>2 DEF NoneCancelled
  <2>2. CASE answer.outcome # "cancelled" BY <1>11, <2>2 DEF RecordRun
  <2> QED BY <2>1, <2>2
<1>12. CASE RecordRefused BY <1>12 DEF RecordRefused
<1>13. CASE LoopEnds BY <1>13 DEF LoopEnds
<1>14. CASE CloseAdapter BY <1>14 DEF CloseAdapter, LeaveTry
<1>15. CASE Assemble BY <1>15 DEF Assemble
<1>16. CASE AssembleRefused BY <1>16 DEF AssembleRefused
<1>17. CASE ExitReport BY <1>17 DEF ExitReport
<1>18. CASE ExitError BY <1>18 DEF ExitError
<1>19. CASE Cancel BY <1>19 DEF Cancel
<1>20. CASE InterruptRequest BY <1>20 DEF InterruptRequest, InterruptCall
<1>21. CASE InterruptLoop BY <1>21 DEF InterruptLoop
<1>22. CASE InterruptEnd BY <1>22 DEF InterruptEnd
<1>23. CASE UNCHANGED vars BY <1>23 DEF vars
<1> QED BY <1>1, <1>2, <1>3, <1>4, <1>5, <1>6, <1>7, <1>8, <1>9, <1>10, <1>11, <1>12,
           <1>13, <1>14, <1>15, <1>16, <1>17, <1>18, <1>19, <1>20, <1>21, <1>22, <1>23
        DEF Next, Program, Environment

LEMMA ExitsStep ==
  ASSUME TypeOK, Progress, Raised, Exits, [Next]_vars
  PROVE  Exits'
<1> USE DEF TypeOK, Exits, Raised, Progress, Go, CtrlC, InLoop, Making, NoExit, NoneCancelled
<1>1. CASE ModelIdentity BY <1>1 DEF ModelIdentity
<1>2. CASE SkipCancelled BY <1>2 DEF SkipCancelled
<1>3. CASE BeginRequest BY <1>3 DEF BeginRequest, BeginUnless
<1>4. CASE StartObserver BY <1>4 DEF StartObserver
<1>5. CASE CallAdapter BY <1>5 DEF CallAdapter
<1>6. CASE AdapterSucceeds BY <1>6 DEF AdapterSucceeds
<1>7. CASE AdapterFails BY <1>7 DEF AdapterFails
<1>8. CASE AdapterCancelled BY <1>8 DEF AdapterCancelled
<1>9. CASE AdapterRaises BY <1>9 DEF AdapterRaises
<1>10. CASE StopObserver BY <1>10 DEF StopObserver, LeaveObserver
<1>11. CASE RecordRun BY <1>11 DEF RecordRun
<1>12. CASE RecordRefused BY <1>12 DEF RecordRefused
<1>13. CASE LoopEnds BY <1>13 DEF LoopEnds
<1>14. CASE CloseAdapter BY <1>14 DEF CloseAdapter, LeaveTry
<1>15. CASE Assemble
  <2>1. report'.measured = Measured /\ Measured # 0
    BY <1>15, WorkloadAssumption DEF Assemble, Consistent, ReportOf
  <2>2. report' # NoReport BY <2>1 DEF NoReport
  <2> QED BY <1>15, <2>2 DEF Assemble
<1>16. CASE AssembleRefused BY <1>16 DEF AssembleRefused
<1>17. CASE ExitReport
  <2>1. AnyCancelled <=> ~NoneCancelled BY DEF AnyCancelled
  <2> QED BY <1>17, <2>1 DEF ExitReport
<1>18. CASE ExitError BY <1>18 DEF ExitError
<1>19. CASE Cancel BY <1>19 DEF Cancel
<1>20. CASE InterruptRequest BY <1>20 DEF InterruptRequest, InterruptCall
<1>21. CASE InterruptLoop BY <1>21 DEF InterruptLoop
<1>22. CASE InterruptEnd BY <1>22 DEF InterruptEnd
<1>23. CASE UNCHANGED vars BY <1>23 DEF vars
<1> QED BY <1>1, <1>2, <1>3, <1>4, <1>5, <1>6, <1>7, <1>8, <1>9, <1>10, <1>11, <1>12,
           <1>13, <1>14, <1>15, <1>16, <1>17, <1>18, <1>19, <1>20, <1>21, <1>22, <1>23
        DEF Next, Program, Environment

LeavingInv == Ordered /\ Raised /\ Told /\ Exits

LEMMA LeavingInit == Init => LeavingInv
BY WorkloadAssumption
   DEF Init, LeavingInv, Ordered, Raised, Told, Exits, Total, NoExit

LEMMA LeavingStep == IInv /\ LeavingInv /\ [Next]_vars => LeavingInv'
<1> SUFFICES ASSUME IInv, LeavingInv, [Next]_vars PROVE LeavingInv'
  OBVIOUS
<1>1. TypeOK /\ Progress BY DEF IInv
<1>2. Ordered' BY <1>1, OrderedStep DEF LeavingInv
<1>3. Raised' BY <1>1, RaisedStep DEF LeavingInv
<1>4. Told' BY <1>1, <1>3, ToldStep DEF LeavingInv
<1>5. Exits' BY <1>1, ExitsStep DEF LeavingInv
<1> QED BY <1>2, <1>3, <1>4, <1>5 DEF LeavingInv

\* An interrupted command does not exit as if it had succeeded, and has
\* printed what it had when it says 130, unless Ctrl-C came outside
\* adapter.run() (engine.py:140-143, cli.py:507-515).
THEOREM InterruptsTold == Spec => []InterruptsAreTold
<1>1. Init => IInv /\ LeavingInv BY SafetyInit, LeavingInit
<1>2. (IInv /\ LeavingInv) /\ [Next]_vars => (IInv /\ LeavingInv)'
  BY SafetyStep, LeavingStep
<1>3. IInv /\ LeavingInv => InterruptsAreTold
  BY DEF IInv, TypeOK, LeavingInv, Progress, Raised, Told, Exits, InterruptsAreTold, NoExit
<1>4. QED BY <1>1, <1>2, <1>3, PTL DEF Spec

\* When every request has been made the report is: its validator counts as
\* the engine does (engine.py:164-230, models.py:160-201).
THEOREM ReportComes == Spec => []RequestsReported
<1>1. Init => IInv /\ LeavingInv BY SafetyInit, LeavingInit
<1>2. (IInv /\ LeavingInv) /\ [Next]_vars => (IInv /\ LeavingInv)'
  BY SafetyStep, LeavingStep
<1>3. IInv /\ LeavingInv => RequestsReported
  <2> SUFFICES ASSUME IInv, LeavingInv, pc = "exited", Len(records) = Total, ~outside, raising # "clock"
               PROVE  report # NoReport
    BY DEF RequestsReported
  <2>1. Total \in Nat /\ offset = Total BY WorkloadAssumption DEF Total, IInv, Progress
  <2>2. raising = "none" BY <2>1 DEF IInv, TypeOK, Exception, LeavingInv, Raised
  <2> QED BY <2>2 DEF LeavingInv, Exits
<1>4. QED BY <1>1, <1>2, <1>3, PTL DEF Spec
==============================================================================
