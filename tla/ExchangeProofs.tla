---------------------------- MODULE ExchangeProofs ----------------------------
(* Exchange for any limits on a response and any peer: text that has come is *)
(* never lost, the exchange implements AdapterContract, and every request is *)
(* classified when Python can handle its headers and the numbers it gets.    *)
EXTENDS Exchange, TLAPS

Before == {"begin", "connect", "connected", "send", "await", "answered", "inspect", "body"}
During == {"lines", "read", "line", "eof"}

\* A line is counted when it is read, and kept unless it is too much.
Counted == pc \in Before \cup During => total = kept

\* A line without a number that Python has trouble with.
Manageable(l) ==
  l.count \in {"none", "valid", "invalid"} /\ l.kind # "digits" /\ l.text \in BOOLEAN

\* Before a result or an exception there is neither; text comes with lines.
Running ==
  /\ pc \in Before \cup During \cup {"final"} => raising = "none" /\ sample = "none"
  /\ pc \in Before => ~text
  /\ pc \in Before \cup During \cup {"consumer"} => result = "none"
  /\ pc = "final" => result = "complete"
  /\ pc = "final" /\ protocol = "openai" => done /\ tokens = "valid"
  /\ pc # "ended" => outcome = "none"
  /\ protocol = "openai" => ~metadata
  /\ result \in {"none", "complete"}
  /\ pc = "body" => metadata
  /\ tame => Manageable(line) /\ tokens # "huge"

\* The exceptions that reach each handler, and the sample they have by then.
Failing ==
  /\ pc = "consumer" => raising \in AdapterErrors \cup {"io"} /\ sample = "none"
  /\ pc = "consumer" /\ raising = "partial" => text
  /\ pc = "handler" => raising \in AdapterErrors \cup {"io", "timedout"} /\ sample # "complete"
  /\ pc = "handler" /\ raising = "partial" => sample = "incomplete"
  /\ pc = "handler" /\ text /\ result = "none" => sample = "incomplete"
  /\ raising = "cancelled" => cancelled

\* What leaves is one or the other.
Leaving ==
  pc \in {"finally", "ended"} =>
    /\ raising \in AdapterErrors \cup {"none", "alien"}
    /\ raising = "alien" => ~(legal /\ tame)
    /\ raising = "none" => sample = "complete" /\ result = "complete"
    /\ raising = "none" /\ protocol = "openai" => done /\ tokens = "valid"
    /\ raising # "none" => sample # "complete"
    /\ raising = "partial" => sample = "incomplete"
    /\ raising \notin {"none", "alien"} /\ text /\ result = "none" => sample = "incomplete"
    /\ pc = "ended" => outcome = IF raising = "none" THEN "success" ELSE raising

TypeInv == TypeOK /\ Counted

IInv == TypeInv /\ Running /\ Failing /\ Leaving

-----------------------------------------------------------------------------
\* The type invariant, with what makes the total of the lines bounded.
LEMMA LineTypes == Lines \subseteq Line /\ NoLine \in Line
  BY DEF Lines, Line, NoLine

LEMMA TypeInit == Init => TypeInv
<1> SUFFICES ASSUME Init PROVE TypeInv
  OBVIOUS
<1>1. metadata \in BOOLEAN
  BY DEF Init
<1>2. 0 \in 0..MaxBytes /\ 0 \in 0..MaxBytes + MaxLine + 1
  BY LimitAssumption
<1> QED
  BY <1>1, <1>2, LineTypes DEF Init, TypeInv, TypeOK, Counted, Places, Waits, Checks

LEMMA ReadLineTyped ==
  ASSUME TypeInv, NEW size \in 1..MaxLine + 1, ReadLine(size)
  PROVE  TypeInv'
<1> USE LimitAssumption DEF TypeInv, TypeOK, Counted, Raise, Places, Waits, Checks, Exceptions,
        AdapterErrors, Before, During, env, failure
<1>1. total = kept /\ total' = total + size
  BY DEF ReadLine, TakeLine
<1>2. total' \in 0..MaxBytes + MaxLine + 1
  BY <1>1
<1>3. CASE size > MaxLine \/ total + size > MaxBytes
  BY <1>2, <1>3 DEF ReadLine, TakeLine
<1>4. CASE ~(size > MaxLine \/ total + size > MaxBytes)
  <2>1. kept' = total' /\ total' \in 0..MaxBytes /\ line' \in Line
    BY <1>1, <1>4, LineTypes DEF ReadLine, TakeLine
  <2> QED
    BY <1>2, <1>4, <2>1 DEF ReadLine, TakeLine
<1> QED
  BY <1>3, <1>4

LEMMA TypeStep == TypeInv /\ [Next]_vars => TypeInv'
<1> SUFFICES ASSUME TypeInv, [Next]_vars PROVE TypeInv'
  OBVIOUS
<1> USE DEF TypeInv, TypeOK, Counted, vars, env, stream, failure, Go, Raise, Deadline, Places, Waits, Checks, Exceptions,
        AdapterErrors, Before, During
<1>1. ASSUME CheckPasses PROVE TypeInv'
  <2>1. open' \in {open, {"connection"}} /\ pc' \in {"connect", "send", "inspect"} /\ pc \in Checks
    BY <1>1 DEF CheckPasses
  <2> QED
    BY <1>1, <2>1 DEF CheckPasses
<1>2. ASSUME CheckFails PROVE TypeInv'
  <2>1. Deadline \in AdapterErrors
    BY <1>2 DEF CheckFails, FailsAt
  <2>2. pc' \in {"consumer", "handler"}
    BY <1>2 DEF CheckFails, FailsAt
  <2> QED
    BY <1>2, <2>1, <2>2 DEF CheckFails, FailsAt
<1>3. ASSUME Connected PROVE TypeInv'
  BY <1>3 DEF Connected
<1>4. ASSUME Sent PROVE TypeInv'
  BY <1>4 DEF Sent
<1>5. ASSUME Answered PROVE TypeInv'
  BY <1>5 DEF Answered
<1>6. ASSUME Breaks PROVE TypeInv'
  BY <1>6 DEF Breaks
<1>7. ASSUME StreamEnds PROVE TypeInv'
  BY <1>7 DEF StreamEnds
<1>8. ASSUME ReadBody PROVE TypeInv'
  BY <1>8 DEF ReadBody
<1>9. ASSUME HeaderRefused PROVE TypeInv'
  BY <1>9 DEF HeaderRefused
<1>10. ASSUME Inspect PROVE TypeInv'
  BY <1>10 DEF Inspect
<1>11. ASSUME NextLine PROVE TypeInv'
  BY <1>11 DEF NextLine
<1>12. ASSUME BadLine PROVE TypeInv'
  BY <1>12 DEF BadLine
<1>13. ASSUME OllamaChunk PROVE TypeInv'
  <2>1. Heard \in BOOLEAN
    BY DEF Heard, Line
  <2> QED
    BY <1>13, <2>1 DEF OllamaChunk
<1>14. ASSUME OllamaDone PROVE TypeInv'
  <2>1. Heard \in BOOLEAN
    BY DEF Heard, Line
  <2> QED
    <3>1. CASE ~Heard \/ line.count \in {"none", "invalid"}
      <4>1. raising' = "error" /\ sample' = "none" /\ pc' = "consumer" /\ result' = result
        BY <1>14, <3>1, Zenon DEF OllamaDone
      <4> QED
        BY <1>14, <2>1, <4>1 DEF OllamaDone
    <3>2. CASE Heard /\ line.count = "huge"
      BY <1>14, <2>1, <3>2 DEF OllamaDone
    <3>3. CASE Heard /\ line.count = "valid"
      BY <1>14, <2>1, <3>3 DEF OllamaDone
    <3> QED
      BY <2>1, <3>1, <3>2, <3>3 DEF Line
<1>15. ASSUME OpenAIChunk PROVE TypeInv'
  <2>1. Heard \in BOOLEAN
    BY DEF Heard, Line
  <2>2. tokens' \in {"none", "valid", "huge"}
    BY <1>15 DEF OpenAIChunk
  <2> QED
    BY <1>15, <2>1, <2>2 DEF OpenAIChunk
<1>16. ASSUME OpenAIDone PROVE TypeInv'
  BY <1>16 DEF OpenAIDone
<1>17. ASSUME StreamOver PROVE TypeInv'
  <2>1. CASE ~Measurable
    <3>1. raising' \in {"partial", "error"} /\ sample' = "none" /\ pc' = "consumer" /\ result' = result
      BY <1>17, <2>1, Zenon DEF StreamOver
    <3> QED
      BY <1>17, <3>1 DEF StreamOver
  <2>2. CASE Measurable /\ tokens = "huge"
    BY <1>17, <2>2 DEF StreamOver
  <2>3. CASE Measurable /\ tokens # "huge"
    BY <1>17, <2>3 DEF StreamOver
  <2> QED
    BY <2>1, <2>2, <2>3
<1>18. ASSUME ConsumeFails PROVE TypeInv'
  <2>1. sample' \in {"none", "incomplete", "complete"} /\ raising' \in Exceptions \cup {"none"}
    BY <1>18, Zenon DEF ConsumeFails, Salvage
  <2> QED
    BY <1>18, <2>1 DEF ConsumeFails, Salvage
<1>19. ASSUME Finish PROVE TypeInv'
  BY <1>19 DEF Finish
<1>20. ASSUME Handle PROVE TypeInv'
  BY <1>20 DEF Handle, Handled
<1>21. ASSUME Leave PROVE TypeInv'
  BY <1>21 DEF Leave
<1>22. ASSUME Cancel PROVE TypeInv'
  BY <1>22 DEF Cancel
<1>23. ASSUME Expire PROVE TypeInv'
  BY <1>23 DEF Expire
<1>24. ASSUME NEW size \in 1..MaxLine + 1, ReadLine(size) PROVE TypeInv'
  BY <1>24, ReadLineTyped
<1>25. ASSUME UNCHANGED vars PROVE TypeInv'
  BY <1>25
<1> QED
  BY <1>1, <1>2, <1>3, <1>4, <1>5, <1>6, <1>7, <1>8, <1>9, <1>10, <1>11, <1>12, <1>13, <1>14, <1>15, <1>16, <1>17, <1>18, <1>19, <1>20, <1>21, <1>22, <1>23, <1>24, <1>25 DEF Next, Peer, Own

\* The type invariant for any limits and any peer: total and raw stay within
\* the limits of response_limits.py.
THEOREM TypeCorrect == Spec => []TypeOK
<1>1. TypeInv => TypeOK
  BY DEF TypeInv
<1> QED
  BY <1>1, TypeInit, TypeStep, PTL DEF Spec
-----------------------------------------------------------------------------
\* The handlers.
LEMMA LineFacts ==
  ASSUME tame, NEW l \in Lines
  PROVE  Manageable(l)
<1>1. l \in Line /\ (tame => l.kind # "digits" /\ l.count # "huge")
  BY Zenon DEF Lines
<1> QED
  BY <1>1 DEF Line, Manageable

LEMMA HandlersInit == Init => IInv
<1>1. Manageable(NoLine)
  BY DEF Manageable, NoLine
<1> QED
  BY <1>1, TypeInit DEF Init, IInv, TypeInv, Running, Failing, Leaving, Before, During

LEMMA HandlersStep ==
  ASSUME IInv, TypeInv', Next
  PROVE  IInv'
<1> USE DEF IInv, TypeInv, TypeOK, Running, Failing, Leaving, Before, During,
        env, stream, failure, Go, Raise, Deadline, Waits, Checks, AdapterErrors
<1>0. /\ tame => line.count \in {"none", "valid", "invalid"} /\ line.kind # "digits"
      /\ line.text \in BOOLEAN /\ line.count \in {"none", "valid", "invalid", "huge"}
  BY DEF Manageable, Line
<1>1. ASSUME CheckPasses PROVE IInv'
  BY <1>0, <1>1 DEF CheckPasses
<1>2. ASSUME CheckFails PROVE IInv'
  BY <1>0, <1>2 DEF CheckFails, FailsAt
<1>3. ASSUME Connected PROVE IInv'
  BY <1>0, <1>3 DEF Connected
<1>4. ASSUME Sent PROVE IInv'
  BY <1>0, <1>4 DEF Sent
<1>5. ASSUME Answered PROVE IInv'
  BY <1>0, <1>5 DEF Answered
<1>6. ASSUME Breaks PROVE IInv'
  BY <1>0, <1>6 DEF Breaks
<1>7. ASSUME StreamEnds PROVE IInv'
  BY <1>0, <1>7 DEF StreamEnds
<1>8. ASSUME ReadBody PROVE IInv'
  BY <1>0, <1>8 DEF ReadBody
<1>9. ASSUME HeaderRefused PROVE IInv'
  BY <1>0, <1>9 DEF HeaderRefused
<1>10. ASSUME Inspect PROVE IInv'
  BY <1>0, <1>10 DEF Inspect
<1>11. ASSUME NextLine PROVE IInv'
  BY <1>0, <1>11 DEF NextLine
<1>12. ASSUME BadLine PROVE IInv'
  <2>1. CASE line.kind = "malformed"
    BY <1>0, <1>12, <2>1 DEF BadLine
  <2>2. CASE line.kind = "scalar"
    BY <1>0, <1>12, <2>2 DEF BadLine
  <2>3. CASE line.kind = "digits"
    BY <1>0, <1>12, <2>3 DEF BadLine
  <2> QED
    BY <1>12, <2>1, <2>2, <2>3 DEF BadLine
<1>13. ASSUME OllamaChunk PROVE IInv'
  BY <1>0, <1>13 DEF OllamaChunk, Heard
<1>14. ASSUME OllamaDone PROVE IInv'
  <2>1. CASE Heard /\ line.count = "valid"
    <3>1. pc' = "final" /\ result' = "complete" /\ UNCHANGED failure
      BY <1>14, <2>1, Zenon DEF OllamaDone
    <3> QED
      BY <1>14, <3>1 DEF OllamaDone
  <2>2. CASE ~Heard \/ line.count \in {"none", "invalid"}
    <3>1. raising' = "error" /\ sample' = "none" /\ pc' = "consumer" /\ result' = result
      BY <1>14, <2>2, Zenon DEF OllamaDone
    <3> QED
      BY <1>14, <3>1 DEF OllamaDone
  <2>3. CASE Heard /\ line.count = "huge"
    <3>1. raising' = "alien" /\ sample' = "none" /\ pc' = "finally" /\ result' = result
        /\ ~tame /\ tame' = tame
      BY <1>0, <1>14, <2>3, Zenon DEF OllamaDone
    <3> QED
      BY <1>14, <3>1 DEF OllamaDone
  <2> QED
    BY <1>0, <2>1, <2>2, <2>3
<1>15. ASSUME OpenAIChunk PROVE IInv'
  BY <1>0, <1>15 DEF OpenAIChunk, Heard
<1>16. ASSUME OpenAIDone PROVE IInv'
  BY <1>0, <1>16 DEF OpenAIDone
<1>17. ASSUME StreamOver PROVE IInv'
  BY <1>0, <1>17 DEF StreamOver, Measurable
<1>18. ASSUME ConsumeFails PROVE IInv'
  BY <1>0, <1>18 DEF ConsumeFails, Salvage
<1>19. ASSUME Finish PROVE IInv'
  BY <1>0, <1>19 DEF Finish
<1>20. ASSUME Handle PROVE IInv'
  BY <1>0, <1>20 DEF Handle, Handled
<1>21. ASSUME Leave PROVE IInv'
  BY <1>0, <1>21 DEF Leave
<1>22. ASSUME Cancel PROVE IInv'
  BY <1>0, <1>22 DEF Cancel
<1>23. ASSUME Expire PROVE IInv'
  BY <1>0, <1>23 DEF Expire
<1>24. ASSUME NEW size \in 1..MaxLine + 1, ReadLine(size) PROVE IInv'
  <2>1. tame => line' = line \/ Manageable(line')
    BY <1>24, LineFacts DEF ReadLine, TakeLine
  <2> QED
    BY <1>24, <2>1 DEF ReadLine, TakeLine
<1> QED
  BY <1>1, <1>2, <1>3, <1>4, <1>5, <1>6, <1>7, <1>8, <1>9, <1>10, <1>11, <1>12, <1>13, <1>14, <1>15, <1>16, <1>17, <1>18, <1>19, <1>20, <1>21, <1>22, <1>23, <1>24 DEF Next, Peer, Own

\* The invariant of the handlers.
LEMMA Handlers == Spec => []IInv
<1>1. IInv /\ [Next]_vars => IInv'
  <2>1. ASSUME IInv, [Next]_vars PROVE TypeInv'
    BY <2>1, TypeStep DEF IInv
  <2>2. ASSUME IInv, Next PROVE IInv'
    BY <2>1, <2>2, HandlersStep
  <2>3. ASSUME IInv, UNCHANGED vars PROVE IInv'
    BY <2>3 DEF vars, IInv, TypeInv, TypeOK, Counted, Running, Failing, Leaving
  <2> QED
    BY <2>2, <2>3
<1> QED
  BY <1>1, HandlersInit, PTL DEF Spec

\* With numbers and headers that Python can handle, run() answers with a
\* sample or an AdapterError, whatever else the peer does.
THEOREM Classified == Spec => []EveryAnswerClassified
<1>1. IInv => EveryAnswerClassified
  BY DEF IInv, Leaving, EveryAnswerClassified, EveryRequestClassified, AdapterErrors
<1> QED
  BY <1>1, Handlers, PTL

\* No text is lost on the way through the two layers of handlers.
THEOREM TextIsKept == Spec => []TextKeepsSample
<1>1. IInv => TextKeepsSample
  BY DEF IInv, Leaving, TextKeepsSample
<1> QED
  BY <1>1, Handlers, PTL

\* A success of the OpenAI-compatible adapter has seen [DONE] and the usage.
THEOREM SuccessIsMeasured == Spec => []SuccessSawDone
<1>1. IInv => SuccessSawDone
  <2> SUFFICES ASSUME IInv, pc = "ended", outcome = "success", protocol = "openai"
               PROVE  done /\ tokens = "valid"
    BY DEF SuccessSawDone
  <2>1. raising = "none"
    BY DEF IInv, Leaving, AdapterErrors
  <2> QED
    BY <2>1, Zenon DEF IInv, Leaving
<1> QED
  BY <1>1, Handlers, PTL

\* The exchange is the adapter that the engine assumes: one answer, of a class
\* the engine knows, with the sample that goes with it.
THEOREM ImplementsContract == Spec => ContractSpec
<1>1. Init => Contract!Init
  BY DEF Init, Contract!Init, HasAnswered
<1>2. IInv /\ IInv' /\ [Next]_vars => [Contract!Next]_(Contract!vars)
  <2> SUFFICES ASSUME IInv, IInv', [Next]_vars
               PROVE  Contract!Next \/ UNCHANGED Contract!vars
    OBVIOUS
  <2>1. CASE Leave
    <3>1. pc = "finally" /\ pc' = "ended" /\ UNCHANGED <<raising, sample, cancelled>>
      BY <2>1 DEF Leave, Go, failure, env
    <3>2. CASE raising = "none"
      <4>1. outcome' = "success" /\ sample = "complete"
        BY <2>1, <3>1, <3>2 DEF Leave, IInv, Leaving
      <4>2. Contract!Answer("success", "complete")
        BY <3>1, <4>1 DEF Contract!Answer, HasAnswered
      <4> QED
        BY <4>2 DEF Contract!Next, Contract!Outcome, Contract!Sample
    <3>3. CASE raising = "alien"
      <4>1. outcome' = "alien"
        BY <2>1, <3>3 DEF Leave
      <4> QED
        BY <3>1, <4>1 DEF HasAnswered, Contract!vars
    <3>4. CASE raising \notin {"none", "alien"}
      <4>1. /\ outcome' = raising /\ raising \in AdapterErrors /\ sample # "complete"
            /\ raising = "partial" => sample = "incomplete"
            /\ raising = "cancelled" => cancelled
        BY <2>1, <3>1, <3>4 DEF Leave, IInv, Leaving, Failing
      <4>2. sample \in {"none", "incomplete", "complete"}
        BY DEF IInv, TypeInv, TypeOK
      <4>3. Contract!Answer(raising, sample)
        BY <3>1, <4>1 DEF Contract!Answer, AdapterErrors, HasAnswered
      <4> QED
        BY <4>1, <4>2, <4>3 DEF Contract!Next, Contract!Outcome, Contract!Sample, AdapterErrors
    <3> QED
      BY <3>2, <3>3, <3>4
  <2>2. CASE Cancel
    BY <2>2 DEF Cancel, failure, HasAnswered, Contract!Next, Contract!RequestCancel
  <2>3. CASE (Next /\ ~Leave /\ ~Cancel) \/ UNCHANGED vars
    <3> DEFINE Silent == /\ UNCHANGED <<cancelled, outcome>>
                         /\ pc = "ended" <=> pc' = "ended"
                         /\ pc = "ended" => UNCHANGED sample
    <3>1. Silent
      <4> USE DEF env, stream, failure, Go, Raise, Waits, Checks
      <4>1. ASSUME CheckPasses PROVE Silent
        BY <4>1 DEF CheckPasses
      <4>2. ASSUME CheckFails PROVE Silent
        BY <4>2 DEF CheckFails, FailsAt
      <4>3. ASSUME Connected PROVE Silent
        BY <4>3 DEF Connected
      <4>4. ASSUME Sent PROVE Silent
        BY <4>4 DEF Sent
      <4>5. ASSUME Answered PROVE Silent
        BY <4>5 DEF Answered
      <4>6. ASSUME Breaks PROVE Silent
        BY <4>6 DEF Breaks
      <4>7. ASSUME StreamEnds PROVE Silent
        BY <4>7 DEF StreamEnds
      <4>8. ASSUME ReadBody PROVE Silent
        BY <4>8 DEF ReadBody
      <4>9. ASSUME HeaderRefused PROVE Silent
        BY <4>9 DEF HeaderRefused
      <4>10. ASSUME Inspect PROVE Silent
        BY <4>10 DEF Inspect
      <4>11. ASSUME NextLine PROVE Silent
        BY <4>11 DEF NextLine
      <4>12. ASSUME BadLine PROVE Silent
        <5>1. CASE line.kind = "malformed"
          BY <4>12, <5>1 DEF BadLine
        <5>2. CASE line.kind = "scalar"
          BY <4>12, <5>2 DEF BadLine
        <5>3. CASE line.kind = "digits"
          BY <4>12, <5>3 DEF BadLine
        <5> QED
          BY <4>12, <5>1, <5>2, <5>3 DEF BadLine
      <4>13. ASSUME OllamaChunk PROVE Silent
        BY <4>13 DEF OllamaChunk
      <4>14. ASSUME OllamaDone PROVE Silent
        <5>1. CASE ~Heard \/ line.count \in {"none", "invalid"}
          BY <4>14, <5>1 DEF OllamaDone
        <5>2. CASE Heard /\ line.count = "huge"
          BY <4>14, <5>2 DEF OllamaDone
        <5>3. CASE Heard /\ line.count = "valid"
          BY <4>14, <5>3 DEF OllamaDone
        <5> QED
          BY <4>14, <5>1, <5>2, <5>3 DEF IInv, TypeInv, TypeOK, Line
      <4>15. ASSUME OpenAIChunk PROVE Silent
        BY <4>15 DEF OpenAIChunk
      <4>16. ASSUME OpenAIDone PROVE Silent
        BY <4>16 DEF OpenAIDone
      <4>17. ASSUME StreamOver PROVE Silent
        <5>1. CASE ~Measurable
          BY <4>17, <5>1 DEF StreamOver
        <5>2. CASE Measurable /\ tokens = "huge"
          BY <4>17, <5>2 DEF StreamOver
        <5>3. CASE Measurable /\ tokens # "huge"
          BY <4>17, <5>3 DEF StreamOver
        <5> QED
          BY <5>1, <5>2, <5>3
      <4>18. ASSUME ConsumeFails PROVE Silent
        BY <4>18 DEF ConsumeFails, Salvage
      <4>19. ASSUME Finish PROVE Silent
        BY <4>19 DEF Finish
      <4>20. ASSUME Handle PROVE Silent
        BY <4>20 DEF Handle, Handled
      <4>21. ASSUME Expire PROVE Silent
        BY <4>21 DEF Expire
      <4>22. ASSUME NEW size \in 1..MaxLine + 1, ReadLine(size) PROVE Silent
        BY <4>22 DEF ReadLine, TakeLine
      <4>23. ASSUME UNCHANGED vars PROVE Silent
        BY <4>23 DEF vars
      <4> QED
        BY <2>3, <4>1, <4>2, <4>3, <4>4, <4>5, <4>6, <4>7, <4>8, <4>9, <4>10, <4>11, <4>12, <4>13, <4>14, <4>15, <4>16, <4>17, <4>18, <4>19, <4>20, <4>21, <4>22, <4>23 DEF Next, Peer, Own
    <3>2. HasAnswered' = HasAnswered /\ (HasAnswered => UNCHANGED <<outcome, sample>>)
      BY <3>1 DEF HasAnswered
    <3> QED
      BY <3>1, <3>2 DEF Contract!vars
  <2> QED
    BY <2>1, <2>2, <2>3
<1> QED
  BY <1>1, <1>2, Handlers, PTL DEF Spec, ContractSpec, Contract!Spec
-----------------------------------------------------------------------------
(* The last check.  ChecksWin is a liveness property: that it cannot be won   *)
(* by anything else is the part of it that steps can break.                   *)

\* An exchange that leaves its handlers after the event is set, or after the
\* deadline, leaves them with that.
LeavesTold ==
  legal /\ tame /\ pc \notin {"finally", "ended"} =>
    /\ pc' # "ended"
    /\ cancelled /\ pc' = "finally" => raising' = "cancelled"
    /\ expired /\ pc' = "finally" => raising' \in {"cancelled", "timeout"}

\* What it leaves with is what it ends as, and nothing is unset or forgotten.
EndsAsTold ==
  /\ legal' = legal /\ tame' = tame /\ (cancelled => cancelled') /\ (expired => expired')
  /\ pc = "finally" =>
       /\ raising' = raising /\ pc' \in {"finally", "ended"}
       /\ pc' = "ended" => outcome' = IF raising = "none" THEN "success" ELSE raising
  /\ pc = "ended" => pc' = "ended" /\ outcome' = outcome

LEMMA ToldStep ==
  ASSUME IInv, [Next]_vars
  PROVE  LeavesTold /\ EndsAsTold
<1> USE DEF LeavesTold, EndsAsTold, env, stream, failure, Go, Raise, Deadline, Waits, Checks
<1>0. tame => line.count \in {"none", "valid", "invalid"} /\ line.kind # "digits" /\ tokens # "huge"
  BY DEF IInv, Running, Manageable
<1>1. ASSUME CheckPasses \/ CheckFails PROVE LeavesTold /\ EndsAsTold
  BY <1>1 DEF CheckPasses, CheckFails, FailsAt
<1>2. ASSUME Connected \/ Sent \/ Answered \/ Breaks \/ StreamEnds \/ ReadBody
      PROVE  LeavesTold /\ EndsAsTold
  BY <1>2 DEF Connected, Sent, Answered, Breaks, StreamEnds, ReadBody
<1>3. ASSUME HeaderRefused \/ Inspect \/ NextLine PROVE LeavesTold /\ EndsAsTold
  BY <1>3 DEF HeaderRefused, Inspect, NextLine
<1>4. ASSUME BadLine PROVE LeavesTold /\ EndsAsTold
  <2>1. /\ pc = "line" /\ UNCHANGED <<legal, tame, cancelled, expired>>
        /\ pc' = "consumer" \/ (pc' = "finally" /\ ~tame)
    <3>1. CASE line.kind \in {"malformed", "scalar"}
      BY <1>4, <3>1 DEF BadLine
    <3>2. CASE line.kind = "digits"
      BY <1>0, <1>4, <3>2 DEF BadLine
    <3> QED
      BY <1>4, <3>1, <3>2 DEF BadLine
  <2> QED
    BY <2>1
<1>5. ASSUME OllamaDone PROVE LeavesTold /\ EndsAsTold
  <2>1. /\ pc = "line" /\ UNCHANGED <<legal, tame, cancelled, expired>>
        /\ pc' \in {"consumer", "final"} \/ (pc' = "finally" /\ ~tame)
    <3>1. CASE ~Heard \/ line.count \in {"none", "invalid"}
      BY <1>5, <3>1 DEF OllamaDone
    <3>2. CASE Heard /\ line.count = "huge"
      BY <1>0, <1>5, <3>2 DEF OllamaDone
    <3>3. CASE Heard /\ line.count = "valid"
      BY <1>5, <3>3 DEF OllamaDone
    <3>4. line.count \in {"none", "valid", "invalid", "huge"}
      BY DEF IInv, TypeInv, TypeOK, Line
    <3> QED
      BY <3>1, <3>2, <3>3, <3>4
  <2> QED
    BY <2>1
<1>6. ASSUME OllamaChunk \/ OpenAIChunk \/ OpenAIDone PROVE LeavesTold /\ EndsAsTold
  BY <1>6 DEF OllamaChunk, OpenAIChunk, OpenAIDone
<1>7. ASSUME StreamOver PROVE LeavesTold /\ EndsAsTold
  BY <1>0, <1>7 DEF StreamOver
<1>8. ASSUME ConsumeFails \/ Finish \/ Leave PROVE LeavesTold /\ EndsAsTold
  BY <1>8 DEF ConsumeFails, Salvage, Finish, Leave
<1>9. ASSUME Handle PROVE LeavesTold /\ EndsAsTold
  <2>1. pc = "handler" /\ pc' = "finally" /\ UNCHANGED <<legal, tame, cancelled, expired>>
    BY <1>9 DEF Handle, Handled
  <2>2. CASE cancelled
    <3>1. Deadline = "cancelled"
      BY <2>2
    <3>2. raising' = "cancelled"
      <4> HIDE DEF Deadline
      <4> QED
        BY <1>9, <3>1 DEF Handle, Handled
    <3> QED
      BY <2>1, <3>2
  <2>3. CASE ~cancelled /\ expired
    <3>1. Deadline = "timeout"
      BY <2>3
    <3>2. raising' = "timeout"
      <4> HIDE DEF Deadline
      <4> QED
        BY <1>9, <3>1 DEF Handle, Handled
    <3> QED
      BY <2>1, <2>3, <3>2
  <2>4. CASE ~cancelled /\ ~expired
    BY <2>1, <2>4
  <2> QED
    BY <2>2, <2>3, <2>4
<1>10. ASSUME Cancel \/ Expire PROVE LeavesTold /\ EndsAsTold
  BY <1>10 DEF Cancel, Expire
<1>11. ASSUME NEW size \in 1..MaxLine + 1, ReadLine(size) PROVE LeavesTold /\ EndsAsTold
  BY <1>11 DEF ReadLine, TakeLine
<1>12. ASSUME UNCHANGED vars PROVE LeavesTold /\ EndsAsTold
  BY <1>12 DEF vars
<1> QED
  BY <1>1, <1>2, <1>3, <1>4, <1>5, <1>6, <1>7, <1>8, <1>9, <1>10, <1>11, <1>12 DEF Next, Peer, Own

\* Nothing that comes after the cancellation or the deadline becomes a success,
\* an error or a partial answer: the outer handlers and the last check come
\* after whatever else may happen (http_adapters.py:110-126).
THEOREM NothingBeatsTheChecks == Spec => [][LeavesTold /\ EndsAsTold]_vars
<1>1. IInv /\ [Next]_vars => [LeavesTold /\ EndsAsTold]_vars
  BY ToldStep
<1> QED
  BY <1>1, Handlers, PTL DEF Spec
=============================================================================
