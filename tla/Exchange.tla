------------------------------ MODULE Exchange ------------------------------
(***************************************************************************)
(* One request of an HTTP adapter: _HttpAdapter._exchange with the         *)
(* _consume of the Ollama or of the OpenAI-compatible adapter, or with the *)
(* JSON body of a metadata request (benchmark/http_adapters.py), and the   *)
(* limits on a response (benchmark/response_limits.py).                    *)
(*                                                                         *)
(* The peer is external: at each wait it does something or stays silent.   *)
(* The deadline passes and the cancellation event is set at any moment,    *)
(* and the code notices at its checks only: a check is a step of its own,  *)
(* made before each wait and repeated while the wait lasts (connect, send  *)
(* and the reader below the HTTP parser poll).                             *)
(***************************************************************************)
EXTENDS Naturals, FiniteSets

CONSTANTS
  MaxBytes,  \* MAX_RESPONSE_BYTES
  MaxLine    \* MAX_LINE_BYTES

ASSUME LimitAssumption == MaxBytes \in Nat /\ MaxLine \in Nat

VARIABLES
  protocol,   \* of the adapter: "ollama" or "openai"
  legal,      \* does http.client accept the request's headers?
  tame,       \* do int() and float() accept the numbers in the response?
  metadata,   \* is it a request of _json(), for a version or a list of models?
  pc,         \* where the exchange is
  cancelled,  \* cancel.is_set()
  expired,    \* has the timeout passed since the start?
  line,       \* the line being handled
  total,      \* the bytes of the lines read
  kept,       \* the bytes of raw, whose digest the sample carries
  text,       \* text_seen, content_seen: has any text come?
  tokens,     \* completion_tokens
  done,       \* done_seen
  result,     \* what consume() returned
  raising,    \* the exception on its way
  sample,     \* its sample
  open,       \* what is open: the connection, the response
  outcome     \* as what the engine classifies the request

vars == <<protocol, legal, tame, metadata, pc, cancelled, expired, line, total, kept, text, tokens,
          done, result, raising, sample, open, outcome>>

env     == <<protocol, legal, tame, metadata, cancelled, expired>>
stream  == <<line, total, kept, text, tokens, done>>
failure == <<raising, sample>>

\* What a line is to the parser, the text in it, and the counts: a number may
\* be as expected, of the wrong type or sign, or too large for a float.
Line == [kind   : {"noise", "malformed", "digits", "scalar", "object", "end"},
         text   : BOOLEAN,
         count  : {"none", "valid", "invalid", "huge"}]

NoLine == [kind |-> "noise", text |-> FALSE, count |-> "none"]

Lines ==
  {l \in Line :
     /\ l.kind \notin {"object", "end"} => ~l.text /\ l.count = "none"
     /\ protocol = "ollama" => l.kind # "noise"
     /\ protocol = "openai" /\ l.kind = "end" => ~l.text /\ l.count = "none"
     /\ tame => l.kind # "digits" /\ l.count # "huge"}

\* An AdapterError of the class that the engine counts as the outcome,
\* a TimeoutError or another OSError or HTTPException, or something else.
AdapterErrors == {"cancelled", "timeout", "partial", "error"}
Exceptions    == AdapterErrors \cup {"timedout", "io", "alien"}

Waits  == {"connect", "send", "await", "read", "body"}
Checks == {"begin", "connected", "answered"}
Places == Waits \cup Checks \cup
          {"inspect", "lines", "line", "eof", "consumer", "final", "handler", "finally", "ended"}

\* check_deadline(): what a check raises now.
Deadline == IF cancelled THEN "cancelled" ELSE IF expired THEN "timeout" ELSE "none"

Go(here, there) == pc = here /\ pc' = there

Raise(exception, handler) ==
  /\ raising' = exception /\ sample' = "none"
  /\ pc' = handler

Init ==
  /\ protocol \in {"ollama", "openai"}
  /\ legal \in IF protocol = "openai" THEN BOOLEAN ELSE {TRUE}
  /\ tame \in BOOLEAN
  /\ metadata \in IF protocol = "ollama" THEN BOOLEAN ELSE {FALSE}
  /\ pc = "begin" /\ cancelled = FALSE /\ expired = FALSE
  /\ line = NoLine /\ total = 0 /\ kept = 0
  /\ text = FALSE /\ tokens = "none" /\ done = FALSE
  /\ result = "none" /\ raising = "none" /\ sample = "none"
  /\ open = {} /\ outcome = "none"
-----------------------------------------------------------------------------
(* The checks of _exchange and of the waits below it *)

CheckPasses ==
  /\ \/ Go("begin", "connect") /\ open' = {"connection"}
     \/ Go("connected", "send") /\ UNCHANGED open
     \/ Go("answered", "inspect") /\ UNCHANGED open
  /\ Deadline = "none"
  /\ UNCHANGED <<env, stream, failure, result, outcome>>

FailsAt(places) ==
  /\ pc \in places
  /\ Deadline # "none"
  /\ Raise(Deadline, IF pc = "read" THEN "consumer" ELSE "handler")
  /\ UNCHANGED <<env, stream, result, open, outcome>>

\* Mutant: the reader does not check while recv() has nothing.
FailsUnlessReading == FailsAt((Checks \cup Waits) \ {"read", "body"})

\* A wait in consume() raises through its except clauses.
CheckFails == FailsAt(Checks \cup Waits)
-----------------------------------------------------------------------------
(* The peer, while the exchange waits for it *)

Connected ==
  /\ Go("connect", "connected")
  /\ UNCHANGED <<env, stream, failure, result, open, outcome>>

Sent ==
  /\ Go("send", "await")
  /\ UNCHANGED <<env, stream, failure, result, open, outcome>>

Answered ==
  /\ Go("await", "answered")
  /\ open' = open \cup {"response"}
  /\ UNCHANGED <<env, stream, failure, result, outcome>>

\* recv() tells a timeout from silence no more than the loop around it does;
\* only send() lets one through.
Breaks ==
  /\ pc \in Waits
  /\ \/ Raise("io", IF pc = "read" THEN "consumer" ELSE "handler")
     \/ pc = "send" /\ Raise("timedout", "handler")
  /\ UNCHANGED <<env, stream, result, open, outcome>>

\* bounded_lines(): the limits are looked at before the line is used.
TakeLine(size, limited) ==
  /\ pc = "read"
  /\ total' = total + size
  /\ IF size > MaxLine \/ limited > MaxBytes
     THEN /\ Raise("error", "consumer")
          /\ UNCHANGED <<line, kept>>
     ELSE /\ pc' = "line"
          /\ line' \in Lines
          /\ kept' = kept + size
          /\ UNCHANGED failure
  /\ UNCHANGED <<env, text, tokens, done, result, open, outcome>>

ReadLine(size) == TakeLine(size, total + size)

StreamEnds ==
  /\ Go("read", "eof")
  /\ UNCHANGED <<env, stream, failure, result, open, outcome>>

\* bounded_body() and json.loads() of a metadata request.
ReadBody ==
  /\ pc = "body"
  /\ \/ pc' = "final" /\ result' = "complete" /\ UNCHANGED failure
     \/ Raise("error", "handler") /\ UNCHANGED result
  /\ UNCHANGED <<env, stream, open, outcome>>

Peer ==
  \/ Connected \/ Sent \/ Answered \/ Breaks \/ StreamEnds \/ ReadBody
  \/ \E size \in 1..MaxLine + 1 : ReadLine(size)
-----------------------------------------------------------------------------
(* The exchange's own steps *)

\* http.client refuses the value of Authorization before it sends anything.
HeaderRefused ==
  /\ pc = "send" /\ ~legal
  /\ Raise("alien", "finally")
  /\ UNCHANGED <<env, stream, result, open, outcome>>

\* reject_unsafe_response(): the status and Content-Length.
Inspect ==
  /\ pc = "inspect"
  /\ \/ pc' = (IF metadata THEN "body" ELSE "lines") /\ UNCHANGED failure
     \/ Raise("error", "handler")
  /\ UNCHANGED <<env, stream, result, open, outcome>>

\* The head of bounded_lines(): it looks at the event, not at the deadline.
NextLine ==
  /\ pc = "lines"
  /\ IF cancelled
     THEN Raise("cancelled", "consumer")
     ELSE pc' = "read" /\ UNCHANGED failure
  /\ UNCHANGED <<env, stream, result, open, outcome>>

\* json.loads() of a number with too many digits raises a plain ValueError.
BadLine ==
  /\ pc = "line"
  /\ CASE line.kind = "malformed" -> Raise(IF text THEN "partial" ELSE "error", "consumer")
       [] line.kind = "scalar"    -> Raise("error", "consumer")
       [] line.kind = "digits"    -> Raise("alien", "finally")
       [] OTHER                   -> FALSE
  /\ UNCHANGED <<env, stream, result, open, outcome>>

Heard == text \/ line.text

OllamaChunk ==
  /\ pc = "line" /\ protocol = "ollama" /\ line.kind = "object"
  /\ pc' = "lines"
  /\ text' = Heard
  /\ UNCHANGED <<env, line, total, kept, tokens, done, failure, result, open, outcome>>

\* Mutant: the counts are not looked at.
OllamaTrusted ==
  /\ pc = "line" /\ protocol = "ollama" /\ line.kind = "end"
  /\ pc' = "final"
  /\ text' = Heard
  /\ result' = IF Heard /\ line.count = "valid" THEN "complete" ELSE "incomplete"
  /\ UNCHANGED <<env, line, total, kept, tokens, done, failure, open, outcome>>

\* The chunk with `done`: its counts must be usable, and text have come.
OllamaDone ==
  /\ pc = "line" /\ protocol = "ollama" /\ line.kind = "end"
  /\ text' = Heard
  /\ CASE ~Heard \/ line.count \in {"none", "invalid"} ->
            Raise("error", "consumer") /\ UNCHANGED result
       [] Heard /\ line.count = "huge" -> Raise("alien", "finally") /\ UNCHANGED result
       [] Heard /\ line.count = "valid" ->
            pc' = "final" /\ result' = "complete" /\ UNCHANGED failure
  /\ UNCHANGED <<env, line, total, kept, tokens, done, open, outcome>>

OpenAIChunk ==
  /\ pc = "line" /\ protocol = "openai" /\ line.kind \in {"noise", "object"}
  /\ pc' = "lines"
  /\ text' = Heard
  /\ tokens' = IF line.count \in {"valid", "huge"} THEN line.count ELSE tokens
  /\ UNCHANGED <<env, line, total, kept, done, failure, result, open, outcome>>

\* [DONE] leaves the loop, and what follows it is not read.
OpenAIDone ==
  /\ pc = "line" /\ protocol = "openai" /\ line.kind = "end"
  /\ pc' = "eof"
  /\ done' = TRUE
  /\ UNCHANGED <<env, line, total, kept, text, tokens, failure, result, open, outcome>>

Measurable == protocol = "openai" /\ done /\ text /\ tokens # "none"

\* The loop over the lines is over.
StreamOver ==
  /\ pc = "eof"
  /\ CASE ~Measurable ->
            Raise(IF text THEN "partial" ELSE "error", "consumer") /\ UNCHANGED result
       [] Measurable /\ tokens = "huge" -> Raise("alien", "finally") /\ UNCHANGED result
       [] Measurable /\ tokens # "huge" ->
            pc' = "final" /\ result' = "complete" /\ UNCHANGED failure
  /\ UNCHANGED <<env, stream, open, outcome>>

Salvage(rescued) ==
  /\ Go("consumer", "handler")
  /\ sample' = IF rescued THEN "incomplete" ELSE sample
  /\ raising' = IF raising = "io" /\ text THEN "partial" ELSE raising
  /\ UNCHANGED <<env, stream, result, open, outcome>>

\* Mutant: only an exception that is partial keeps the text's sample.
SalvagePartial == Salvage(raising \in {"io", "partial"} /\ text)

\* The except clauses of consume(): text that has come is worth a sample.
ConsumeFails == Salvage(text)

\* Mutant: no last check.
FinishAnyway ==
  /\ Go("final", "finally")
  /\ sample' = result
  /\ UNCHANGED <<env, stream, result, open, outcome, raising>>

\* The last check drops even a complete result.
Finish ==
  /\ pc = "final"
  /\ IF Deadline = "none"
     THEN pc' = "finally" /\ sample' = result /\ UNCHANGED raising
     ELSE Raise(Deadline, "handler")
  /\ UNCHANGED <<env, stream, result, open, outcome>>

Handled(check, broken) ==
  /\ Go("handler", "finally")
  /\ raising' = IF check # "none" THEN check
                ELSE CASE raising = "timedout" -> "timeout"
                       [] raising = "io"       -> broken
                       [] OTHER                -> raising
  /\ UNCHANGED <<env, stream, sample, result, open, outcome>>

\* Mutants: the handlers do not check again; a broken connection has none.
HandleUnchecked == Handled("none", "error")
HandleFewer     == Handled(Deadline, "io")

\* The except clauses of _exchange: each checks once more, so that what the
\* deadline or the event caused is reported as that.
Handle == Handled(Deadline, "error")

\* The finally: response and connection are closed, _active is forgotten.
Leave ==
  /\ Go("finally", "ended")
  /\ open' = {}
  /\ outcome' = IF raising = "none" THEN "success" ELSE raising
  /\ UNCHANGED <<env, stream, failure, result>>

Own ==
  \/ CheckPasses \/ CheckFails \/ HeaderRefused \/ Inspect \/ NextLine \/ BadLine
  \/ OllamaChunk \/ OllamaDone \/ OpenAIChunk \/ OpenAIDone \/ StreamOver
  \/ ConsumeFails \/ Finish \/ Handle \/ Leave
-----------------------------------------------------------------------------
(* The event and the clock *)

\* A metadata request has an event of its own, which nobody sets.
Cancel ==
  /\ pc # "ended" /\ ~metadata /\ ~cancelled
  /\ cancelled' = TRUE
  /\ UNCHANGED <<protocol, legal, tame, metadata, pc, expired, stream, failure, result, open, outcome>>

Expire ==
  /\ pc # "ended" /\ ~expired
  /\ expired' = TRUE
  /\ UNCHANGED <<protocol, legal, tame, metadata, pc, cancelled, stream, failure, result, open, outcome>>

Next == Peer \/ Own \/ Cancel \/ Expire

Spec == Init /\ [][Next]_vars

\* The exchange runs and time passes; the peer owes it nothing.
FairSpec == Spec /\ WF_vars(Own) /\ WF_vars(Expire)
-----------------------------------------------------------------------------
TypeOK ==
  /\ protocol \in {"ollama", "openai"}
  /\ legal \in BOOLEAN /\ tame \in BOOLEAN /\ metadata \in BOOLEAN
  /\ pc \in Places /\ cancelled \in BOOLEAN /\ expired \in BOOLEAN
  /\ line \in Line /\ total \in 0..MaxBytes + MaxLine + 1 /\ kept \in 0..MaxBytes
  /\ text \in BOOLEAN /\ tokens \in {"none", "valid", "huge"} /\ done \in BOOLEAN
  /\ result \in {"none", "incomplete", "complete"}
  /\ raising \in Exceptions \cup {"none"}
  /\ sample \in {"none", "incomplete", "complete"}
  /\ open \subseteq {"connection", "response"}
  /\ outcome \in Exceptions \cup {"none", "success"}

\* A request that http.client agrees to send is classified, whatever the peer
\* answers (docs/benchmarks.md:36-37).
EveryRequestClassified ==
  legal /\ pc = "ended" => outcome \in AdapterErrors \cup {"success"}

\* It is when Python can handle the numbers of the answer: run() then raises
\* nothing but AdapterErrors, whichever handlers an exception passes.
EveryAnswerClassified == tame => EveryRequestClassified

\* A request that failed after text had come keeps a sample of it, unless a
\* complete result was dropped at the last check (docs/benchmarks.md:39-40,
\* http_adapters.py:229-238) or no handler is for the failure.
TextKeepsSample ==
  pc = "ended" /\ text /\ outcome \notin {"success", "alien"} /\ result = "none" =>
    sample = "incomplete"

\* A stream without [DONE] is never a success, whatever it told of usage
\* (docs/benchmarks.md:45).
SuccessSawDone ==
  pc = "ended" /\ outcome = "success" /\ protocol = "openai" => done /\ tokens = "valid"

\* Once the event is set the request is cancelled and nothing else, however far
\* it had come, and one over its deadline is never reported as complete, broken
\* or partial: the outer handlers check again (http_adapters.py:116-126).
ChecksWin ==
  /\ legal /\ tame /\ cancelled /\ pc \notin {"finally", "ended"}
       ~> pc = "ended" /\ outcome = "cancelled"
  /\ legal /\ tame /\ expired /\ pc \notin {"finally", "ended"}
       ~> pc = "ended" /\ outcome \in {"timeout", "cancelled"}

\* However silent the peer, the request ends, with everything closed.
RequestEnds == <>(pc = "ended" /\ open = {})

\* An exception that no handler is for is no answer.
HasAnswered == pc = "ended" /\ outcome # "alien"

\* The exchange is an adapter the engine may rely on.
Contract == INSTANCE AdapterContract WITH
  answered  <- HasAnswered,
  outcome   <- IF HasAnswered THEN outcome ELSE "none",
  sample    <- IF HasAnswered THEN sample ELSE "none",
  requested <- cancelled

ContractSpec == Contract!Spec
=============================================================================
