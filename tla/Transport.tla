----------------------------- MODULE Transport -----------------------------
(***************************************************************************)
(* BoundedConnection (benchmark/transport.py): name resolution in a        *)
(* subprocess, the connection to one of the addresses, the TLS handshake   *)
(* and the sending of a request, up to the close by the adapter.           *)
(*                                                                         *)
(* The resolver, the peers and the caller who cancels are external.  No    *)
(* call blocks: communicate() and select() give up after a moment, and     *)
(* each round of a loop begins with a check of the deadline.               *)
(***************************************************************************)
EXTENDS Naturals, FiniteSets

CONSTANTS
  MaxAddresses,  \* how many addresses a name resolves to at most: 64 in _RESOLVE
  Chunks         \* how many calls of send() a request takes

ASSUME SizeAssumption == MaxAddresses \in Nat \ {0} /\ Chunks \in Nat \ {0}

VARIABLES
  literal,    \* is the host an address?
  tls,        \* is the scheme https?
  peer,       \* what is at each address
  pc,         \* where the connection is
  resolver,   \* the subprocess
  known,      \* how many addresses there are
  at,         \* the one being tried
  open,       \* the addresses with an open socket
  connected,  \* has connect() returned?
  sent,       \* chunks sent
  cancelled,  \* cancel.is_set()
  expired,    \* has the timeout passed?
  noticed,    \* history: what the last failed check raised
  late,       \* history: operations on a socket after the deadline
  raising     \* the exception on its way

endpoint == <<literal, tls, peer>>
clock    == <<cancelled, expired>>
names    == <<resolver, known>>
socket   == <<at, open, connected>>
vars     == <<endpoint, pc, names, socket, sent, clock, noticed, late, raising>>

Addresses == 1..MaxAddresses

\* No socket can be made for an unsupported family; a closed peer refuses, an
\* untrusted one has no valid certificate; any of them may be silent for ever.
Kinds == {"unsupported", "closed", "untrusted", "good"}

Listens(i) == peer[i] \in {"untrusted", "good"}
Good(i)    == peer[i] = "good" \/ (peer[i] = "untrusted" /\ ~tls)

Resolving == {"ask", "poll", "answer"}
Dialing   == {"dial", "wait", "look", "hello", "shake", "stall"}
Sending   == {"write", "push", "block"}
Places    == Resolving \cup Dialing \cup Sending \cup {"start", "reap", "next", "ended", "closed"}

\* check_deadline(): what a check raises now.
Deadline == IF cancelled THEN "cancelled" ELSE IF expired THEN "timeout" ELSE "none"

Go(here, there) == pc = here /\ pc' = there

\* An operation on a socket.
Touch == late' = IF Deadline = "none" THEN late ELSE late + 1

Init ==
  /\ literal \in BOOLEAN /\ tls \in BOOLEAN /\ peer \in [Addresses -> Kinds]
  /\ pc = "start" /\ resolver = "none" /\ known = 0
  /\ at = 0 /\ open = {} /\ connected = FALSE /\ sent = 0
  /\ cancelled = FALSE /\ expired = FALSE
  /\ noticed = "none" /\ late = 0 /\ raising = "none"

Exit(error, there, left) ==
  /\ raising' = error
  /\ pc' = IF pc \in Resolving THEN "reap" ELSE there
  /\ open' = left

\* Mutant: an AdapterError is taken for an OSError, and the next address tried.
LeaveForNext(error) ==
  LET swallowed == pc \in Dialing /\ error \in {"cancelled", "timeout"}
  IN Exit(IF swallowed THEN "none" ELSE error, IF swallowed THEN "next" ELSE "ended",
          IF pc \in Dialing THEN open \ {at} ELSE open)

\* The except and finally clauses that an exception passes on its way out.
Leave(error) == Exit(error, "ended", IF pc \in Dialing THEN open \ {at} ELSE open)
-----------------------------------------------------------------------------
(* The checks, each before an operation *)

Rounds == {<<"ask", "poll">>, <<"wait", "look">>, <<"hello", "shake">>, <<"stall", "hello">>,
           <<"write", "push">>, <<"block", "write">>}

PassIf(ok) ==
  /\ \E round \in Rounds : Go(round[1], round[2])
  /\ ok
  /\ UNCHANGED <<endpoint, names, socket, sent, clock, noticed, late, raising>>

\* Mutant: _wait() does not check.
PassInWait == PassIf(Deadline = "none" \/ pc \in {"wait", "stall", "block"})

CheckPasses == PassIf(Deadline = "none")

CheckFails ==
  /\ pc \in {round[1] : round \in Rounds} \cup {"answer", "next"}
  /\ pc = "next" => at < known
  /\ Deadline # "none"
  /\ Leave(Deadline)
  /\ noticed' = Deadline
  /\ UNCHANGED <<endpoint, names, at, connected, sent, clock, late>>
-----------------------------------------------------------------------------
(* _addresses *)

Literal ==
  /\ Go("start", "next") /\ literal
  /\ known' = 1
  /\ UNCHANGED <<endpoint, resolver, socket, sent, clock, noticed, late, raising>>

StartResolver ==
  /\ Go("start", "ask") /\ ~literal
  /\ resolver' = "running"
  /\ UNCHANGED <<endpoint, known, socket, sent, clock, noticed, late, raising>>

CannotStartResolver ==
  /\ pc = "start" /\ ~literal
  /\ Leave("os")
  /\ UNCHANGED <<endpoint, names, at, connected, sent, clock, noticed, late>>

\* The subprocess ends, with addresses or without.
ResolverEnds ==
  /\ resolver = "running"
  /\ resolver' \in {"resolved", "failed"}
  /\ UNCHANGED <<endpoint, pc, known, socket, sent, clock, noticed, late, raising>>

\* communicate() waits for the end of the subprocess and reaps it.
Communicate ==
  /\ Go("poll", "answer") /\ resolver \in {"resolved", "failed"}
  /\ IF resolver = "resolved" THEN known' \in Addresses ELSE UNCHANGED known
  /\ resolver' = "reaped"
  /\ UNCHANGED <<endpoint, socket, sent, clock, noticed, late, raising>>

\* Mutant: communicate() without a timeout.
NeverStopsWaiting ==
  /\ Go("poll", "poll") /\ resolver = "running"
  /\ UNCHANGED <<endpoint, names, socket, sent, clock, noticed, late, raising>>

StillRunning ==
  /\ Go("poll", "ask") /\ resolver = "running"
  /\ UNCHANGED <<endpoint, names, socket, sent, clock, noticed, late, raising>>

Answer ==
  /\ pc = "answer" /\ Deadline = "none"
  /\ IF known = 0 THEN Leave("os") ELSE pc' = "reap" /\ UNCHANGED <<open, raising>>
  /\ UNCHANGED <<endpoint, names, at, connected, sent, clock, noticed, late>>

EndResolver(kill) ==
  /\ pc = "reap"
  /\ resolver' = IF resolver = "running" /\ ~kill THEN resolver ELSE "reaped"
  /\ pc' = IF raising = "none" THEN "next" ELSE "ended"
  /\ UNCHANGED <<endpoint, known, socket, sent, clock, noticed, late, raising>>

\* Mutant: a resolver that still runs is left alone.
Abandon == EndResolver(FALSE)

\* The finally clause: kill() if it runs, then communicate().
Reap == EndResolver(TRUE)
-----------------------------------------------------------------------------
(* connect *)

TryUpTo(last) ==
  /\ Go("next", "dial") /\ at < last /\ Deadline = "none"
  /\ at' = at + 1 /\ peer[at'] # "unsupported"
  /\ open' = open \cup {at'}
  /\ UNCHANGED <<endpoint, names, connected, sent, clock, noticed, late, raising>>

TryNext == TryUpTo(known)

\* socket() is outside the try block: its error is not one of the address.
NoSocket ==
  /\ pc = "next" /\ at < known /\ Deadline = "none"
  /\ peer[at + 1] = "unsupported"
  /\ Leave("os")
  /\ UNCHANGED <<endpoint, names, at, connected, sent, clock, noticed, late>>

AllFailed ==
  /\ pc = "next" /\ at = known
  /\ Leave("os")
  /\ UNCHANGED <<endpoint, names, at, connected, sent, clock, noticed, late>>

\* connect_ex() on a socket that does not block.
Dial ==
  /\ pc = "dial"
  /\ pc' = "wait"
  /\ Touch
  /\ UNCHANGED <<endpoint, names, socket, sent, clock, noticed, raising>>

NotReady ==
  /\ \/ Go("look", "wait") \/ Go("shake", "stall") \/ Go("push", "block")
  /\ Touch
  /\ UNCHANGED <<endpoint, names, socket, sent, clock, noticed, raising>>

\* Connected, at once or after a wait; without TLS this is the end of it.
JoinIf(listens) ==
  /\ pc \in {"dial", "look"} /\ listens
  /\ pc' = IF tls THEN "hello" ELSE "write"
  /\ connected' = ~tls
  /\ Touch
  /\ UNCHANGED <<endpoint, names, at, open, sent, clock, noticed, raising>>

\* Mutant: a socket that is ready for writing is connected.
JoinWhenReady == JoinIf(TRUE)

Join == JoinIf(Listens(at))

Handshake ==
  /\ Go("shake", "write") /\ Good(at)
  /\ connected' = TRUE
  /\ Touch
  /\ UNCHANGED <<endpoint, names, at, open, sent, clock, noticed, raising>>

\* Mutant: an address that fails is the end.
GiveUp ==
  /\ \/ pc \in {"dial", "look"} /\ ~Listens(at)
     \/ pc = "shake" /\ ~Good(at)
  /\ Leave("os")
  /\ Touch
  /\ UNCHANGED <<endpoint, names, at, connected, sent, clock, noticed>>

\* except OSError: the next address is tried.
Drop ==
  /\ \/ pc \in {"dial", "look"} /\ ~Listens(at)
     \/ pc = "shake" /\ ~Good(at)
  /\ pc' = "next" /\ open' = open \ {at}
  /\ Touch
  /\ UNCHANGED <<endpoint, names, at, connected, sent, clock, noticed, raising>>
-----------------------------------------------------------------------------
(* send, and the close by the adapter *)

Push ==
  /\ pc = "push"
  /\ sent' = sent + 1
  /\ pc' = IF sent' = Chunks THEN "ended" ELSE "write"
  /\ Touch
  /\ UNCHANGED <<endpoint, names, socket, clock, noticed, raising>>

\* The peer is gone, or send() took nothing.
PushFails ==
  /\ pc = "push"
  /\ Leave("os")
  /\ Touch
  /\ UNCHANGED <<endpoint, names, at, connected, sent, clock, noticed>>

\* connection.close(): the connection has a socket once connect() returned it.
Close ==
  /\ Go("ended", "closed")
  /\ open' = IF connected THEN open \ {at} ELSE open
  /\ UNCHANGED <<endpoint, names, at, connected, sent, clock, noticed, late, raising>>
-----------------------------------------------------------------------------
(* Around it *)

Interrupt ==
  /\ pc \notin {"start", "reap", "ended", "closed"}
  /\ Leave("interrupt")
  /\ UNCHANGED <<endpoint, names, at, connected, sent, clock, noticed, late>>

Cancel ==
  /\ ~cancelled /\ cancelled' = TRUE
  /\ UNCHANGED <<endpoint, pc, names, socket, sent, expired, noticed, late, raising>>

Expire ==
  /\ ~expired /\ expired' = TRUE
  /\ UNCHANGED <<endpoint, pc, names, socket, sent, cancelled, noticed, late, raising>>

Program ==
  \/ CheckPasses \/ CheckFails
  \/ Literal \/ StartResolver \/ CannotStartResolver \/ Communicate \/ StillRunning \/ Answer \/ Reap
  \/ TryNext \/ NoSocket \/ AllFailed \/ Dial \/ NotReady \/ Join \/ Handshake \/ Drop
  \/ Push \/ PushFails \/ Close

Next == Program \/ ResolverEnds \/ Interrupt \/ Cancel \/ Expire

Spec == Init /\ [][Next]_vars

\* The process runs and the clock moves on; nobody has to answer.
FairSpec == Spec /\ WF_vars(Program) /\ WF_vars(Expire)
-----------------------------------------------------------------------------
TypeOK ==
  /\ literal \in BOOLEAN /\ tls \in BOOLEAN /\ peer \in [Addresses -> Kinds]
  /\ pc \in Places /\ resolver \in {"none", "running", "resolved", "failed", "reaped"}
  /\ known \in 0..MaxAddresses /\ at \in 0..known /\ open \subseteq Addresses
  /\ connected \in BOOLEAN /\ sent \in 0..Chunks
  /\ cancelled \in BOOLEAN /\ expired \in BOOLEAN
  /\ noticed \in {"none", "cancelled", "timeout"} /\ late \in Nat
  /\ raising \in {"none", "os", "cancelled", "timeout", "interrupt"}

\* The resolver is gone before a socket is opened, and a socket before the
\* next one is.  However the request ends, nothing is left of it
\* (docs/benchmarks.md:26-27, test_real_stalled_resolver_is_terminated_and_reaped).
NothingLeft ==
  /\ open \subseteq {at}
  /\ pc \in {"ended", "closed"} \/ open # {} => resolver \in {"none", "reaped"}
  /\ pc = "closed" => open = {}

\* What the request is sent to is the first address that works, and one whose
\* certificate was verified if the scheme is https; a connection fails only
\* when none is left that works, or when no socket can be made for the next.
AddressesInOrder ==
  /\ connected => Good(at) /\ \A i \in 1..(at - 1) : ~Good(i)
  /\ raising = "os" /\ ~connected =>
       /\ \A i \in 1..at : ~Good(i)
       /\ at < known => peer[at + 1] = "unsupported"

\* Once the deadline has passed or the request is cancelled, a socket is used
\* once more at most: the deadline covers DNS, TCP, TLS and the writes
\* (docs/benchmarks.md:24-26).  And an address that fails is not worth an
\* exception, a deadline is: what a check raised is what the adapter gets
\* (test_deadline_and_cancellation_are_distinct).
DeadlineHolds ==
  /\ late <= 1
  /\ pc \in {"ended", "closed"} /\ noticed # "none" => raising = noticed

\* A resolver or a peer that never answers does not keep the request.
TransportEnds == <>(pc = "closed")
=============================================================================
