------------------------------- MODULE Doctor -------------------------------
(***************************************************************************)
(* The active tests of a validator (validator_doctor/): the disk test in   *)
(* its temporary directory, the network and the clock test, run_live_doctor*)
(* which composes them, and the command around it (doctor_validator in     *)
(* cli.py), from its plan to its exit.                                     *)
(*                                                                         *)
(* The file system and the network are external: a call succeeds or fails. *)
(* The duration limit may be reached at any moment of the disk test, and   *)
(* the code looks at it between chunks.  The caller's after_chunk callback *)
(* may cancel the test, and Ctrl-C may come while a test runs.             *)
(***************************************************************************)
EXTENDS Naturals

CONSTANTS
  Chunks,     \* how many chunks disk_bytes has
  Attempts    \* network_attempts

ASSUME SizeAssumption == Chunks \in Nat \ {0} /\ Attempts \in Nat \ {0}

VARIABLES
  target,     \* the network target selected, as its name is to the resolver
  server,     \* the NTP server selected
  stuck,      \* is there something in the directory that cannot be removed?
  pc,         \* where the command is
  directory,  \* does the temporary directory exist?
  written,    \* chunks written
  read,       \* chunks read
  expired,    \* has max_duration_seconds passed?
  late,       \* history: chunks that ended after that
  cancelled,  \* has the callback raised DiskTestCancelledError?
  raising,    \* the exception on its way
  disk,       \* the three results
  network,
  clock,
  tried,      \* connection attempts made
  received,   \* and those that succeeded
  queried,    \* has the NTP query been sent?
  exit        \* how the command ended

setup   == <<target, server, stuck>>
files   == <<directory, written, read>>
timing  == <<expired, late>>
probes  == <<tried, received, queried>>
results == <<disk, network, clock>>
vars    == <<setup, pc, files, timing, cancelled, raising, results, probes, exit>>

\* A result has a status, and all of its metrics or not.
Status    == {"none", "pass", "warn", "fail", "unknown", "unsupported", "skipped"}
Result    == [status : Status, measured : BOOLEAN]
NoResult  == [status |-> "none", measured |-> FALSE]
Is(s)     == [status |-> s, measured |-> FALSE]
Scored(s) == [status |-> s, measured |-> TRUE]

Completed == {"pass", "warn", "fail"}

\* None selected, a name that can be looked up, or one that passes the options'
\* validators and cannot be encoded: a label that is empty or too long.
Names == {"none", "plain", "strange"}

Exits == {"running", "declined", "reported", "crashed", "interrupted"}

InDirectory == {"boundary", "open", "writing", "chunk", "synced", "reading", "block", "judge", "cleanup"}
Places      == InDirectory \cup {"plan", "root", "make", "left", "network", "clock", "report", "exited"}

\* The validator of a result: a completed status has all the metrics.
Acceptable(r) == r.status \in Completed => r.measured

Go(here, there) == pc = here /\ pc' = there

Init ==
  /\ target \in Names /\ server \in Names /\ stuck \in BOOLEAN
  /\ pc = "plan" /\ directory = FALSE /\ written = 0 /\ read = 0
  /\ expired = FALSE /\ late = 0 /\ cancelled = FALSE /\ raising = "none"
  /\ disk = NoResult /\ network = NoResult /\ clock = NoResult
  /\ tried = 0 /\ received = 0 /\ queried = FALSE
  /\ exit = "running"
-----------------------------------------------------------------------------
(* The command and its consent gate *)

Approve ==
  /\ Go("plan", "root")
  /\ UNCHANGED <<setup, files, timing, cancelled, raising, results, probes, exit>>

Decline ==
  /\ Go("plan", "exited")
  /\ exit' = "declined"
  /\ UNCHANGED <<setup, files, timing, cancelled, raising, results, probes>>
-----------------------------------------------------------------------------
(* run_disk_test *)

\* A result outside the with block goes to the caller at once.
RejectRoot ==
  /\ Go("root", "left")
  /\ disk' = Is("unsupported")
  /\ UNCHANGED <<setup, files, timing, cancelled, raising, network, clock, probes, exit>>

AcceptRoot ==
  /\ Go("root", "make")
  /\ UNCHANGED <<setup, files, timing, cancelled, raising, results, probes, exit>>

MakeDirectory ==
  /\ Go("make", "boundary")
  /\ directory' = TRUE
  /\ UNCHANGED <<setup, written, read, timing, cancelled, raising, results, probes, exit>>

MakeFails ==
  /\ Go("make", "left")
  /\ raising' = "os"
  /\ UNCHANGED <<setup, files, timing, cancelled, results, probes, exit>>

\* `return _result(...)` inside the with block: the result's validator may
\* refuse it, and either way the block's exit comes next.
Return(r) ==
  /\ pc' = "cleanup"
  /\ IF Acceptable(r)
     THEN disk' = r /\ UNCHANGED raising
     ELSE raising' = "validation" /\ UNCHANGED disk
  /\ UNCHANGED <<network, clock>>

RejectBoundary ==
  /\ pc = "boundary"
  /\ Return(Is("unsupported"))
  /\ UNCHANGED <<setup, files, timing, cancelled, probes, exit>>

AcceptBoundary ==
  /\ Go("boundary", "open")
  /\ UNCHANGED <<setup, files, timing, cancelled, raising, results, probes, exit>>

OpenFile ==
  /\ Go("open", "writing")
  /\ UNCHANGED <<setup, files, timing, cancelled, raising, results, probes, exit>>

\* Any call on the file system may fail.
DiskFails ==
  /\ Go(pc, "cleanup")
  /\ pc \in {"boundary", "open", "chunk", "synced", "block"}
  /\ raising' = "os"
  /\ UNCHANGED <<setup, files, timing, cancelled, results, probes, exit>>

\* The loops look at the clock before each chunk.
LimitStop ==
  /\ \/ pc = "writing" /\ written < Chunks
     \/ pc = "reading" /\ read < written
  /\ expired
  /\ Return(Is("warn"))
  /\ UNCHANGED <<setup, files, timing, cancelled, probes, exit>>

ChunkBegins(overdue) ==
  /\ \/ Go("writing", "chunk") /\ written < Chunks
     \/ Go("reading", "block") /\ read < written
  /\ ~expired \/ overdue
  /\ UNCHANGED <<setup, files, timing, cancelled, raising, results, probes, exit>>

\* Mutant: the clock is not looked at again once a chunk is written.
BeginOverdue == ChunkBegins(written > 0)

BeginChunk == ChunkBegins(FALSE)

\* A chunk is written or read in full, and after_chunk called.
EndChunk ==
  /\ \/ pc = "chunk" /\ written' = written + 1 /\ UNCHANGED <<directory, read>>
     \/ pc = "block" /\ read' = read + 1 /\ UNCHANGED <<directory, written>>
  /\ \/ /\ pc' = IF pc = "chunk" THEN "writing" ELSE "reading"
        /\ UNCHANGED <<cancelled, raising>>
     \/ pc' = "cleanup" /\ cancelled' = TRUE /\ raising' = "cancelled"
  /\ late' = IF expired THEN late + 1 ELSE late
  /\ UNCHANGED <<setup, expired, results, probes, exit>>

\* Mutant: the status is a completed one.
ShortReadWarns ==
  /\ pc = "block"
  /\ Return(Is("warn"))
  /\ UNCHANGED <<setup, files, timing, cancelled, probes, exit>>

\* The file is shorter than what was written to it.
ShortRead ==
  /\ pc = "block"
  /\ Return(Is("unknown"))
  /\ UNCHANGED <<setup, files, timing, cancelled, probes, exit>>

WritesEnd ==
  /\ Go("writing", "synced") /\ written = Chunks
  /\ UNCHANGED <<setup, files, timing, cancelled, raising, results, probes, exit>>

\* fsync() returned and the file is open for reading.
Synced ==
  /\ Go("synced", "reading")
  /\ UNCHANGED <<setup, files, timing, cancelled, raising, results, probes, exit>>

ReadsEnd ==
  /\ Go("reading", "judge") /\ read = written
  /\ UNCHANGED <<setup, files, timing, cancelled, raising, results, probes, exit>>

Judge ==
  /\ pc = "judge"
  /\ \E s \in Completed : Return(Scored(s))
  /\ UNCHANGED <<setup, files, timing, cancelled, probes, exit>>

CleanUp(removed) ==
  /\ Go("cleanup", "left") /\ ~stuck
  /\ directory' = ~removed
  /\ UNCHANGED <<setup, written, read, timing, cancelled, raising, results, probes, exit>>

\* Mutant: an exception leaves the directory behind.
RemoveIfReturned == CleanUp(raising = "none")

\* The with block removes its directory, whatever leaves it.
RemoveDirectory == CleanUp(TRUE)

\* rmtree() raises in place of whatever was on its way.
RemoveFails ==
  /\ Go("cleanup", "left") /\ stuck
  /\ raising' = "os"
  /\ UNCHANGED <<setup, files, timing, cancelled, results, probes, exit>>
-----------------------------------------------------------------------------
(* run_live_doctor *)

DiskDone ==
  /\ Go("left", "network")
  /\ raising \in {"none", "os"}
  /\ disk' = IF raising = "os" THEN Is("unsupported") ELSE disk
  /\ raising' = "none"
  /\ UNCHANGED <<setup, files, timing, cancelled, network, clock, probes, exit>>

\* Mutant: only the disk test is skipped.
DiskCancelledOnly ==
  /\ Go("left", "network")
  /\ raising = "cancelled"
  /\ disk' = Is("skipped")
  /\ raising' = "none"
  /\ UNCHANGED <<setup, files, timing, cancelled, network, clock, probes, exit>>

\* The disk test was cancelled: nothing else is to be run.
DiskCancelled ==
  /\ Go("left", "report")
  /\ raising = "cancelled"
  /\ disk' = Is("skipped") /\ network' = Is("skipped") /\ clock' = Is("skipped")
  /\ raising' = "none"
  /\ UNCHANGED <<setup, files, timing, cancelled, probes, exit>>

SkipNetwork ==
  /\ Go("network", "clock") /\ target = "none"
  /\ network' = Is("skipped")
  /\ UNCHANGED <<setup, files, timing, cancelled, raising, disk, clock, probes, exit>>

ProbeUpTo(limit) ==
  /\ pc = "network" /\ target = "plain" /\ tried < limit
  /\ tried' = tried + 1
  /\ received' \in {received, received + 1}
  /\ UNCHANGED <<setup, pc, files, timing, cancelled, raising, results, queried, exit>>

Probe == ProbeUpTo(Attempts)

\* What no layer of the command has a handler for.
Crash(e) ==
  /\ pc' = "exited" /\ exit' = "crashed" /\ raising' = e
  /\ UNCHANGED <<setup, files, timing, cancelled, results, probes>>

\* getaddrinfo() raises UnicodeError, which is no OSError.
ProbeRaises == pc = "network" /\ target = "strange" /\ Crash("unicode")

\* Half of the attempts lost is a failure; jitter alone is a warning.
StatusOf(lost) ==
  IF 2 * lost >= Attempts THEN {"fail"} ELSE IF lost > 0 THEN {"warn"} ELSE {"pass", "warn"}

JudgeNetwork ==
  /\ Go("network", "clock") /\ target = "plain" /\ tried = Attempts
  /\ \E s \in StatusOf(Attempts - received) :
       network' = IF received = 0 THEN Is("unknown") ELSE Scored(s)
  /\ UNCHANGED <<setup, files, timing, cancelled, raising, disk, clock, probes, exit>>

SkipClock ==
  /\ Go("clock", "report") /\ server = "none"
  /\ clock' = Is("skipped")
  /\ UNCHANGED <<setup, files, timing, cancelled, raising, disk, network, probes, exit>>

\* One query, no retry; the status follows the offset.
QueryClock ==
  /\ Go("clock", "report") /\ server # "none"
  /\ queried' = TRUE
  /\ \/ clock' = Is("unknown")
     \/ server = "plain" /\ \E s \in Completed : clock' = Scored(s)
  /\ UNCHANGED <<setup, files, timing, cancelled, raising, disk, network, tried, received, exit>>

\* sendto() raises TypeError for a host name it cannot encode.
QueryRaises == pc = "clock" /\ server = "strange" /\ Crash("encode")

Report ==
  /\ Go("report", "exited")
  /\ exit' = "reported"
  /\ UNCHANGED <<setup, files, timing, cancelled, raising, results, probes>>

\* What neither the service nor the command handles.
Escape ==
  /\ Go("left", "exited")
  /\ raising \in {"validation", "interrupt"}
  /\ exit' = IF raising = "interrupt" THEN "interrupted" ELSE "crashed"
  /\ UNCHANGED <<setup, files, timing, cancelled, raising, results, probes>>
-----------------------------------------------------------------------------
(* Around the command *)

\* Ctrl-C passes the with block, or ends a command that has left it.
Interrupt ==
  /\ \/ pc \in InDirectory \ {"cleanup"} /\ pc' = "cleanup" /\ UNCHANGED exit
     \/ pc \in {"network", "clock"} /\ pc' = "exited" /\ exit' = "interrupted"
  /\ raising' = "interrupt"
  /\ UNCHANGED <<setup, files, timing, cancelled, results, probes>>

Expire ==
  /\ ~expired
  /\ pc \in InDirectory \ {"boundary", "open"}
  /\ expired' = TRUE
  /\ UNCHANGED <<setup, pc, files, late, cancelled, raising, results, probes, exit>>

DiskTest ==
  \/ RejectRoot \/ AcceptRoot \/ MakeDirectory \/ MakeFails \/ RejectBoundary
  \/ AcceptBoundary \/ OpenFile \/ DiskFails \/ LimitStop \/ BeginChunk \/ EndChunk
  \/ ShortRead \/ WritesEnd \/ Synced \/ ReadsEnd \/ Judge \/ RemoveDirectory \/ RemoveFails

Program ==
  \/ Approve \/ Decline \/ DiskTest \/ DiskDone \/ DiskCancelled
  \/ SkipNetwork \/ Probe \/ ProbeRaises \/ JudgeNetwork
  \/ SkipClock \/ QueryClock \/ QueryRaises \/ Report \/ Escape

Next == Program \/ Interrupt \/ Expire

Spec == Init /\ [][Next]_vars
-----------------------------------------------------------------------------
TypeOK ==
  /\ target \in Names /\ server \in Names /\ stuck \in BOOLEAN
  /\ pc \in Places /\ directory \in BOOLEAN
  /\ written \in 0..Chunks /\ read \in 0..Chunks
  /\ expired \in BOOLEAN /\ late \in Nat /\ cancelled \in BOOLEAN
  /\ raising \in {"none", "os", "cancelled", "validation", "interrupt", "unicode", "encode"}
  /\ disk \in Result /\ network \in Result /\ clock \in Result
  /\ tried \in 0..Attempts /\ received \in 0..Attempts /\ queried \in BOOLEAN
  /\ exit \in Exits

\* However the disk test ends, its directory is gone before anything else is
\* done, if it can be removed at all (docs/active-tests.md:16-17).
DirectoryRemoved == ~stuck /\ pc \notin InDirectory => ~directory

\* A test that is told to stop stops.  Once the disk test is cancelled nothing
\* is sent, unless the OSError of a stuck directory replaces the cancellation
\* (service.py:84-89); and once the limit is reached the chunk in progress is
\* the last one: the read loop does not start afresh (disk.py:65,86).
StopsWhenTold == (cancelled /\ ~stuck => tried = 0 /\ ~queried) /\ late <= 1

\* What the network test says is what it counted: unknown for no answer,
\* pass only without loss, never a pass or a warning at half the attempts lost
\* (docs/active-tests.md:25-26, network.py:44-70).
NetworkHonest ==
  network.status \notin {"none", "skipped"} =>
    /\ tried = Attempts
    /\ network.status = "unknown" <=> received = 0
    /\ network.status = "pass" => received = Attempts
    /\ network.status \in {"pass", "warn"} => 2 * received > Attempts

Reported ==
  /\ exit = "reported"
  /\ \A r \in {disk, network, clock} : r.status # "none" /\ Acceptable(r)
  /\ NetworkHonest

\* An approved command was neither interrupted nor given a name that cannot be
\* encoded.
Ordinary == exit \notin {"declined", "interrupted"} /\ "strange" \notin {target, server}

\* An approved command that is not interrupted ends in a report, with a result
\* its own model accepts for each test and a network result that is what was
\* counted, if its disk test was over in time and the names it was given can be
\* looked up (network.py:27 and clock.py:36 catch OSError only).
ReportedInTime == pc = "exited" /\ Ordinary /\ ~expired => Reported

\* One that reached the duration limit does so too: the limit is one of the
\* ways a test may end (docs/active-tests.md:16-17).
LimitReported == pc = "exited" /\ Ordinary /\ expired => Reported
=============================================================================
