# flopbench in TLA+

TLA+ models of flopbench, checked with TLC on small instances, and theorems
about them checked with TLAPS for every value of the constants. Paths below are
relative to `src/flopbench/` unless they start with `docs/` or `apps/`.

- [The system](#the-system): what it is made of, and what is hard about it
- [Plan](#plan): which module models what, and what is left
- One section for each model: its state and actions, its runs and bounds, the
  fairness assumed, what is proved and how
- [Findings](#findings): where the code and what is said of it disagree
- [What is left to TLC, and what is not modelled](#what-is-left-to-tlc-and-what-is-not-modelled)

## The system

flopbench is a command (`cli.py`) and a loopback web application (`webapp.py`,
`apps/web`) over a library. A command loads its input, runs one component, prints
or stores one strict report, and exits; most of what is hard happens in what runs
beside it (the sampling thread, the peer of a socket, Ctrl-C, another process on
the same directory) and in what may fail half way.

| Component | State it keeps | Operations | What is hard | What makes it correct |
|---|---|---|---|---|
| VRAM observer (`benchmark/vram.py`) | `_stop`, `_thread`, `_peak`, `_available`, `_initialized`; the NVML library | `start`, `stop`, the sampler | two threads, no lock; a join with a timeout; a driver that blocks or fails | a peak belongs to its request and covers every reading; one sampler at a time; all end |
| Benchmark engine (`benchmark/engine.py`, `models.py`) | the records, the cancellation event, the open adapter | one loop over warmup and measured requests, the report | Ctrl-C anywhere, exceptions, a report that refuses itself | every request accounted for, nothing after a cancellation, adapter closed |
| HTTP adapters (`benchmark/http_adapters.py`, `response_limits.py`) | one connection, the deadline, what the stream has shown so far | `run`, `model_identity` | silence, truncation, cancellation and deadline at any byte | one outcome, with the sample that text earned it; nothing left open |
| Transport (`benchmark/transport.py`) | the resolver process, one socket at a time | `connect`, `send`, `close` | a resolver, a handshake or a peer that never answers | bounded waits; no process or socket left behind; the first address that works |
| Validator doctor (`validator_doctor/*`) | the temporary directory, the three results | disk, network and clock test, the live doctor | deadlines, cancellation from a callback, cleanup that fails | the directory removed, cancelled tests skipped, a result its own model accepts |
| Report store (`reporting/service.py`, `redaction.py`, `report export` in `cli.py`) | the source, the output file | load, redact, preview, confirm, write | another command or a crash during a write; a preview that goes stale | what is written is what was shown; a failed command leaves nothing |
| Report comparison (`reporting/compare.py`) | none | the bounded diff, the comparison of two benchmarks | bounds on depth and on changes | a diff is complete or says it is not |
| Receipt (`receipt/*`) | none: three files, and a key the program never holds | prepare, create, verify, around an external signer | files replaced between the commands, and between two readings of one | verified only for the document that was signed |
| Release (`release.py`, `noxfile.py`) | the release directory: artifacts, license report, manifest | the session, finalize, verify | stopped between two files, run again by hand, the lock read twice | what verify accepts is whole, and by one run |
| Readiness (`readiness/engine.py`, `profile_loader.py`) | none | evaluate a machine against a profile | thresholds, two checks that look at one device | verdicts that are true of the machine and agree |
| Hardware probe (`probe/*`) | none; NVML is opened and shut down | fixture or live probe, privacy | a driver that fails after some of its GPUs were read | no verdict from half an answer; nothing named in public |
| Simulator (`simulator/*`) | the session machine and its events | transitions, eight deterministic scenarios | eight paths written by hand beside one table | legal transitions, accounting that follows from them |
| Web API (`webapp.py`, `serve` in `cli.py`) | two dictionaries of results, the token | the boundary, run, list, get | handlers in threads, ids made of the request, a restart that forgets all | what was answered once is answered again |
| Dashboard (`apps/web/src`) | React state, requests in flight | four views, two roles, refresh | answers that come late or out of order, or from another process | what is shown answers what was asked last |
| Install check (`scripts/verify_install.py`) | a temporary directory, a server process | 19 commands, and the server polled until a deadline | a server that dies, lies, hangs or will not end; Ctrl-C | nothing left behind; it ends |
| Profiles, config, workloads, endpoint policy, contracts, other scripts | none | load and validate | | |

They meet at few places: the engine calls an adapter and the observer around each
request and shares the cancellation event with them; an adapter's exchange runs on
a `BoundedConnection`, which polls the same event and deadline; readiness reads
the report of the probe; the report and receipt commands share `write_new_file`;
the page asks the API, whose handlers call the same library as the command.

## Plan

In the order of importance. A component has a module, its configurations, and, in
a module of its own, the proofs of what holds for every constant.

1. `VramObserver`: the sampling thread. Done, with proofs.
2. `BenchmarkEngine`, implementing `BenchmarkAccounting`. Done, with proofs.
3. `Exchange`, the HTTP adapters over a peer that may do anything, implementing
   `AdapterContract`, which is what the engine assumes of them. Done, with proofs.
4. `Transport`, the connection below an exchange. Done, with proofs.
5. `Doctor`: the disk, network and clock tests and their command. Done, with proofs.
6. `ReportStore`: exclusive creation with failures and concurrent writers, preview
   and confirmation. Done, with proofs.
7. `HardwareProbe`, and `Readiness` over it: the order of the checks as operators,
   and what the verdicts mean for the machine. Done, with proofs.
8. `Receipt`: prepare, sign, create and verify over files that are replaced in
   between, implementing `SignedReports`. Done, with proofs.
9. `ReportCompare`: the bounded diff, one node a step, against a definition by
   paths; the comparison of benchmarks. Done, with proofs.
10. `Release`: the session and its commands, stopped anywhere and run again. Done,
    with proofs. `FileCommands` composes 6 and 8 to 10, and `FileCommandsProofs` proves
    about them.
11. `Simulator`, `WebApi` over it and `Dashboard` over both: views left and asked
    again while answers are in flight, before a process that is restarted. Done,
    with proofs.
12. `InstallCheck`: the script that installs a wheel and starts its server. Done, with
    proofs. `LocalService` composes 11 and 12.

Every invariant that a run checks is a theorem, and so are the action properties
and the refinements. To prove later: the unlocked peak as a refinement of an atomic
maximum; that the exchange over the transport has the bound that the two have
apart; what a step can break of the liveness properties but `ChecksWin`, for which
it is done.

## VramObserver

The benchmark's thread (`pc`) and the samplers (`spc[s]`, one per `start()`) share
`stopped`, `thread`, `peak`, `available`, `initialized` without a lock, as the
object's attributes are; each access is an action. `self._peak = used if self._peak
is None else max(self._peak, used)` is three steps: `SamplerPeeks`,
`SamplerMerges`, `SamplerStores` (in `stop()`: `StopMerges`, `StopStores`). A
reading carries the request in which NVML took it, which the code does not know
and the properties need. NVML is external: a call answers, fails or does not
return, and fails when the library is shut down.

A join may time out while the sampler is in NVML. `gaveUp` remembers that one did:
`JoinedSafe` is what holds until then (`PeakFromOwnRequest`, `PeakCoversReadings` and
`OnlyOwnSampler` together), and what comes after is the finding of
`VramLateReading`. Readings count as got when the call returns, including those of
a sampler whose request is over.

*Runs.* `VramThreads` (491,358 states) checks `JoinedSafe`; that `stop()` returns even
with a sampler stuck in NVML, unless the driver keeps a call that `stop()` makes
itself (`StopReturns`); and that every sampler ends after the last request if NVML calls
return at all (`SamplersEnd`). Two requests and two
levels are enough to have the sampler of the first alive during the second, with a
reading higher or lower than its own.

*Fairness.* The interpreter runs both threads: `WF(~CallerInNvml /\ Benchmark)` and
`WF(SamplerRuns(s))`, both without the steps in which the thread waits for NVML, which
may keep either for ever. After a join that timed out `stop()` reads the driver and
shuts it down without a bound, so `StopReturns` names that wait (`[]CallerInNvml`) as
its other end. `SamplersEnd` has as its antecedent that NVML's answers to the samplers
come.

*Proved* (`VramObserverProofs`), for any number of requests and any set of levels:
`TypeCorrect` and `JoinedSafety`. None of the three parts is inductive alone. The strengthening says, while no join has timed out, that a live sampler is
`thread`, that `peak` and whatever either thread is about to store is of the
current request, and that each reading got is covered by the peak or by a store
that is under way; the last needs that only one of the two threads is past its
reading of `peak` at a time, which the join gives.

## BenchmarkEngine and BenchmarkAccounting

One action per part of the loop body of `run_benchmark`, with the exceptional
exits: `raising` is the exception on its way through the two `finally` blocks
(`StopObserver`, `CloseAdapter`). The adapter answers in any way its protocol
allows, and, unless `AdapterConforms`, raises something no handler is for or
returns a sample the record refuses. `InterruptsAt` says where Ctrl-C may come: in
`adapter.run()` it becomes a cancellation, elsewhere it leaves the loop, which the
history `outside` remembers. `Consistent` is the report's validator
(`BenchmarkReportV2`), which recounts what `ReportOf` counted. `Cancel` is another
thread that sets the event.

`BenchmarkAccounting` is what the caller is promised: the outcomes in order,
nothing made after a cancellation, and an account published complete or never.
The refinement maps the outcomes of the records to the account and `Phase` to its
publication.

*Run.* `EngineInterrupted` (77,154 states) lets everything go wrong, with Ctrl-C twice,
everywhere but in `adapter.close()` itself, where a second Ctrl-C of course leaves
the adapter open. One warmup, two measured requests and two prompts let a request
come before and after a cancelled one, a warmup be cancelled, and the prompts wrap
around. It checks `ObserverStopped`, that a report comes when every request was made
(`RequestsReported`: the validator recounts what the engine counted), and
`InterruptsAreTold`: no interrupted command exits with 0, and one that
exits with 130 printed what it had, unless Ctrl-C came `outside` the adapter, where
the code loses the report (see [Findings](#findings)).

*Fairness.* None: all that is checked is safety.

*Proved* (`BenchmarkEngineProofs`) for every workload: `TypeCorrect`,
`CancellationIsFinal`, `AdapterIsClosed` (if Ctrl-C does not hit `adapter.close()`),
`EngineImplementsAccounting`, `ObserverIsStopped`, `InterruptsTold` and `ReportComes`. The inductive invariant ties the event to the
records: a cancelled record implies the event is set, and once it is set only
`before_start` records follow, but for the one request that had passed the check.
`AdapterClosed` needs that the loop is left only with every request recorded or an
exception on its way. For the report to come, what `Consistent` recounts must be
what `ReportOf` counted: the records are numbered from 1 and their warmups come first
(`Ordered`), so the measured positions are the same set either way, and a sum or a
count over a set does not depend on who takes it. An interrupt is followed to where
it is told: an exception on its way, or the cancelled record it becomes (`Told`). The
refinement is step by step: `SkipCancelled` and `RecordRun`
classify, `Assemble` publishes, whatever raises first gives up, the rest stutters.

## Exchange and AdapterContract

One request of either adapter: `_exchange`, its `consume()` (or `_json` for a
metadata request), `bounded_lines` and the limits. A line is what it is to the
parser, with or without text, with counts that are usable, absent, wrong or too
large; an exception is its class. The code sees the deadline and the event only
at its checks, which are steps of their own before and during each wait
(`CheckPasses`, `CheckFails`); a wait ends when the peer does something (`Peer`).
Exceptions go through two layers of handlers: `ConsumeFails`, which gives text that
came a sample, and `Handle`, which checks once more. `AdapterContract` is the
engine's view: one answer, whose sample fits its outcome, cancelled only if asked.

*Runs.* `ExchangeRequests` (50,604 states) covers both protocols, streams and metadata.
Two things are chosen at the start: `legal`, whether `http.client` agrees to send the
headers, and `tame`, whether Python can convert the numbers that are sent back.
`EveryAnswerClassified` and `ChecksWin` are about requests with both, since an exception
no handler is for ("alien") leaves `run()` otherwise. What the numbers do of a legal
request is the finding of `ExchangeHugeNumber`; what the headers do is under
[Divergences](#divergences). `TextKeepsSample`,
`RequestEnds` and the contract hold of any. `ChecksWin` is that a set event or a
passed deadline decides the outcome, whatever the peer and the handlers were at.
With `MaxBytes` 4 and `MaxLine` 2 a stream can have text, usage and `[DONE]` with a line
to spare, and break either limit. `TextKeepsSample` leaves out a request whose
complete result is dropped at the last check, after its stream was consumed: that
one fails without a sample, as the code has it.

*Fairness.* `WF(Own)` and `WF(Expire)`: the exchange runs and time passes. The peer
owes it nothing: silence for ever is a behaviour, and what ends the request is the
deadline.

*Proved* (`ExchangeProofs`), for any limits: `TypeCorrect`, which includes that what is
kept stays within `MaxBytes`; `Classified`, `TextIsKept`, `SuccessIsMeasured` (a success of
the OpenAI-compatible adapter saw `[DONE]` and usage), `ImplementsContract`, and
`NothingBeatsTheChecks`, which is `ChecksWin` without the liveness: no step leaves the
handlers with anything else once the event is set or the deadline passed. The
invariant says what each place of the handlers knows of the exception and the
sample: past `consumer` an exception after text has a sample, past `handler` it is
an `AdapterError` or alien, alien only if not `legal` or not `tame`, and no event means no
"cancelled".

## Transport

`BoundedConnection`: the resolver in a subprocess, polled (`ask`, `poll`) and reaped in
a `finally` (`Reap`); one socket for each address, connected (`Dial`, `Join`), wrapped
in TLS (`Handshake`), written to (`Push`), closed by the adapter (`Close`). An address
is one the host has no sockets for, one that refuses, one without a certificate
that verifies, or a good one; any of them may stay silent, and so may the resolver.
`Touch` counts the operations on a socket after the deadline or the event.

*Run.* `TransportDeadline` (90,348 states): every assignment of these kinds to up to
three addresses, so that one fails, one works and one is not reached; two chunks,
so that the deadline may pass between them; with and without TLS, for names and
literal addresses. `DeadlineHolds` is that a deadline costs one more operation at
most and reaches the caller as what it is: it is met inside blocks whose `except
OSError` goes on to the next address.

*Fairness.* `WF(Program)` and `WF(Expire)`: the process runs, time passes, nobody answers.

*Proved* (`TransportProofs`), for any number of addresses and chunks: `TypeCorrect`,
`NothingIsLeft` (at most one subprocess or socket is held, and none at the end),
`FirstIsUsed` and `DeadlineIsKept`. Three
invariants in turn: what is held at each place; that the addresses before the
current one have all failed; that nothing was touched late except by the operation
that follows a check that had passed. Ctrl-C between `Popen()` and the `try` (`start`)
and inside the `finally` (`reap`) is not modelled: the subprocess may then be left.

## Doctor

`doctor validator` from its plan to its exit: the disk test's loop over chunks with
its clock, callback and `with` block, the OSErrors of any call, a short read, the
network attempts, the one clock query, and the composition in `run_live_doctor`.
`Return` makes a result as the code does, inside the `with` block and through the
result's own validator. `stuck` is a directory with something in it that cannot be
removed, whose OSError replaces whatever was on its way (then a cancelled disk test
looks like a failed one and the other tests run: the properties leave it out).
The names of the target and of the time server, chosen at the start, are plain, or
`strange`: accepted by the models and the command line, but not to be encoded for a
lookup (a label that is empty or of more than 63 characters). Such a name raises
outside every handler (`ProbeRaises`, `QueryRaises`, `Crash`), and the command has no
report. Not modelled: fixture mode, which reads a file instead, and Ctrl-C inside the
making or the removal of the directory.

*Runs.* `DoctorTests` (14,659 states): every selection of tests, two chunks and four attempts, so
that the limit may pass before, between and after chunks, and half, more and less
than half of the attempts be lost. `StopsWhenTold` covers a cancellation and the
limit, `ReportedInTime` the report of a command that met neither and whose names can
be looked up: its results are ones their own validators accept, and the network one
is what was counted. `strange` names are under [Divergences](#divergences).
`DoctorLimit`, the same for a command that met the limit, is a finding.

*Fairness.* None: all that is checked is safety.

*Proved* (`DoctorProofs`), for any sizes: `TypeCorrect`, `NothingIsLeft`, `TestStops` and
`ReportIsMade`. The invariants say which exceptions can be on their way at each
place, that a chunk begins only before the limit was seen, that an unexpired test
makes only results its model accepts, and that nothing but a `strange` name then ends
an approved command without a report.

## ReportStore

`report export`: one reading of the source (`Load`), the redacted document or its
refusal, the preview that shows a digest, the gate that compares the digest
given with that of the document just made, and `write_new_file` call by call, with
every failure, Ctrl-C and a kill. A digest stands for its document, so it is the
version of the source. Several commands run on one output path, which a user may
remove or make at any time; the source is edited in between.

*Runs.* `FileCommands`, below: two commands, two versions: enough for a preview of one
version and an export of the other, and for one command to find or race the file of
the other. `PublicWasPreviewed`: a public file holds a document whose digest was shown.
`NoPartialLeft`: a part of a file is being written, or its command was stopped.
`ExportRemoves`, with one command and a user, is the finding that a command whose
`open()` or `mkdir()` failed removes a file it did not make.

*Fairness.* None: every call may fail, so nothing has to be written. A command
that is stopped leaves its part of a file, which the model calls abandoned and
`NoPartialLeft` allows: no code removes it.

*Proved* (in `FileCommandsProofs`), for any set of commands and any number of edits:
`StoreTypesCorrect`, `Previewed` and `FailureLeavesNothing`. `Previewed` needs that a
command past the gate holds a version that was shown, and that what it has `read`
does not change on the way.

## HardwareProbe and Readiness

`HardwareProbe` is one `run_fixture_probe` or `run_live_probe`, in its order: what
describes the machine, the partitions as they come (one mount point twice, one that
cannot be read, none at all), NVML call by call, the report, and what `--privacy
public` leaves out of it (names and mount points; no check reads them). `gpus` is what NVML counted in the machine, which only
the properties compare with `devices`, what the provider has read when some call
fails. An exception that is no `ProbeError` is "alien": no command has a handler.
`Readiness` adds the commands: the profile with its defects in the order in which
they are found, the checks as operators (`VramStatus`, `HeadroomStatus`, `Largest`,
`ValidatorChecks`), their summary and the exit status.

*Run.* `ReadinessChecks` (1,084,410 states): the profile asks for 8 of everything, so
the headroom is at 10; GPUs have 0, 7, 8 or 10, whatever else 0, 7 or 8: nothing
known, below, at and above each threshold. Two GPUs and two partitions let a call
fail between them, and a large slow disk come beside a small fast one.
`VramVerdictIsTrue`: a live miner passes only with a GPU that is large enough, and
fails only without one, so a driver's failure is neither. `CommunityFollowsSource`: two
checks with their own order of conditions agree on one GPU. `OneDiskPasses`: the two
disk checks look at one disk.

*Fairness.* None: all that is checked is safety.

*Proved* (`ReadinessProofs`), for any machine, profile and fixture: `TypeCorrect`,
`ShutsDown` (NVML is shut down, or was tried to be), `VerdictIsTrue`, `FollowsSource` and
`OneDisk`. The invariant says that `devices` is a prefix of `gpus`, that a
GPU that is "detected" has them all and one that is not there had none to count, and
that report and checks are of what the probe found. That there is a largest memory,
and a first among the largest disks, is proved from the well-foundedness of the
numbers: `Largest` chooses one disk, and both disk checks are about that.

## Receipt and SignedReports

Three files: the export, the signing request, the receipt. `prepare`, `create` and
`verify` are each a reading and a writing with time between; `verify` reads the export
before the receipt. Meanwhile a signer signs whatever bytes the request carries
(`Sign`), and the user replaces any file by anything (`ReplaceExport`, `ReplaceRequest`,
`ReplaceReceipt`): a request whose bytes are not its claims, a receipt put together
from claims and a signature of something else. A digest stands for its document and
a signature for its key and its bytes: SHA-256, Ed25519 and the encodings are
external. `signed_at` is left out. `SignedReports` is the promise: a document is
verified for a key only if its holder has signed a statement about it.

*Run.* `FileCommands`, below: three documents, one of a schema that may not be signed,
two keys, three acts of others: enough to sign one request, replace it or the
export, and verify the receipt of the other.

*Proved* (in `FileCommandsProofs`), for any documents, keys and number of acts:
`ReceiptTypesCorrect`, `CreatedIsSigned` and `VerifiedImpliesSigned`, that receipts implement `SignedReports`. The
invariant says what a command holds between reading and writing: `create` a receipt
whose signature was accepted and stays so, for signatures are only added.

## ReportCompare

A document is a function of its paths, the sequences of keys and indices that lead
to a node. `walk()` is one node a step over `pending`, the paths it has still to look
at in its order, with the list of changes bounded by `MaxChanges`. `PyEqual` is
Python's `==`, for which `True` is 1. `compare_benchmarks()` is one action: its reasons,
the deltas, and the first metric whose quotient is not finite.

*Run.* `FileCommands`: every pair of objects of up to two fields, with leaves, arrays
and objects in them, so trees of two levels, and `MaxChanges` 2: none, one, two and
more differences, at either level. `DiffListsTheFirst` compares with a definition that
does not walk both at once: the paths where two trees differ, in the order of the
document. Keys are numbers, which stand for their order. `ComparisonIsSound`: the other order of the two gives the other sign and the
same reasons, and no number that `MetricComparison` would refuse gets through.

*Proved* (in `FileCommandsProofs`): `FirstDifferences`, that `DiffListsTheFirst` holds of
any documents and any bound, and `SoundComparison`. The invariant of the diff has
three parts. What is pending was reached through nodes of one kind, is in order and
comes after all that is listed (`WalkedTo`). What is listed differs, and in order
(`ListedSoFar`). Unless something was left out, a path that differs is listed or
begins with one that is pending, and nothing before what is listed is missing
(`NothingSkipped`). The last part needs the first: when a change is added, what
differs and comes before it cannot lie below what is pending after it. That the
keys of a node can be sorted at all is proved on the way (`KeysCanBeSorted`), from a
least number that would have a set of keys up to it that cannot. `SoundComparison`
needs that p50s are finite and not negative and that both reports have the metrics
of their schema (`BenchmarkAssumption`); the largest absolute delta is then finite, and
the quotients are those the code has looked at.

## Release

`nox -s release` as a session of commands (`Mkdir`, `Build`, `Audit`, then `finalize` and
`verify`), each of which may be run by hand too, be refused, end in a traceback or
be stopped anywhere (`Stop`); the manifest may then have any of its first lines. A
file is known by the command that made it and the version of the lock it is for.
Between any two steps somebody edits the lock, the policy, an artifact or the
manifest, or removes the directory (`Act`); the properties on a release ask that
nobody had since its command began (`touched`).

*Run.* `FileCommands`: two commands and two acts of others: a session that is stopped,
what it left repaired or not, and another command over that. `VerifiedIsWhole`: what
verify accepts is all of the directory as its manifest has it. `FinalizedByOneRun`: the
report and the manifest of a release are by one run and, with the SBOM, of one lock,
though the code reads it twice. `NothingReplaced`: what another run has left is not
written over.

*Proved* (in `FileCommandsProofs`), for any number of runs and acts: `VerifiedRelease`,
`FinalizedRelease` and `NothingIsWrittenOver`. The invariant says what an undisturbed
command has behind it at each place (`Undisturbed`: validated inputs, then a report by
this run of that lock, then a manifest by this run) and what `verify` has compared so
far (`Compared`: the files rehashed have the digest of their line, those to do are
there). A run that is stopped is the hard case: its report and its manifest keep its
number, so that a later run can neither write over them nor take them for its own.

## FileCommands

The commands that work on files alone, composed: they share no state, and a
behaviour is one of the four, which one is chosen at the start. 1,238,933 states.
*Fairness.* None: a command may be stopped or never be run.

## Simulator, WebApi and Dashboard

`Simulator` has no state: the machine is a value, and `RunSimulation` takes it along a
scenario's path over the table of transitions (`Course`). `WebApi` is the process: the boundary of loopback host,
origin and token; the handlers, which run in threads, so that computing a result and
keeping it are two steps (`Compute`, `KeepSimulation`, `KeepBenchmark`); other clients beside
the page (`Arrive`). The process may end at any time (`ServerStops`), by which requests in
flight fail or not, and be started again with another token and nothing kept.
`Dashboard` is the page: one step for what React does on one event. A view that is
left is unmounted, a role mounts another Overview, a refresh runs the effect again
after the cleanup of the last; answers come in any order, also for what is no longer
mounted.

*Run.* `LocalService`, below, with two processes, three requests and one seed: two
requests of the page in flight and one more asked or another client's between, a
restart anywhere. `ShownAnswersLast`: a view that waits for nothing shows the answer to
what it asked last, of its role and its scenario. `ToldIsKept`: what the process has
answered for an id it would answer again, though ids are made of the scenario and
the seed and are written again by whoever asks the same. `AccountingFollowsEvents`: eight
paths written by hand end, take only legal transitions, and are charged and slashed
as their events say.

*Proved* (`LocalServiceProofs`), for any number of processes, requests and seeds:
`ToldAgain`, `SessionsAccounted` and `LastAnswerShown`. A session that is kept under an id is the
one that the id is made of (`StoreSane`), and so is what a handler has computed and not
kept yet (`CallsSane`): whoever keeps it last keeps the same. The answer on its way to
the page is to what it asked (`PageAsks`): a view's current question went out with the
role, the view and the scenario that the view has now, for whatever changes them
asks anew. That each of the eight scenarios is accounted for is proved along its path,
which has at most seven transitions (`Paths`, `ScenariosAccounted`).

## InstallCheck

`verify_install.py` from the wheel to its end: 19 commands in order, any of which may
fail, and among them `verify_loopback_server()` with its process, its clock, the request
that is answered well, badly or not, the `finally` and the two waits. Ctrl-C comes
anywhere but between `Popen()` and the `try`.

*Run.* `LocalService`: four ticks let the deadline pass before, during and after a try.
`NothingLeftRunning`: a run that passed has left no server and no directory, and no run
leaves a server, but for Ctrl-C in the `finally` or a process the kernel cannot end in
five seconds. A directory that cannot be removed stays, and is a failure (`Leaves`).
`ServerCheckEnds`: a server that says
nothing does not keep the script.

*Fairness.* `WF(Serving)` and `WF(Tick)`: the script runs and time passes. `urlopen` has a
timeout of a second, which bounds each of its reads and not all of them: that the
answer does not trickle for ever is assumed in `Ask`. The server owes nothing, nor do
the other commands, which have no timeout and about which nothing is claimed.

*Proved* (`LocalServiceProofs`), for any deadline: `ServerIsStopped`. The invariant is the
life of the server over the places of the script: none before `Popen()`, running or
exited while it is tried and stopped, exited wherever the script goes on.

## LocalService

What runs around `flopbench serve`: the page before the API, or the script with a server
of its own; which one is chosen at the start. 506,455 states.

## Findings

| Run | What the code does | What is said of it |
|---|---|---|
| `VramLateReading` | A sampler whose join timed out is revived by the next `start()`, which clears the event it watches, and its late reading becomes the next request's peak (`benchmark/vram.py:68`) | "bytes of total used memory sampled ... during each request" (`docs/benchmarks.md:58-59`) |
| `ExchangeHugeNumber` | A line of the stream with a number of more than 4300 digits, which `json.loads()` refuses with a plain `ValueError`, leaves `run()` as an exception with no handler (`benchmark/http_adapters.py:192`; a count too large for a float, at `:223`, is the other case) | "Every measured request is classified" (`docs/benchmarks.md:36-37`) |
| `DoctorLimit` | At its duration limit the disk test makes a result its own validator refuses, and the command has no report (`validator_doctor/disk.py:66`) | the limit is one of the ways a test ends (`docs/active-tests.md:16-17`) |
| `ExportRemoves` | After an error of `mkdir()` or `open()`, by which nothing was made, the clean-up removes the file that somebody else has at the path (`reporting/service.py:144`) | "without following or replacing an existing path" (`reporting/service.py:133`), "Existing files ... are refused" (`docs/reporting.md:19-20`) |

### Divergences

Disagreements and limits met while modelling that no run of their own shows. Where
one would break a property, the property says which case it leaves out.

- Ctrl-C in `observer.start()` or `stop()`, which waits up to a second per request, or
  anywhere else outside `adapter.run()`, discards the completed runs
  (`benchmark/engine.py:149`), though "cancellation retains completed runs"
  (`docs/benchmarks.md:43-44`). `InterruptsAreTold` leaves it out by `outside`.
- After a join that timed out `_available` is still true, so `stop()` reads the driver
  and shuts it down itself, without a bound (`benchmark/vram.py:71-73`, `:80`): a driver
  that never answers keeps the benchmark. `StopReturns` names that wait.
- An Authorization header that `http.client` refuses leaves `run()` as its `ValueError`
  (`benchmark/http_adapters.py:322-333`). Left out by `legal`.
- A host name with a label that is empty or of more than 63 characters is accepted and
  makes `getaddrinfo` raise `UnicodeError`, which is no `OSError`
  (`validator_doctor/network.py:27`, `clock.py:36`): the command ends without a report,
  though "a completely unreachable target is `unknown`" (`docs/active-tests.md:24-25`, of
  the server `:32-33`). `ReportedInTime` leaves it out by `strange`.
- At exactly `MAX_DIFF_CHANGES` changes the diff says it is truncated though the rest may be
  equal (`reporting/compare.py:34-36`). `DiffListsTheFirst` asks only the converse.
- `True` and 1 have different digests and no difference in the diff (`compare.py:57`).
- A relative delta may overflow in one direction and not in the other: a comparison is
  then incompatible one way only (`compare.py:130`).
- `finalize` stopped after it opened the license report or the manifest can only end in
  a `FileExistsError` nobody prints until the file is removed (`release.py:159`), and the
  session refuses a directory that exists.
- `finalize` reads the lock twice (`release.py:217-219`): edited in between, report and
  SBOM are of two versions. `FinalizedByOneRun` asks for nobody else at work.
- After a restart of the server a page has the token of the process before: every
  request is rejected, Retry too, until it is loaded again. Its requests have no
  timeout (`apps/web/src/api.ts`).

## What is left to TLC, and what is not modelled

Only model-checked: the liveness properties (`StopReturns`, `SamplersEnd`, `ChecksWin`,
`RequestEnds`, `TransportEnds`, `ServerCheckEnds`), which rest on fairness and are out of
the prover's reach. What steps can break of `ChecksWin` is a theorem
(`NothingBeatsTheChecks`). All invariants, action properties and refinements that the
runs check are theorems too.

The theorems rest on the named assumptions about constants in each module, which
TLC evaluates in the runs: that bounds are numbers and sets of identities have no
element that stands for nothing (`NoneAssumption`), that above a node of a document are
objects and arrays (`TreeAssumption`), that a p50 is finite (`BenchmarkAssumption`). And on
the models themselves: Python's interpreter switches threads between any two
accesses of an attribute, a digest identifies its document, exclusive creation is
atomic, nobody forges a signature, and the kernel does what its manual says.

Not modelled: the endpoint policy and the validation of what `model_identity()` returns
(predicates on one string or one document); the loading of the configuration and
the workload, which are read as the profile is; the fixture mode of the doctor; the
handlers of the API that only read, and its static files; languages, themes and what
the page draws; formatters, JSON schemas, and the scripts that pass over files once
(no state). The encodings of receipts and Ed25519, the layout of JSON and HTML, and
what redaction removes from a report that is exported are data that no property here
tells apart.
