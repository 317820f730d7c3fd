------------------------------- MODULE Release -------------------------------
(***************************************************************************)
(* `nox -s release` (noxfile.py) and the commands of flopbench.release it  *)
(* runs, `finalize` and `verify` (release.py): one session at a time in    *)
(* one directory, which may be stopped anywhere and any command of which   *)
(* may be run again by hand.                                               *)
(*                                                                         *)
(* What build, pip-audit and people do to files is external: between any   *)
(* two steps a file is edited, added or removed, the lock or the policy    *)
(* replaced.  A file is known by who made it and for which version of the  *)
(* lock; a checksum stands for the file it is the checksum of.             *)
(***************************************************************************)
EXTENDS Naturals, Sequences

CONSTANTS
  MaxRuns,  \* how many commands are started
  MaxActs   \* how often somebody else acts

ASSUME RunAssumption == MaxRuns \in Nat /\ MaxActs \in Nat

VARIABLES
  lock,      \* the version of the runtime lock
  policy,    \* the version of it that the license policy covers
  exists,    \* is there a release directory?
  files,     \* what is in it
  manifest,  \* SHA256SUMS: who made it, and its lines
  session,   \* is the command one of a session, which goes on after it?
  pc,        \* where it is
  run,       \* which it is
  report,    \* the version of the lock that its license report is of
  todo,      \* the names that it has listed and not yet hashed
  lines,     \* the checksums it has computed or read
  touched,   \* has somebody else acted since it began?
  acts,      \* how often somebody has
  exit       \* how the last command ended

releaseVars == <<lock, policy, exists, files, manifest, session, pc, run, report, todo, lines,
                 touched, acts, exit>>

inputs  == <<lock, policy>>
content == <<exists, files, manifest>>
memory  == <<report, todo, lines>>
outside == <<touched, acts>>

\* In the order of sorted(): the names of what a directory may hold.
Artifacts == <<"extra", "sdist", "wheel", "sbom", "licenses">>
Names     == {Artifacts[i] : i \in DOMAIN Artifacts}
NoFile    == [by |-> 0, lock |-> 0, whole |-> FALSE]
\* Run 0 is somebody else.
Made(by, version) == [by |-> by, lock |-> version, whole |-> TRUE]

NoLines == [n \in {} |-> NoFile]
NoSums  == [by |-> 0, lines |-> NoLines, there |-> FALSE]
Present == {n \in Names : files[n] # NoFile}

First(names) ==
  Artifacts[CHOOSE i \in DOMAIN Artifacts :
              Artifacts[i] \in names /\ \A j \in 1..i - 1 : Artifacts[j] \notin names]

ReleaseInit ==
  /\ lock = 1 /\ policy = 1
  /\ exists = FALSE /\ files = [n \in Names |-> NoFile] /\ manifest = NoSums
  /\ session = FALSE /\ pc = "idle" /\ run = 0
  /\ report = 0 /\ todo = {} /\ lines = NoLines
  /\ touched = FALSE /\ acts = 0 /\ exit = "none"

\* A command ends: without success so does its session.
Ends(how) ==
  /\ pc' = "idle" /\ session' = FALSE /\ exit' = how
  /\ report' = 0 /\ todo' = {} /\ lines' = NoLines
  /\ UNCHANGED <<inputs, content, run, outside>>

\* It goes on in memory only.
Goes(there) == pc' = there /\ UNCHANGED <<inputs, content, session, run, outside, exit>>

Makes(name, file, there) ==
  /\ pc' = there
  /\ files' = [files EXCEPT ![name] = file]
  /\ UNCHANGED <<inputs, exists, manifest, session, run, memory, outside, exit>>
-----------------------------------------------------------------------------
(* The session *)

Begin(nox, here) ==
  /\ pc = "idle" /\ run < MaxRuns
  /\ run' = run + 1 /\ pc' = here /\ session' = nox /\ touched' = FALSE /\ exit' = "none"
  /\ UNCHANGED <<inputs, content, memory, acts>>

StartSession  == Begin(TRUE, "mkdir")
StartFinalize == Begin(FALSE, "glob")
StartVerify   == Begin(FALSE, "read")

Mkdir ==
  /\ pc = "mkdir" /\ ~exists
  /\ exists' = TRUE /\ pc' = "build"
  /\ UNCHANGED <<inputs, files, manifest, session, run, memory, outside, exit>>

\* session.error(): the directory of a session before is not used again.
DirectoryExists == pc = "mkdir" /\ exists /\ Ends("refused")

\* `python -m build` makes the wheel from the sdist.
Build ==
  \/ pc = "build" /\ exists /\ Makes("sdist", Made(run, lock), "wheel")
  \/ pc = "wheel" /\ exists /\ Makes("wheel", Made(run, lock), "audit")

\* pip-audit writes what the lock names, over what is there.
Audit == pc = "audit" /\ exists /\ Makes("sbom", Made(run, lock), "glob")

\* check_secrets.py, like any command of the session, may fail.
StepFails == pc \in {"build", "wheel", "audit"} /\ Ends("refused")
-----------------------------------------------------------------------------
(* finalize() *)

\* Mutant: an sbom of any lock will do.
AnySbom == exists /\ files["wheel"] # NoFile /\ files["sdist"] # NoFile /\ files["sbom"].whole

\* One wheel and one sdist.  The sbom is compared with the lock.
ValidatesInputs ==
  /\ exists /\ files["wheel"] # NoFile /\ files["sdist"] # NoFile
  /\ files["sbom"].whole /\ files["sbom"].lock = lock

\* validate_cyclonedx()
Validate == pc = "glob" /\ ValidatesInputs /\ Goes("license") /\ UNCHANGED memory

\* license_report(): the lock is read once more, and the policy covers it.
LicenseReport ==
  /\ pc = "license" /\ policy = lock
  /\ report' = lock
  /\ Goes("open") /\ UNCHANGED <<todo, lines>>

Opens(allowed) ==
  /\ pc = "open" /\ exists /\ allowed
  /\ Makes("licenses", [Made(run, 0) EXCEPT !.whole = FALSE], "write")

\* Mutant: a report that is there is written over.
OpenAnyReport == Opens(TRUE)

\* write_json_new() opens with "x".
OpenReport == Opens(files["licenses"] = NoFile)

\* What it writes goes to the file it opened, which may be gone from its place.
WriteReport ==
  /\ pc = "write"
  /\ Makes("licenses", IF files["licenses"].by = run THEN Made(run, report) ELSE files["licenses"],
           "list")

\* What open() raises is no ReleaseError: nobody prints it.
OpenFails ==
  \/ pc = "open" /\ files["licenses"] # NoFile /\ Ends("traceback")
  \/ pc = "sums" /\ manifest.there /\ Ends("traceback")
  \/ pc \in {"open", "sums"} /\ ~exists /\ Ends("traceback")

\* write_checksums(): the directory is listed, and its files hashed in order.
List ==
  /\ pc = "list" /\ exists /\ Present # {}
  /\ todo' = Present
  /\ Goes("hash") /\ UNCHANGED <<report, lines>>

Hash ==
  /\ pc = "hash" /\ todo # {} /\ First(todo) \in Present
  /\ lines' = [n \in DOMAIN lines \cup {First(todo)} |->
                IF n \in DOMAIN lines THEN lines[n] ELSE files[n]]
  /\ todo' = todo \ {First(todo)}
  /\ Goes(IF todo' = {} THEN "sums" ELSE "hash") /\ UNCHANGED report

Sums(there, by, ls) == [there |-> there, by |-> by, lines |-> ls]

OpenSums ==
  /\ pc = "sums" /\ exists /\ ~manifest.there
  /\ manifest' = Sums(TRUE, run, NoLines) /\ pc' = "lines"
  /\ UNCHANGED <<inputs, exists, files, session, run, memory, outside, exit>>

WriteSums ==
  /\ pc = "lines"
  /\ manifest' = IF manifest.by = run THEN [manifest EXCEPT !.lines = lines] ELSE manifest
  /\ pc' = "read" /\ lines' = NoLines
  /\ UNCHANGED <<inputs, exists, files, session, run, report, todo, outside, exit>>
-----------------------------------------------------------------------------
(* verify_checksums() *)

ReadSums ==
  /\ pc = "read" /\ exists /\ manifest.there
  /\ lines' = manifest.lines
  /\ Goes("compare") /\ UNCHANGED <<report, todo>>

Compares(covered) == pc = "compare" /\ covered /\ Goes("rehash") /\ UNCHANGED memory

\* Mutant: a file that the manifest does not name is no matter.
CoversRecorded == Compares(DOMAIN lines \subseteq Present)

\* The names are those of the files in the directory, no more and no fewer.
Covers == Compares(DOMAIN lines = Present)

\* A file whose checksum is the one recorded is done with.
Rehash ==
  /\ pc = "rehash" /\ lines # NoLines
  /\ files[First(DOMAIN lines)] = lines[First(DOMAIN lines)]
  /\ lines' = [n \in DOMAIN lines \ {First(DOMAIN lines)} |-> lines[n]]
  /\ Goes("rehash") /\ UNCHANGED <<report, todo>>

\* finalize ends here.  After it the session runs verify, then it ends too.
Verified ==
  /\ pc = "rehash" /\ lines = NoLines
  /\ IF session /\ report # 0
     THEN pc' = "read" /\ report' = 0 /\ UNCHANGED <<session, exit>>
     ELSE pc' = "idle" /\ report' = 0 /\ session' = FALSE
          /\ exit' = IF report # 0 \/ session THEN "finalized" ELSE "verified"
  /\ UNCHANGED <<inputs, content, run, todo, lines, outside>>

\* A ReleaseError, wherever one is raised.
Refused ==
  /\ \/ pc = "glob" /\ ~ValidatesInputs
     \/ pc = "license" /\ policy # lock
     \/ pc = "read" /\ ~(exists /\ manifest.there)
     \/ pc = "compare" /\ DOMAIN lines # Present
     \/ /\ pc = "rehash" /\ lines # NoLines
        /\ files[First(DOMAIN lines)] # lines[First(DOMAIN lines)]
     \/ pc = "list" /\ (~exists \/ Present = {})
     \/ pc = "hash" /\ First(todo) \notin Present
  /\ Ends("refused")
-----------------------------------------------------------------------------
(* What else happens to the files *)

\* Ctrl-C, a full disk or the end of the machine: what was written stays, of
\* the manifest any of its first lines.
Stop ==
  /\ pc # "idle"
  /\ pc' = "idle" /\ session' = FALSE /\ exit' = "stopped"
  /\ report' = 0 /\ todo' = {} /\ lines' = NoLines
  /\ IF pc = "lines" /\ manifest.by = run
     THEN \E cut \in 0..Len(Artifacts) :
            LET kept == {Artifacts[i] : i \in 1..cut} \cap DOMAIN lines
            IN  manifest' = [manifest EXCEPT !.lines = [n \in kept |-> lines[n]]]
     ELSE UNCHANGED manifest
  /\ UNCHANGED <<inputs, exists, files, run, outside>>

Act ==
  /\ acts < MaxActs
  /\ acts' = acts + 1 /\ touched' = TRUE
  /\ UNCHANGED <<session, pc, run, memory, exit>>

EditInputs ==
  /\ Act
  /\ \/ lock' = lock + 1 /\ policy' \in {policy, lock + 1}
     \/ policy' = lock /\ UNCHANGED lock
  /\ UNCHANGED content

\* An artifact is edited, added or removed; the manifest removed.
EditFiles ==
  /\ Act /\ exists
  /\ \/ /\ \E n \in Names, f \in {NoFile, Made(0, acts)} : files' = [files EXCEPT ![n] = f]
        /\ UNCHANGED manifest
     \/ manifest' = NoSums /\ UNCHANGED files
  /\ UNCHANGED <<inputs, exists>>

RemoveDirectory ==
  /\ Act /\ exists
  /\ exists' = FALSE /\ files' = [n \in Names |-> NoFile] /\ manifest' = NoSums
  /\ UNCHANGED inputs

Command ==
  \/ Mkdir \/ DirectoryExists \/ Build \/ Audit \/ StepFails
  \/ Validate \/ LicenseReport \/ OpenReport \/ WriteReport \/ OpenFails
  \/ List \/ Hash \/ OpenSums \/ WriteSums \/ ReadSums \/ Covers \/ Rehash \/ Verified \/ Refused

ReleaseNext ==
  \/ StartSession \/ StartFinalize \/ StartVerify
  \/ Command \/ Stop
  \/ EditInputs \/ EditFiles \/ RemoveDirectory
-----------------------------------------------------------------------------
\* What verify accepts is what the manifest says, to the last file: a manifest
\* that a stopped finalize left is no release (release.py:198-206).
VerifiedIsWhole ==
  exit \in {"verified", "finalized"} /\ ~touched =>
    /\ DOMAIN manifest.lines = Present
    /\ \A n \in Present : manifest.lines[n] = files[n]

\* A release that was finalized, with nobody else at work, was by one run:
\* neither its report nor its manifest is left from one that was stopped, and
\* sbom and report are of one lock, which is read twice (release.py:217-220).
FinalizedByOneRun ==
  exit = "finalized" /\ ~touched =>
    /\ files["licenses"].by = run /\ manifest.by = run
    /\ files["licenses"].whole /\ files["licenses"].lock = files["sbom"].lock
    /\ {"wheel", "sdist", "sbom", "licenses"} \subseteq DOMAIN manifest.lines

\* No command writes over a report or a manifest that another one left, or
\* takes it away (release.py:158-162, 177).
NothingReplaced ==
  [][ acts' = acts =>
        /\ files["licenses"] # NoFile /\ files'["licenses"] # files["licenses"]
             => files["licenses"].by = run /\ ~files["licenses"].whole
        /\ manifest.there /\ manifest' # manifest => manifest.by = run /\ pc = "lines"
    ]_releaseVars
=============================================================================
