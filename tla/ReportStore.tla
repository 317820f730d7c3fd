---------------------------- MODULE ReportStore ----------------------------
(***************************************************************************)
(* `flopbench report export` (report_export in cli.py): the report it      *)
(* loads and redacts, the preview whose digest a public file needs, and    *)
(* write_new_file (reporting/service.py), which the receipt and simulation *)
(* commands use too.  Several commands run at once on one output path.     *)
(*                                                                         *)
(* The file system and the user are external: any call fails, the source   *)
(* is edited, the output removed or made by somebody else, and a command   *)
(* is stopped, at any moment.  A digest stands for the document it is the  *)
(* digest of, and so for the version of the source.                        *)
(***************************************************************************)
EXTENDS Naturals

CONSTANTS
  Exporters,  \* the commands
  MaxVersion  \* how often the source is edited, and once more

ASSUME VersionAssumption  == MaxVersion \in Nat \ {0}
ASSUME ExporterAssumption == "user" \notin Exporters /\ "nobody" \notin Exporters

VARIABLES
  source,  \* the version of the report in the source file
  seen,    \* the versions whose public digest a preview has shown
  asked,   \* what each command was asked for
  at,      \* where it is
  read,    \* the version it has loaded
  ended,   \* how it ended
  file     \* what is at the output path

storeVars == <<source, seen, asked, at, read, ended, file>>

Versions == 1..MaxVersion

\* The digest of --confirm-preview is one that was shown, or 0 for none.
Job  == [public : BOOLEAN, output : BOOLEAN, confirm : 0..MaxVersion]
\* A partial file is abandoned when the command that writes it is stopped.
File == [owner : Exporters \cup {"user", "nobody"}, state : {"partial", "abandoned", "whole"},
         public : BOOLEAN, version : 0..MaxVersion]

Absent == [owner |-> "nobody", state |-> "whole", public |-> FALSE, version |-> 0]
Own(c, state) ==
  [owner |-> c, state |-> state, public |-> asked[c].public, version |-> read[c]]

Writing == {"write", "flush", "cleanup", "unlink"}
Running == {"load", "render", "mkdir", "open"} \cup Writing

\* A step of one command.
Step(c, here, there) == at[c] = here /\ at' = [at EXCEPT ![c] = there]
Move(c, here, there) == Step(c, here, there) /\ UNCHANGED ended
End(c, here, how)    == Step(c, here, "idle") /\ ended' = [ended EXCEPT ![c] = how]

StoreInit ==
  /\ source = 1 /\ seen = {}
  /\ asked = [c \in Exporters |-> [public |-> FALSE, output |-> FALSE, confirm |-> 0]]
  /\ at = [c \in Exporters |-> "idle"]
  /\ read = [c \in Exporters |-> 0]
  /\ ended = [c \in Exporters |-> "none"]
  /\ file \in {Absent, [Absent EXCEPT !.owner = "user"]}
-----------------------------------------------------------------------------
(* report_export *)

BeginExport(c) ==
  /\ Step(c, "idle", "load")
  /\ ended' = [ended EXCEPT ![c] = "none"]
  /\ \E p, o \in BOOLEAN, d \in seen \cup {0} :
       asked' = [asked EXCEPT ![c] = [public |-> p, output |-> o, confirm |-> d]]
  /\ UNCHANGED <<source, seen, read, file>>

\* load_report() and create_export(): one reading of the source.
Load(c) ==
  /\ Move(c, "load", "render")
  /\ read' = [read EXCEPT ![c] = source]
  /\ UNCHANGED <<source, seen, asked, file>>

\* The source is missing, too large, malformed, or has a credential in it.
LoadRefused(c) ==
  /\ End(c, "load", "refused")
  /\ UNCHANGED <<source, seen, asked, read, file>>

Show(c, digest) ==
  /\ End(c, "render", "previewed") /\ ~asked[c].output
  /\ seen' = IF asked[c].public THEN seen \cup {digest} ELSE seen
  /\ UNCHANGED <<source, asked, read, file>>

Preview(c) == Show(c, read[c])

\* Mutant: any digest of a preview will do.
AnyConfirmed(c) == asked[c].public => asked[c].confirm # 0

Confirmed(c) == asked[c].public => asked[c].confirm = read[c]

PassGate(c) ==
  /\ Move(c, "render", "mkdir") /\ asked[c].output /\ Confirmed(c)
  /\ UNCHANGED <<source, seen, asked, read, file>>

PreviewRequired(c) ==
  /\ End(c, "render", "refused") /\ asked[c].output /\ ~Confirmed(c)
  /\ UNCHANGED <<source, seen, asked, read, file>>
-----------------------------------------------------------------------------
(* write_new_file *)

\* Mutant: an error leaves what was written.
FailAndLeave(c, here) ==
  /\ End(c, here, "failed")
  /\ UNCHANGED <<source, seen, asked, read, file>>

\* except OSError, whichever call raised it
FailAt(c, here) ==
  /\ Move(c, here, "cleanup")
  /\ UNCHANGED <<source, seen, asked, read, file>>

MakeParents(c) ==
  /\ Move(c, "mkdir", "open")
  /\ UNCHANGED <<source, seen, asked, read, file>>

CreateFile(c) ==
  /\ Move(c, "open", "write") /\ file.owner = "nobody"
  /\ file' = Own(c, "partial")
  /\ UNCHANGED <<source, seen, asked, read>>

\* A FileExistsError, of open(), or of mkdir() for a parent that is a file.
OutputExists(c) ==
  /\ \/ End(c, "open", "refused") /\ file.owner # "nobody"
     \/ End(c, "mkdir", "refused") /\ file.owner = "nobody"
  /\ UNCHANGED <<source, seen, asked, read, file>>

\* No directory can be made; no file either, or there is no descriptor left,
\* which the system looks at before it looks for the file.
OpenFileFails(c) ==
  \/ FailAt(c, "mkdir") /\ file.owner = "nobody"
  \/ FailAt(c, "open")

Write(c) ==
  /\ Move(c, "write", "flush")
  /\ UNCHANGED <<source, seen, asked, read, file>>

WriteFileFails(c) == FailAt(c, "write") \/ FailAt(c, "flush")

\* flush() and close() return; the handle is on the file it created, which is
\* the one at the path unless that one was removed.
Flush(c) ==
  /\ End(c, "flush", "written")
  /\ file' = IF file.owner = c THEN Own(c, "whole") ELSE file
  /\ UNCHANGED <<source, seen, asked, read>>

\* is_file() and not is_symlink()
CleanUp(c) ==
  /\ IF file.owner = "nobody" THEN End(c, "cleanup", "failed") ELSE Move(c, "cleanup", "unlink")
  /\ UNCHANGED <<source, seen, asked, read, file>>

Unlink(c) ==
  /\ End(c, "unlink", "failed")
  /\ file' = Absent
  /\ UNCHANGED <<source, seen, asked, read>>

Abandon(c) ==
  file' = IF file.owner = c /\ file.state = "partial" THEN [file EXCEPT !.state = "abandoned"] ELSE file

\* The OSError of is_file() or unlink() is passed over.
UnlinkFails(c) ==
  /\ End(c, "cleanup", "failed") \/ End(c, "unlink", "failed")
  /\ Abandon(c)
  /\ UNCHANGED <<source, seen, asked, read>>
-----------------------------------------------------------------------------
(* Around the commands *)

\* Ctrl-C is no OSError, and a killed process removes nothing.
StopCommand(c) ==
  /\ at[c] \in Running
  /\ End(c, at[c], "stopped")
  /\ Abandon(c)
  /\ UNCHANGED <<source, seen, asked, read>>

EditSource ==
  /\ source < MaxVersion /\ source' = source + 1
  /\ UNCHANGED <<seen, asked, at, read, ended, file>>

\* Somebody removes what is at the output path, or puts something there.
UserTouches ==
  /\ file' = IF file.owner = "nobody" THEN [Absent EXCEPT !.owner = "user"] ELSE Absent
  /\ UNCHANGED <<source, seen, asked, at, read, ended>>

ExportStep(c) ==
  \/ BeginExport(c) \/ Load(c) \/ LoadRefused(c) \/ Preview(c) \/ PassGate(c) \/ PreviewRequired(c)

WriteNewFile(c) ==
  \/ MakeParents(c) \/ CreateFile(c) \/ OutputExists(c) \/ OpenFileFails(c)
  \/ Write(c) \/ WriteFileFails(c)
  \/ Flush(c) \/ CleanUp(c) \/ Unlink(c) \/ UnlinkFails(c)

StoreNext ==
  \/ \E c \in Exporters : ExportStep(c) \/ WriteNewFile(c) \/ StopCommand(c)
  \/ EditSource \/ UserTouches

StoreSpec == StoreInit /\ [][StoreNext]_storeVars
-----------------------------------------------------------------------------
StoreTypeOK ==
  /\ source \in Versions /\ seen \subseteq Versions
  /\ asked \in [Exporters -> Job] /\ at \in [Exporters -> Running \cup {"idle"}]
  /\ read \in [Exporters -> 0..MaxVersion]
  /\ ended \in [Exporters -> {"none", "previewed", "refused", "written", "failed", "stopped"}]
  /\ file \in File

\* Whatever happens to the source between a preview and the command that
\* confirms it, a public file holds a document whose digest was shown
\* (docs/reporting.md:17-19).
PublicWasPreviewed == file.owner \in Exporters /\ file.public => file.version \in seen

\* A command neither replaces nor removes a file it did not make: "without
\* following or replacing an existing path" (reporting/service.py:133),
\* "Existing files ... are refused" (docs/reporting.md:19-20).
OthersFileKept ==
  [][\A c \in Exporters : at'[c] # at[c] /\ file.owner \notin {c, "nobody"}
       => file' = file]_storeVars

\* A file that is not whole is being written, or its command was stopped or
\* could not remove it: one that failed leaves nothing ("write a complete
\* export", service.py:133).
NoPartialLeft == file.state = "partial" => file.owner \in Exporters /\ at[file.owner] \in Writing
=============================================================================
