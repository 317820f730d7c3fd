------------------------------ MODULE Readiness ------------------------------
(***************************************************************************)
(* `flopbench probe`, `check miner` and `check validator` (cli.py): one    *)
(* probe of HardwareProbe, the profile (profile_loader.py) and the checks  *)
(* of the report against it (readiness/engine.py).                         *)
(***************************************************************************)
EXTENDS HardwareProbe, FiniteSets

CONSTANTS Vram, Cores, Memory, Nvme  \* what the profile recommends

ASSUME ProfileAssumption == {Vram, Cores, Memory, Nvme} \subseteq Nat \ {0}

VARIABLES
  command,  \* "probe", "miner" or "validator"
  checks,   \* the status of each check, by its code
  summary,  \* how many checks have each status
  exit      \* how the command ended: its status, or "none"

allVars == <<vars, command, checks, summary, exit>>

ResultStatus == {"pass", "warn", "fail", "unknown", "skipped", "unsupported"}
MinerCodes   == {"miner.vram_bytes", "community.miner.vram_headroom"}
DiskCodes    == {"validator.disk_capacity_bytes", "validator.disk_kind"}
ValidatorCodes ==
  DiskCodes \cup {"validator.cpu_physical_cores", "validator.memory_bytes",
                  "validator.network_bits_per_second"}

NoChecks  == [c \in {} |-> "unknown"]
NoSummary == [s \in ResultStatus |-> 0]
-----------------------------------------------------------------------------
(* load_profile() *)

\* What can be wrong with the file, in the order in which it is looked for.
Defects == <<"read_error", "too_large", "byte_order_mark", "invalid_newline", "invalid_encoding",
             "duplicate_field", "yaml_parse_error", "validation_error">>

Files == {f \in SUBSET {Defects[i] : i \in DOMAIN Defects} : Cardinality(f) <= 2}

\* The code of the first defect, or none.
LoadProfile(file) ==
  IF file = {} THEN "none"
  ELSE LET first == CHOOSE i \in DOMAIN Defects :
                      Defects[i] \in file /\ \A j \in 1..i - 1 : Defects[j] \notin file
       IN  IF Defects[first] = "byte_order_mark" THEN "invalid_encoding" ELSE Defects[first]
-----------------------------------------------------------------------------
(* evaluate_readiness() *)

\* _numeric_check()
Numeric(actual, threshold) ==
  IF actual = Unknown THEN "unknown" ELSE IF actual >= threshold THEN "pass" ELSE "fail"

\* The largest of the memories that are known, of a GPU that is detected.
Known(g)  == {g.devices[i] : i \in DOMAIN g.devices} \ {Unknown}
Actual(g) == IF Known(g) = {} THEN Unknown ELSE CHOOSE v \in Known(g) : \A w \in Known(g) : w <= v

VramStatus(g) ==
  CASE g.status = "detected"         -> Numeric(Actual(g), Vram)
    [] g.status = "unsupported"      -> "unsupported"
    [] g.status = "no-supported-gpu" -> "fail"
    [] g.status = "unknown"          -> "unknown"

Headroom == Vram + Vram \div 4

HeadroomAbove(floor, g) ==
  CASE Actual(g) = Unknown /\ g.status = "unsupported" -> "unsupported"
    [] Actual(g) = Unknown /\ g.status # "unsupported" -> "unknown"
    [] Actual(g) # Unknown /\ Actual(g) < floor        -> "fail"
    [] Actual(g) # Unknown /\ Actual(g) >= floor       ->
         IF Actual(g) < Headroom THEN "warn" ELSE "pass"

\* Mutant: whatever is below the headroom is only warned of.
WarnBelowHeadroom(g) == HeadroomAbove(Unknown, g)

HeadroomStatus(g) == HeadroomAbove(Vram, g)

MinerChecks(r) ==
  [c \in MinerCodes |->
     IF c = "miner.vram_bytes" THEN VramStatus(r.gpu) ELSE HeadroomStatus(r.gpu)]

\* Mutant: any disk will do for the kind.
SomeKind(ds) ==
  IF \E i \in DOMAIN ds : ds[i].kind = "nvme" THEN "nvme" ELSE "unknown"

\* max() returns the first of the disks with the most bytes.
Largest(ds) ==
  CHOOSE i \in DOMAIN ds :
    /\ \A j \in DOMAIN ds : ds[j].total <= ds[i].total
    /\ \A j \in 1..i - 1 : ds[j].total < ds[i].total

LargestKind(ds) == IF ds = <<>> THEN "unknown" ELSE ds[Largest(ds)].kind

KindStatus(kind) ==
  CASE kind = "unknown" -> "unknown" [] kind = "nvme" -> "pass" [] OTHER -> "fail"

ValidatorChecks(r) ==
  [c \in ValidatorCodes |->
     CASE c = "validator.cpu_physical_cores" -> Numeric(r.facts.cores, Cores)
       [] c = "validator.memory_bytes" -> Numeric(r.facts.memory, Memory)
       [] c = "validator.disk_capacity_bytes" ->
            Numeric(IF r.disks = <<>> THEN Unknown ELSE r.disks[Largest(r.disks)].total, Nvme)
       [] c = "validator.disk_kind" -> KindStatus(LargestKind(r.disks))
       [] c = "validator.network_bits_per_second" -> "skipped"]

Checks(r) == IF command = "miner" THEN MinerChecks(r) ELSE ValidatorChecks(r)

\* _summary(), as summary_matches_checks() wants it.
Summary(cs) == [s \in ResultStatus |-> Cardinality({c \in DOMAIN cs : cs[c] = s})]
-----------------------------------------------------------------------------
(* The commands *)

ReadinessInit ==
  /\ Init
  /\ command \in {"probe", "miner", "validator"}
  /\ checks = NoChecks /\ summary = NoSummary /\ exit = "none"

Probing ==
  /\ ProbeNext
  /\ UNCHANGED <<command, checks, summary, exit>>

Over == pc = "ended" /\ exit = "none"

\* A ProbeError is printed; anything else is a traceback.
ProbeFailed ==
  /\ Over /\ error # "none"
  /\ exit' = IF error \in ProbeErrors THEN "2" ELSE "traceback"
  /\ UNCHANGED <<vars, command, checks, summary>>

PrintProbe ==
  /\ Over /\ error = "none" /\ command = "probe"
  /\ exit' = "0"
  /\ UNCHANGED <<vars, command, checks, summary>>

\* The profile is loaded once there is a report.
RunCheck ==
  /\ Over /\ error = "none" /\ command # "probe"
  /\ \E file \in Files :
       IF LoadProfile(file) # "none"
       THEN exit' = "2" /\ UNCHANGED <<checks, summary>>
       ELSE /\ checks' = Checks(report)
            /\ summary' = Summary(Checks(report))
            /\ exit' = "0"
  /\ UNCHANGED <<vars, command>>

Next == Probing \/ ProbeFailed \/ PrintProbe \/ RunCheck

Spec == ReadinessInit /\ [][Next]_allVars
-----------------------------------------------------------------------------
TypeOK ==
  /\ ProbeTypeOK
  /\ command \in {"probe", "miner", "validator"}
  /\ checks \in {NoChecks} \cup [MinerCodes -> ResultStatus] \cup [ValidatorCodes -> ResultStatus]
  /\ summary \in [ResultStatus -> Nat]
  /\ exit \in {"none", "0", "2", "traceback"}

Checked(role) == command = role /\ checks # NoChecks

\* A live miner passes only with a GPU large enough in the machine, and fails
\* only without one: a failure of NVML is neither (docs/readiness.md:15-17).
VramVerdictIsTrue ==
  Checked("miner") /\ ~fixture =>
    /\ checks["miner.vram_bytes"] = "pass" => \E i \in DOMAIN gpus : gpus[i] >= Vram
    /\ checks["miner.vram_bytes"] = "fail" => \A i \in DOMAIN gpus : gpus[i] < Vram

\* The community's check never tells a miner more than the source's: it
\* passes or warns when and only when the source passes.
CommunityFollowsSource ==
  Checked("miner") =>
    /\ checks["community.miner.vram_headroom"] \in {"pass", "warn"}
         <=> checks["miner.vram_bytes"] = "pass"
    /\ checks["community.miner.vram_headroom"] = "fail" => checks["miner.vram_bytes"] = "fail"
    /\ checks["community.miner.vram_headroom"] = "unsupported"
         <=> checks["miner.vram_bytes"] = "unsupported"

\* A validator whose two disk checks pass has one disk that is both large
\* enough and an NVMe: not one of each (docs/readiness.md:18-20).
OneDiskPasses ==
  Checked("validator") /\ (\A c \in DiskCodes : checks[c] = "pass") =>
    \E i \in DOMAIN disks : disks[i].kind = "nvme" /\ disks[i].total >= Nvme
=============================================================================
