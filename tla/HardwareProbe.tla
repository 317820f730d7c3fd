---------------------------- MODULE HardwareProbe ----------------------------
(***************************************************************************)
(* run_live_probe and run_fixture_probe (probe/service.py): the facts, the *)
(* disks and the GPU of one report, gathered in this order, the provider   *)
(* on NVML (probe/providers.py), and what a public report leaves out       *)
(* (probe/privacy.py).                                                     *)
(*                                                                         *)
(* The machine and NVML are external: any call may fail, and what they     *)
(* tell may be what a strict model refuses.  An exception that is no       *)
(* ProbeError is "alien": the command has no handler for it.               *)
(***************************************************************************)
EXTENDS Naturals, Sequences

CONSTANTS
  MaxCapacity,   \* no memory of a GPU is larger
  Capacities,    \* the memories of GPUs that are told apart
  Amounts,       \* the amounts of anything else that are
  MaxDevices,    \* how many GPUs a machine has at most
  MaxPartitions  \* how many partitions it lists at most

\* NVML counts in 64 bits, and a fixture has at most MAX_FIXTURE_BYTES.
ASSUME CapacityAssumption == MaxCapacity \in Nat /\ Capacities \subseteq 0..MaxCapacity
ASSUME AmountAssumption   == Amounts \subseteq Nat /\ 0 \in Amounts
ASSUME MachineAssumption  == MaxDevices \in Nat \ {0} /\ MaxPartitions \in Nat \ {0}

VARIABLES
  fixture,  \* is it a fixture that is probed?
  privacy,  \* the --privacy asked for
  pc,       \* where the probe is
  gpus,     \* the memories of the GPUs that NVML counts in the machine
  session,  \* what has become of NVML: "none", "open", "closed" or "stuck"
  devices,  \* the devices read so far
  facts,    \* of SystemInfo, CpuInfo and MemoryInfo: cores and memory
  mounts,   \* the mount points looked at, in their order
  disks,    \* the disks found
  gpu,      \* the GpuProbe
  report,   \* the ProbeReport that is returned
  error     \* the exception that is raised

vars == <<fixture, privacy, pc, gpus, session, devices, facts, mounts, disks, gpu, report, error>>

asked   == <<fixture, privacy>>
nvml    == <<gpus, session, devices>>
found   == <<mounts, disks>>
outcome == <<report, error>>

\* No PositiveInt is 0, which stands for None.
Unknown  == 0
Positive == Amounts \ {0}

UpTo(n, S) == UNION {[1..k -> S] : k \in 0..n}

DiskKind  == {"nvme", "hdd", "unknown"}
GpuStatus == {"detected", "no-supported-gpu", "unknown", "unsupported"}
\* A mount point is one of the partitions' in their order, or None, or the root
\* that stands in for all of them.
NoMount   == 0
Root      == MaxPartitions + 1
DiskInfo  == [kind : DiskKind, total : Positive, mount : NoMount..Root]
Facts     == [cores : Amounts, memory : Positive]
\* status_matches_devices
GpuProbe  == {g \in [status : GpuStatus, devices : UpTo(MaxDevices, Capacities)] :
                g.status = "detected" <=> g.devices # <<>>}

Identifiers == {"os_version", "host", "disk", "gpu"}
ProbeReport == [privacy : {"private", "public"}, facts : Facts,
                disks : UpTo(MaxPartitions, DiskInfo), gpu : GpuProbe,
                identifiers : SUBSET Identifiers]

ProbeErrors == {"fixture_read_error", "fixture_too_large", "fixture_invalid",
                "provider_malformed", "failed"}

NoFacts  == [cores |-> Unknown, memory |-> Unknown]
NoGpu    == [status |-> "no-supported-gpu", devices |-> <<>>]
NoReport == [privacy |-> "none"]

Without(status) == [status |-> status, devices |-> <<>>]

Init ==
  /\ fixture \in BOOLEAN /\ privacy \in {"private", "support", "public"}
  /\ pc = IF fixture THEN "load" ELSE "describe"
  /\ gpus = <<>> /\ session = "none" /\ devices = <<>>
  /\ facts = NoFacts /\ mounts = <<>> /\ disks = <<>> /\ gpu = NoGpu
  /\ report = NoReport /\ error = "none"

Raises(exception) == error' = exception /\ pc' = "ended"
-----------------------------------------------------------------------------
(* A fixture *)

\* _load_fixture()
FixtureRefused ==
  /\ pc = "load"
  /\ \E e \in {"fixture_read_error", "fixture_too_large", "fixture_invalid"} : Raises(e)
  /\ UNCHANGED <<asked, nvml, facts, found, gpu, report>>

\* Its GPU stays raw until the provider boundary.
FixtureLoaded ==
  /\ pc = "load"
  /\ \E f \in Facts, d \in UpTo(MaxPartitions, [kind : DiskKind, total : Positive, mount : {NoMount}]) :
       facts' = f /\ disks' = d
  /\ pc' = "raw"
  /\ UNCHANGED <<asked, nvml, mounts, gpu, outcome>>

\* _validated_gpu()
Validate ==
  /\ pc = "raw"
  /\ \/ /\ \E g \in GpuProbe : gpu' = g
        /\ pc' = "report"
        /\ UNCHANGED error
     \/ Raises("provider_malformed") /\ UNCHANGED gpu
  /\ UNCHANGED <<asked, nvml, facts, found, report>>
-----------------------------------------------------------------------------
(* The live machine: SystemInfo, CpuInfo, MemoryInfo *)

\* getpass.getuser() raises without a name to give; CpuInfo and MemoryInfo
\* refuse what does not add up.
DescribeFails ==
  /\ pc = "describe"
  /\ Raises("alien")
  /\ UNCHANGED <<asked, nvml, facts, found, gpu, report>>

Describe ==
  /\ pc = "describe"
  /\ \E f \in Facts : facts' = f
  /\ pc' = "disks"
  /\ UNCHANGED <<asked, nvml, found, gpu, outcome>>

(* _live_disks() *)

Seen == {disks[i].mount : i \in DOMAIN disks}

\* The partitions come sorted.  One whose mount point is in the list, that
\* cannot be read or that has no bytes is passed over.
Partition(m) ==
  /\ pc = "disks" /\ Len(mounts) < MaxPartitions
  /\ \A i \in DOMAIN mounts : mounts[i] <= m
  /\ mounts' = Append(mounts, m)
  /\ \/ UNCHANGED disks
     \/ /\ m \notin Seen
        /\ \E total \in Positive :
             disks' = Append(disks, [kind |-> "unknown", total |-> total, mount |-> m])
  /\ UNCHANGED <<asked, pc, nvml, facts, gpu, outcome>>

\* DiskInfo refuses a disk with more free than it has; the fallback has no
\* handler for a root that cannot be read.
DisksFail ==
  /\ pc = "disks"
  /\ Raises("alien")
  /\ UNCHANGED <<asked, nvml, facts, found, gpu, report>>

\* Without a disk it is the root that is reported.
DisksListed ==
  /\ pc = "disks"
  /\ IF disks # <<>> THEN UNCHANGED disks
     ELSE \E total \in Positive :
            disks' = <<[kind |-> "unknown", total |-> total, mount |-> Root]>>
  /\ pc' = "import"
  /\ UNCHANGED <<asked, nvml, facts, mounts, gpu, outcome>>
-----------------------------------------------------------------------------
(* NvidiaProvider.probe() *)

Returns(g) == gpu' = g /\ pc' = "finally"

\* ImportError means no binding; what else an import raises leaves probe(),
\* and the provider boundary makes it a ProbeError.
Import ==
  /\ pc = "import"
  /\ \/ pc' = "init" /\ UNCHANGED <<gpu, error>>
     \/ gpu' = Without("unsupported") /\ pc' = "report" /\ UNCHANGED error
     \/ Raises("failed") /\ UNCHANGED gpu
  /\ UNCHANGED <<asked, nvml, facts, found, report>>

NvmlInit ==
  /\ pc = "init" /\ pc' = "count"
  /\ session' = "open"
  /\ \E g \in UpTo(MaxDevices, Capacities) : gpus' = g
  /\ UNCHANGED <<asked, devices, facts, found, gpu, outcome>>

NvmlRaises(answer) ==
  /\ pc \in {"init", "count", "driver", "device"}
  /\ Returns(Without(answer))
  /\ UNCHANGED <<asked, nvml, facts, found, outcome>>

\* Mutant: a driver that fails has no GPU.
NvmlFailsAsNone == NvmlRaises("no-supported-gpu")

\* Whatever a call raises, what was read so far is dropped.
NvmlFails == NvmlRaises("unknown")

Count ==
  /\ pc = "count"
  /\ IF gpus = <<>> THEN Returns(NoGpu) ELSE pc' = "driver" /\ UNCHANGED gpu
  /\ UNCHANGED <<asked, nvml, facts, found, outcome>>

Driver ==
  /\ pc = "driver" /\ pc' = "device"
  /\ UNCHANGED <<asked, nvml, facts, found, gpu, outcome>>

\* GpuDevice refuses a memory of 0 bytes: then only NvmlFails is left.
Device ==
  /\ pc = "device" /\ Len(devices) < Len(gpus)
  /\ gpus[Len(devices) + 1] # Unknown
  /\ devices' = Append(devices, gpus[Len(devices) + 1])
  /\ UNCHANGED <<asked, pc, gpus, session, facts, found, gpu, outcome>>

Detected ==
  /\ pc = "device" /\ Len(devices) = Len(gpus)
  /\ Returns([status |-> "detected", devices |-> devices])
  /\ UNCHANGED <<asked, nvml, facts, found, outcome>>

\* The finally: a shutdown that fails is suppressed.
Finally ==
  /\ pc = "finally" /\ pc' = "report"
  /\ IF session = "open" THEN session' \in {"closed", "stuck"} ELSE UNCHANGED session
  /\ UNCHANGED <<asked, gpus, devices, facts, found, gpu, outcome>>
-----------------------------------------------------------------------------
(* The report *)

\* A live GPU has no identifier, and a fixture may have them all.
Private ==
  [privacy |-> "private", facts |-> facts, disks |-> disks, gpu |-> gpu,
   identifiers |-> IF fixture THEN Identifiers ELSE Identifiers \ {"gpu"}]

\* A disk keeps what it is and loses where it is.
Unnamed(ds) == [i \in DOMAIN ds |-> [ds[i] EXCEPT !.mount = NoMount]]

PublicReport(r) ==
  [r EXCEPT !.privacy = "public", !.identifiers = {}, !.disks = Unnamed(r.disks)]

\* For support the report stays private, and says so.
Report ==
  /\ pc = "report" /\ pc' = "ended"
  /\ report' = IF privacy = "public" THEN PublicReport(Private) ELSE Private
  /\ UNCHANGED <<asked, nvml, facts, found, gpu, error>>

ProbeNext ==
  \/ FixtureRefused \/ FixtureLoaded \/ Validate
  \/ DescribeFails \/ Describe
  \/ \E m \in 1..MaxPartitions : Partition(m)
  \/ DisksFail \/ DisksListed
  \/ Import \/ NvmlInit \/ NvmlFails \/ Count \/ Driver \/ Device \/ Detected \/ Finally
  \/ Report
-----------------------------------------------------------------------------
ProbeTypeOK ==
  /\ fixture \in BOOLEAN /\ privacy \in {"private", "support", "public"}
  /\ pc \in {"load", "raw", "describe", "disks", "import", "init", "count", "driver", "device",
             "finally", "report", "ended"}
  /\ gpus \in UpTo(MaxDevices, Capacities) /\ devices \in UpTo(MaxDevices, Capacities \ {0})
  /\ session \in {"none", "open", "closed", "stuck"}
  /\ facts \in Facts \cup {NoFacts}
  /\ mounts \in UpTo(MaxPartitions, 1..MaxPartitions)
  /\ disks \in UpTo(MaxPartitions, DiskInfo)
  /\ gpu \in GpuProbe
  /\ report \in ProbeReport \cup {NoReport}
  /\ error \in ProbeErrors \cup {"none", "alien"}

\* What NVML opened is shut down, or was tried to be, whatever raised in
\* between (probe/providers.py:83-86).
NvmlIsShutDown == pc \in {"report", "ended"} => session # "open"
=============================================================================
