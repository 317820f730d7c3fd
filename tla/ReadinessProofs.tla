---------------------------- MODULE ReadinessProofs ----------------------------
(* The probe and the checks for any machine and any profile.  A verdict of   *)
(* the checks is about the machine that NVML counted, whatever calls failed. *)
EXTENDS Readiness, FiniteSetTheorems, SequenceTheorems, WellFoundedInduction, TLAPS

-----------------------------------------------------------------------------
(* Lemmas about the operators *)

\* Two lists of disks of the same kinds and sizes.
SameDisks(ds, others) ==
  /\ DOMAIN ds = DOMAIN others
  /\ \A i \in DOMAIN ds : ds[i].kind = others[i].kind /\ ds[i].total = others[i].total

\* A bounded set of numbers has a largest.
LEMMA Largest0 ==
  ASSUME NEW S \in SUBSET (0..MaxCapacity), S # {}
  PROVE  \E v \in S : \A w \in S : w <= v
<1> DEFINE T == {n \in Nat : \E v \in S : n = MaxCapacity - v}
           R == OpToRel(<, Nat)
<1>1. MaxCapacity \in Nat
  BY CapacityAssumption
<1>2. T \subseteq Nat
  OBVIOUS
<1>3. PICK s \in S : TRUE
  OBVIOUS
<1>4. MaxCapacity - s \in T
  BY <1>1
<1>5. IsWellFoundedOn(R, Nat)
  BY NatLessThanWellFounded
<1> HIDE DEF R
<1>6. PICK x \in T : \A y \in T : ~(<<y, x>> \in R)
  BY <1>2, <1>4, <1>5, WFMin
<1>7. PICK v \in S : x = MaxCapacity - v
  BY <1>6
<1>8. ASSUME NEW w \in S, ~(w <= v) PROVE FALSE
  <2>1. v \in Nat /\ w \in Nat /\ w <= MaxCapacity /\ v <= MaxCapacity /\ v < w
    BY <1>8, <1>1
  <2>2. MaxCapacity - w \in Nat /\ MaxCapacity - w < MaxCapacity - v
    BY <2>1, <1>1
  <2>3. MaxCapacity - w \in T
    BY <2>2
  <2>4. <<MaxCapacity - w, x>> \in R
    BY <2>2, <1>7, <1>2, <1>6 DEF R, OpToRel
  <2> QED
    BY <2>3, <2>4, <1>6
<1> QED
  BY <1>8

\* A set of numbers has a least.
LEMMA Least ==
  ASSUME NEW S \in SUBSET Nat, S # {}
  PROVE  \E x \in S : \A y \in S : x <= y
<1> DEFINE R == OpToRel(<, Nat)
<1>1. PICK s \in S : TRUE
  OBVIOUS
<1>2. IsWellFoundedOn(R, Nat)
  BY NatLessThanWellFounded
<1> HIDE DEF R
<1>3. PICK x \in S : \A y \in S : ~(<<y, x>> \in R)
  BY <1>1, <1>2, WFMin
<1>4. ASSUME NEW y \in S, ~(x <= y) PROVE FALSE
  <2>1. x \in Nat /\ y \in Nat /\ y < x
    BY <1>4
  <2>2. <<y, x>> \in R
    BY <2>1 DEF R, OpToRel
  <2> QED
    BY <2>2, <1>3
<1> QED
  BY <1>4

\* The first of the largest elements of a sequence, which max() returns: the
\* shortest prefix that has no largest element is not there, and among the
\* places of the largest element there is a least.
LEMMA FirstLargest ==
  ASSUME NEW n \in Nat \ {0}, NEW t \in [1..n -> Nat]
  PROVE  \E i \in 1..n : (\A j \in 1..n : t[j] <= t[i]) /\ \A j \in 1..i - 1 : t[j] < t[i]
<1> DEFINE Top(k, i) == \A j \in 1..k : t[j] <= t[i]
           None(k) == ~\E i \in 1..k : Top(k, i)
           Bad == {k \in 1..n : None(k)}
<1>1. Bad = {}
  <2> SUFFICES ASSUME Bad # {} PROVE FALSE
    OBVIOUS
  <2>1. PICK k \in Bad : \A y \in Bad : k <= y
    <3>1. Bad \in SUBSET Nat
      OBVIOUS
    <3> HIDE DEF Bad
    <3> QED
      BY <3>1, Least
  <2>2. k # 1
    <3>1. Top(1, 1)
      OBVIOUS
    <3> QED
      BY <3>1
  <2>3. k \in 1..n /\ None(k)
    BY <2>1
  <2>4. k - 1 \in 1..n /\ k - 1 \notin Bad
    <3> HIDE DEF Bad
    <3> QED
      BY <2>1, <2>2, <2>3
  <2>5. ~None(k - 1)
    <3> HIDE DEF None
    <3> QED
      BY <2>4
  <2>6. PICK i \in 1..k - 1 : Top(k - 1, i)
    BY <2>5
  <2>7. t[i] \in Nat /\ t[k] \in Nat /\ i \in 1..k /\ k \in 1..k
    BY <2>3, <2>6
  <2>8. CASE t[k] <= t[i]
    <3>1. ASSUME NEW j \in 1..k PROVE t[j] <= t[i]
      BY <2>6, <2>8, <2>3
    <3> QED
      BY <3>1, <2>3, <2>7
  <2>9. CASE t[i] < t[k]
    <3>1. ASSUME NEW j \in 1..k PROVE t[j] <= t[k]
      <4>1. CASE j = k
        BY <4>1, <2>7
      <4>2. CASE j # k
        <5>1. j \in 1..k - 1 /\ j \in 1..n
          BY <4>2, <2>3
        <5>2. t[j] <= t[i] /\ t[j] \in Nat
          BY <5>1, <2>6
        <5>3. \A x, y, z \in Nat : x <= y /\ y < z => x <= z
          OBVIOUS
        <5> HIDE DEF Bad, None, Top
        <5> QED
          BY <5>2, <5>3, <2>7, <2>9, Zenon
      <4> QED
        BY <4>1, <4>2
    <3> QED
      BY <3>1, <2>3, <2>7
  <2> QED
    BY <2>7, <2>8, <2>9
<1>2. PICK m \in 1..n : Top(n, m)
  <2>1. ~None(n)
    <3> HIDE DEF None
    <3> QED
      BY <1>1
  <2> QED
    BY <2>1
<1> DEFINE Places == {i \in 1..n : Top(n, i)}
<1>3. PICK i \in Places : \A y \in Places : i <= y
  <2>1. Places \in SUBSET Nat /\ m \in Places
    BY <1>2
  <2> HIDE DEF Places
  <2> QED
    BY <2>1, Least
<1>4. ASSUME NEW j \in 1..i - 1 PROVE t[j] < t[i]
  <2>1. j \in 1..n /\ j \notin Places /\ t[j] <= t[i]
    BY <1>3
  <2>2. PICK l \in 1..n : ~(t[l] <= t[j])
    BY <2>1
  <2>3. t[l] <= t[i]
    BY <1>3
  <2> QED
    BY <2>1, <2>2, <2>3
<1> QED
  BY <1>3, <1>4

\* The largest disk is one of the disks.
LEMMA LargestIsThere ==
  ASSUME NEW ds \in UpTo(MaxPartitions, DiskInfo), ds # <<>>
  PROVE  Largest(ds) \in DOMAIN ds
<1>1. PICK n \in 0..MaxPartitions : ds \in [1..n -> DiskInfo]
  BY DEF UpTo
<1>2. n \in Nat \ {0}
  BY <1>1, MachineAssumption
<1>3. \A i \in 1..n : ds[i].total \in Nat
  <2>1. \A d \in DiskInfo : d.total \in Nat
    BY AmountAssumption DEF DiskInfo, Positive
  <2> QED
    BY <1>1, <2>1
<1> DEFINE t == [i \in 1..n |-> ds[i].total]
<1>4. t \in [1..n -> Nat] /\ \A i \in 1..n : t[i] = ds[i].total
  BY <1>3
<1> HIDE DEF t
<1>5. PICK i \in 1..n : (\A j \in 1..n : t[j] <= t[i]) /\ \A j \in 1..i - 1 : t[j] < t[i]
  BY <1>2, <1>4, FirstLargest
<1>6. \A j \in 1..i - 1 : j \in 1..n
  BY <1>2
<1>7. DOMAIN ds = 1..n
  BY <1>1
<1>8. \E k \in DOMAIN ds : /\ \A j \in DOMAIN ds : ds[j].total <= ds[k].total
                           /\ \A j \in 1..k - 1 : ds[j].total < ds[k].total
  BY <1>4, <1>5, <1>6, <1>7
<1> QED
  BY <1>8 DEF Largest

LEMMA SequenceParts ==
  ASSUME NEW n \in Nat, NEW S, NEW s \in UpTo(n, S)
  PROVE  s \in Seq(S) /\ Len(s) \in 0..n /\ DOMAIN s = 1..Len(s)
  BY DEF UpTo

\* What is known of a GPU is the largest memory there is, or nothing.
LEMMA ActualIsLargest ==
  ASSUME NEW g \in GpuProbe
  PROVE  /\ Actual(g) \in Nat
         /\ Actual(g) # Unknown => Actual(g) \in Known(g)
         /\ Known(g) = {} => Actual(g) = Unknown
         /\ \A v \in Known(g) : v <= Actual(g)
<1>1. Known(g) \in SUBSET (0..MaxCapacity)
  <2>1. g.devices \in UpTo(MaxDevices, Capacities)
    BY DEF GpuProbe
  <2>2. \A i \in DOMAIN g.devices : g.devices[i] \in Capacities
    BY <2>1, MachineAssumption, SequenceParts
  <2> QED
    BY <2>2, CapacityAssumption DEF Known
<1>2. CASE Known(g) = {}
  BY <1>2 DEF Actual, Unknown
<1>3. CASE Known(g) # {}
  <2>1. \E v \in Known(g) : \A w \in Known(g) : w <= v
    BY <1>1, <1>3, Largest0
  <2>2. Actual(g) \in Known(g) /\ \A w \in Known(g) : w <= Actual(g)
    BY <1>3, <2>1 DEF Actual
  <2> QED
    BY <1>1, <1>3, <2>2, CapacityAssumption
<1> QED
  BY <1>2, <1>3

\* A GPU that is not detected has no memory that is known.
LEMMA UndetectedUnknown ==
  ASSUME NEW g \in GpuProbe, g.status # "detected"
  PROVE  Actual(g) = Unknown
<1>1. g.devices = <<>>
  BY DEF GpuProbe
<1>2. Known(g) = {}
  BY <1>1 DEF Known
<1> QED
  BY <1>2, ActualIsLargest

LEMMA Thresholds == Vram \in Nat \ {0} /\ Cores \in Nat \ {0} /\ Memory \in Nat \ {0} /\ Nvme \in Nat \ {0}
  BY ProfileAssumption

\* The two verdicts on a GPU, case by case.
LEMMA VerdictsOnGpu ==
  ASSUME NEW g \in GpuProbe
  PROVE  /\ VramStatus(g) \in ResultStatus
         /\ HeadroomStatus(g) \in ResultStatus
         /\ VramStatus(g) = "pass" <=> g.status = "detected" /\ Actual(g) >= Vram
         /\ VramStatus(g) = "fail" <=> \/ g.status = "no-supported-gpu"
                                       \/ /\ g.status = "detected"
                                          /\ Actual(g) # Unknown /\ Actual(g) < Vram
         /\ VramStatus(g) = "unsupported" <=> g.status = "unsupported"
         /\ HeadroomStatus(g) \in {"pass", "warn"} <=> Actual(g) >= Vram
         /\ HeadroomStatus(g) = "fail" <=> Actual(g) # Unknown /\ Actual(g) < Vram
         /\ HeadroomStatus(g) = "unsupported" <=> Actual(g) = Unknown /\ g.status = "unsupported"
<1>1. g.status \in GpuStatus /\ Actual(g) \in Nat /\ Vram \in Nat \ {0} /\ Headroom \in Nat
  BY ActualIsLargest, Thresholds DEF GpuProbe, Headroom
<1>2. CASE g.status = "detected"
  <2>1. VramStatus(g) = Numeric(Actual(g), Vram)
    BY <1>2 DEF VramStatus
  <2>2. CASE Actual(g) = Unknown
    <3>1. HeadroomStatus(g) = "unknown" /\ VramStatus(g) = "unknown"
      BY <1>2, <2>1, <2>2 DEF HeadroomStatus, HeadroomAbove, Numeric
    <3> QED
      BY <1>1, <1>2, <2>2, <3>1 DEF ResultStatus, Unknown
  <2>3. CASE Actual(g) # Unknown /\ Actual(g) < Vram
    <3>1. HeadroomStatus(g) = "fail" /\ VramStatus(g) = "fail"
      BY <1>1, <2>1, <2>3 DEF HeadroomStatus, HeadroomAbove, Numeric
    <3> QED
      BY <1>1, <1>2, <2>3, <3>1 DEF ResultStatus
  <2>4. CASE Actual(g) # Unknown /\ Actual(g) >= Vram
    <3>1. HeadroomStatus(g) = IF Actual(g) < Headroom THEN "warn" ELSE "pass"
      BY <1>1, <2>4 DEF HeadroomStatus, HeadroomAbove
    <3>2. VramStatus(g) = "pass"
      BY <1>1, <2>1, <2>4 DEF Numeric
    <3> QED
      BY <1>1, <1>2, <2>4, <3>1, <3>2 DEF ResultStatus
  <2> QED
    BY <1>1, <2>2, <2>3, <2>4
<1>3. CASE g.status # "detected"
  <2>1. Actual(g) = Unknown /\ ~(Actual(g) >= Vram)
    BY <1>1, <1>3, UndetectedUnknown DEF Unknown
  <2>2. HeadroomStatus(g) = IF g.status = "unsupported" THEN "unsupported" ELSE "unknown"
    BY <2>1 DEF HeadroomStatus, HeadroomAbove
  <2>3. VramStatus(g) = CASE g.status = "unsupported"      -> "unsupported"
                          [] g.status = "no-supported-gpu" -> "fail"
                          [] g.status = "unknown"          -> "unknown"
    BY <1>1, <1>3 DEF VramStatus, GpuStatus
  <2>4. CASE g.status = "unsupported"
    BY <2>1, <2>2, <2>3, <2>4 DEF ResultStatus
  <2>5. CASE g.status = "no-supported-gpu"
    BY <2>1, <2>2, <2>3, <2>5 DEF ResultStatus
  <2>6. CASE g.status = "unknown"
    BY <2>1, <2>2, <2>3, <2>6 DEF ResultStatus
  <2> QED
    BY <1>1, <1>3, <2>4, <2>5, <2>6 DEF GpuStatus
<1> QED
  BY <1>2, <1>3

\* One more fits into a sequence that is not full.
LEMMA AppendFits ==
  ASSUME NEW n \in Nat, NEW S, NEW s \in UpTo(n, S), NEW e \in S, Len(s) < n
  PROVE  Append(s, e) \in UpTo(n, S) /\ Len(Append(s, e)) = Len(s) + 1
<1>1. PICK k \in 0..n : s \in [1..k -> S]
  BY DEF UpTo
<1>2. s \in Seq(S) /\ Len(s) = k
  BY <1>1
<1>3. Append(s, e) \in Seq(S) /\ Len(Append(s, e)) = k + 1
  BY <1>2
<1>4. Append(s, e) \in [1..k + 1 -> S]
  BY <1>3, LenProperties
<1>5. k + 1 \in 0..n
  BY <1>2
<1> QED
  BY <1>2, <1>3, <1>4, <1>5 DEF UpTo

LEMMA EmptyFits == ASSUME NEW n \in Nat, NEW S PROVE <<>> \in UpTo(n, S)
<1>1. <<>> \in [1..0 -> S]
  OBVIOUS
<1> QED
  BY <1>1 DEF UpTo

LEMMA NoDevices ==
  ASSUME NEW status \in GpuStatus \ {"detected"}
  PROVE  Without(status) \in GpuProbe /\ NoGpu \in GpuProbe
<1>1. MaxDevices \in Nat
  BY MachineAssumption
<1>2. <<>> \in UpTo(MaxDevices, Capacities)
  BY <1>1, EmptyFits
<1> QED
  BY <1>2 DEF Without, NoGpu, GpuProbe, GpuStatus

\* What fits into a set of sequences fits into one of more.
LEMMA UpToGrows ==
  ASSUME NEW n \in Nat, NEW S, NEW T, S \subseteq T
  PROVE  UpTo(n, S) \subseteq UpTo(n, T)
  BY DEF UpTo
\* A disk that loses its mount point is still a disk, of its kind and size.
LEMMA UnnamedDisks ==
  ASSUME NEW ds \in UpTo(MaxPartitions, DiskInfo)
  PROVE  Unnamed(ds) \in UpTo(MaxPartitions, DiskInfo) /\ SameDisks(Unnamed(ds), ds)
<1>1. PICK n \in 0..MaxPartitions : ds \in [1..n -> DiskInfo]
  BY DEF UpTo
<1>2. ASSUME NEW d \in DiskInfo
      PROVE  /\ [d EXCEPT !.mount = NoMount] \in DiskInfo
             /\ [d EXCEPT !.mount = NoMount].kind = d.kind
             /\ [d EXCEPT !.mount = NoMount].total = d.total
  BY MachineAssumption DEF DiskInfo, NoMount, Root
<1>3. Unnamed(ds) \in [1..n -> DiskInfo]
  BY <1>1, <1>2 DEF Unnamed
<1>4. ASSUME NEW i \in 1..n PROVE Unnamed(ds)[i].kind = ds[i].kind /\ Unnamed(ds)[i].total = ds[i].total
  BY <1>1, <1>2 DEF Unnamed
<1> QED
  BY <1>1, <1>3, <1>4 DEF UpTo, SameDisks
-----------------------------------------------------------------------------
(* The probe *)

\* How far the probe has got.
Counting ==
  /\ pc \in {"describe", "disks"} => Len(disks) <= Len(mounts)
  /\ pc \notin {"load", "describe"} /\ error = "none" => facts \in Facts
  /\ pc \in {"driver", "device"} => gpus # <<>>
  /\ pc # "ended" => error = "none"

ProbeInv == ProbeTypeOK /\ Counting

LEMMA ProbeInvInit == Init => ProbeInv
<1> SUFFICES ASSUME Init PROVE ProbeInv
  OBVIOUS
<1>1. NoGpu \in GpuProbe
  BY NoDevices DEF GpuStatus
<1>2. \A S : <<>> \in UpTo(MaxDevices, S) /\ <<>> \in UpTo(MaxPartitions, S)
  BY MachineAssumption, EmptyFits
<1> QED
  BY <1>1, <1>2 DEF Init, ProbeInv, ProbeTypeOK, Counting

LEMMA ProbeInvStep ==
  ASSUME ProbeInv, ProbeNext
  PROVE  ProbeInv'
<1>1. ASSUME FixtureRefused PROVE ProbeInv'
  BY <1>1, MachineAssumption DEF FixtureRefused, Raises, asked, nvml, found, outcome, ProbeInv, ProbeTypeOK, Counting, ProbeErrors
<1>2. ASSUME FixtureLoaded PROVE ProbeInv'
  <2>0. PICK f \in Facts, d \in UpTo(MaxPartitions, [kind : DiskKind, total : Positive, mount : {NoMount}]) :
          facts' = f /\ disks' = d
    BY <1>2 DEF FixtureLoaded
  <2>1. disks' \in UpTo(MaxPartitions, DiskInfo)
    <3>1. [kind : DiskKind, total : Positive, mount : {NoMount}] \subseteq DiskInfo
      BY MachineAssumption DEF DiskInfo, NoMount, Root
    <3> QED
      BY <2>0, <3>1, UpToGrows, MachineAssumption
  <2> QED
    BY <1>2, <2>0, <2>1 DEF FixtureLoaded, asked, nvml, found, outcome, ProbeInv, ProbeTypeOK, Counting, ProbeErrors
<1>3. ASSUME Validate PROVE ProbeInv'
  BY <1>3, MachineAssumption DEF Validate, Raises, asked, nvml, found, outcome, ProbeInv, ProbeTypeOK, Counting, ProbeErrors
<1>4. ASSUME DescribeFails PROVE ProbeInv'
  BY <1>4, MachineAssumption DEF DescribeFails, Raises, asked, nvml, found, outcome, ProbeInv, ProbeTypeOK, Counting, ProbeErrors
<1>5. ASSUME Describe PROVE ProbeInv'
  BY <1>5, MachineAssumption DEF Describe, asked, nvml, found, outcome, ProbeInv, ProbeTypeOK, Counting, ProbeErrors
<1>6. ASSUME NEW m \in 1..MaxPartitions, Partition(m) PROVE ProbeInv'
  <2>1. disks' \in UpTo(MaxPartitions, DiskInfo) /\ mounts' \in UpTo(MaxPartitions, 1..MaxPartitions)
        /\ Len(disks') <= Len(mounts')
    <3>0. /\ pc = "disks" /\ Len(mounts) < MaxPartitions /\ Len(disks) <= Len(mounts)
          /\ MaxPartitions \in Nat /\ mounts' = Append(mounts, m)
          /\ mounts \in UpTo(MaxPartitions, 1..MaxPartitions) /\ disks \in UpTo(MaxPartitions, DiskInfo)
      BY <1>6, MachineAssumption DEF Partition, ProbeInv, ProbeTypeOK, Counting
    <3>1. mounts' \in UpTo(MaxPartitions, 1..MaxPartitions) /\ Len(mounts') = Len(mounts) + 1
      BY <1>6, <3>0, AppendFits
    <3>2. Len(disks) \in Nat /\ Len(mounts) \in Nat
      BY <3>0, SequenceParts
    <3>3. CASE UNCHANGED disks
      BY <3>0, <3>1, <3>2, <3>3
    <3>4. ASSUME NEW total \in Positive,
                 disks' = Append(disks, [kind |-> "unknown", total |-> total, mount |-> m])
          PROVE  disks' \in UpTo(MaxPartitions, DiskInfo) /\ Len(disks') = Len(disks) + 1
      <4>1. [kind |-> "unknown", total |-> total, mount |-> m] \in DiskInfo
        BY <3>0, <1>6 DEF DiskInfo, DiskKind, NoMount, Root
      <4>2. Len(disks) < MaxPartitions
        BY <3>0, <3>2
      <4> QED
        BY <3>0, <3>4, <4>1, <4>2, AppendFits
    <3>5. \/ UNCHANGED disks
          \/ \E total \in Positive :
               disks' = Append(disks, [kind |-> "unknown", total |-> total, mount |-> m])
      BY <1>6 DEF Partition
    <3>6. CASE ~UNCHANGED disks
      <4>1. disks' \in UpTo(MaxPartitions, DiskInfo) /\ Len(disks') = Len(disks) + 1
        BY <3>4, <3>5, <3>6
      <4> QED
        BY <3>0, <3>1, <3>2, <4>1
    <3> QED
      BY <3>3, <3>6
  <2> QED
    BY <1>6, <2>1 DEF Partition, Seen, asked, nvml, found, outcome, ProbeInv, ProbeTypeOK, Counting, ProbeErrors
<1>7. ASSUME DisksFail PROVE ProbeInv'
  BY <1>7, MachineAssumption DEF DisksFail, Raises, asked, nvml, found, outcome, ProbeInv, ProbeTypeOK, Counting, ProbeErrors
<1>8. ASSUME DisksListed PROVE ProbeInv'
  <2>1. disks' \in UpTo(MaxPartitions, DiskInfo)
    <3>1. ASSUME NEW total \in Positive,
                 disks' = <<[kind |-> "unknown", total |-> total, mount |-> Root]>>
          PROVE  disks' \in UpTo(MaxPartitions, DiskInfo)
      <4>1. [kind |-> "unknown", total |-> total, mount |-> Root] \in DiskInfo
        BY MachineAssumption DEF DiskInfo, DiskKind, NoMount, Root
      <4>2. disks' \in [1..1 -> DiskInfo] /\ 1 \in 0..MaxPartitions
        BY <3>1, <4>1, MachineAssumption
      <4> QED
        BY <4>2 DEF UpTo
    <3> QED
      BY <1>8, <3>1 DEF DisksListed, ProbeInv, ProbeTypeOK
  <2> QED
    BY <1>8, <2>1 DEF DisksListed, asked, nvml, found, outcome, ProbeInv, ProbeTypeOK, Counting, ProbeErrors
<1>9. ASSUME Import PROVE ProbeInv'
  <2>1. Without("unknown") \in GpuProbe /\ Without("unsupported") \in GpuProbe /\ NoGpu \in GpuProbe
    BY NoDevices DEF GpuStatus
  <2> QED
    BY <1>9, <2>1 DEF Import, Raises, asked, nvml, found, outcome, ProbeInv, ProbeTypeOK, Counting, ProbeErrors
<1>10. ASSUME NvmlInit PROVE ProbeInv'
  BY <1>10, MachineAssumption DEF NvmlInit, asked, nvml, found, outcome, ProbeInv, ProbeTypeOK, Counting, ProbeErrors
<1>11. ASSUME NvmlFails PROVE ProbeInv'
  <2>1. Without("unknown") \in GpuProbe /\ Without("unsupported") \in GpuProbe /\ NoGpu \in GpuProbe
    BY NoDevices DEF GpuStatus
  <2> QED
    BY <1>11, <2>1 DEF NvmlFails, NvmlRaises, Returns, asked, nvml, found, outcome, ProbeInv, ProbeTypeOK, Counting, ProbeErrors
<1>12. ASSUME Count PROVE ProbeInv'
  <2>1. Without("unknown") \in GpuProbe /\ Without("unsupported") \in GpuProbe /\ NoGpu \in GpuProbe
    BY NoDevices DEF GpuStatus
  <2> QED
    BY <1>12, <2>1 DEF Count, Returns, asked, nvml, found, outcome, ProbeInv, ProbeTypeOK, Counting, ProbeErrors
<1>13. ASSUME Driver PROVE ProbeInv'
  BY <1>13, MachineAssumption DEF Driver, asked, nvml, found, outcome, ProbeInv, ProbeTypeOK, Counting, ProbeErrors
<1>14. ASSUME Device PROVE ProbeInv'
  <2>1. devices' \in UpTo(MaxDevices, Capacities \ {0})
    <3>1. /\ Len(devices) < Len(gpus) /\ gpus \in UpTo(MaxDevices, Capacities) /\ MaxDevices \in Nat
          /\ devices \in UpTo(MaxDevices, Capacities \ {0}) /\ gpus[Len(devices) + 1] # 0
      BY <1>14, MachineAssumption DEF Device, Unknown, ProbeInv, ProbeTypeOK, Counting
    <3>2. Len(gpus) \in 0..MaxDevices /\ gpus \in [1..Len(gpus) -> Capacities] /\ Len(devices) \in Nat
      BY <3>1, SequenceParts, LenProperties
    <3>3. gpus[Len(devices) + 1] \in Capacities \ {0} /\ Len(devices) < MaxDevices
      BY <3>1, <3>2
    <3> QED
      BY <1>14, <3>1, <3>3, AppendFits DEF Device
  <2> QED
    BY <1>14, <2>1 DEF Device, asked, nvml, found, outcome, ProbeInv, ProbeTypeOK, Counting, ProbeErrors
<1>15. ASSUME Detected PROVE ProbeInv'
  <2>1. [status |-> "detected", devices |-> devices] \in GpuProbe
    <3>1. /\ devices \in UpTo(MaxDevices, Capacities \ {0}) /\ gpus \in UpTo(MaxDevices, Capacities)
          /\ Len(devices) = Len(gpus) /\ gpus # <<>> /\ MaxDevices \in Nat
      BY <1>15, MachineAssumption DEF Detected, ProbeInv, ProbeTypeOK, Counting
    <3>2. Capacities \ {0} \subseteq Capacities
      OBVIOUS
    <3>3. devices \in UpTo(MaxDevices, Capacities)
      BY <3>1, <3>2, UpToGrows
    <3>4. devices # <<>>
      BY <3>1, SequenceParts
    <3> QED
      BY <3>3, <3>4 DEF GpuProbe, GpuStatus
  <2> QED
    BY <1>15, <2>1 DEF Detected, Returns, asked, nvml, found, outcome, ProbeInv, ProbeTypeOK, Counting, ProbeErrors
<1>16. ASSUME Finally PROVE ProbeInv'
  BY <1>16, MachineAssumption DEF Finally, asked, nvml, found, outcome, ProbeInv, ProbeTypeOK, Counting, ProbeErrors
<1>17. ASSUME Report PROVE ProbeInv'
  <2>1. facts \in Facts /\ disks \in UpTo(MaxPartitions, DiskInfo) /\ gpu \in GpuProbe
    BY <1>17 DEF Report, ProbeInv, ProbeTypeOK, Counting
  <2>2. Unnamed(disks) \in UpTo(MaxPartitions, DiskInfo)
    BY <2>1, UnnamedDisks
  <2>3. Private \in ProbeReport /\ Private.disks = disks
    BY <2>1 DEF Private, ProbeReport, Identifiers
  <2>4. PublicReport(Private) \in ProbeReport
    BY <2>2, <2>3 DEF PublicReport, ProbeReport
  <2> QED
    BY <1>17, <2>3, <2>4 DEF Report, asked, nvml, found, outcome, ProbeInv, ProbeTypeOK, Counting, ProbeErrors
<1> QED
  BY <1>1, <1>2, <1>3, <1>4, <1>5, <1>6, <1>7, <1>8, <1>9, <1>10, <1>11, <1>12, <1>13, <1>14, <1>15, <1>16, <1>17 DEF ProbeNext

\* What the probe knows of the GPUs is what NVML counted.
Reading ==
  /\ pc \in {"load", "raw"} => fixture
  /\ pc \in {"load", "raw", "describe", "disks", "import", "init"} =>
       gpus = <<>> /\ session = "none" /\ gpu = NoGpu
  /\ pc \in {"describe", "disks", "import", "init", "count", "driver"} => devices = <<>>
  /\ \A i \in 1..Len(devices) : i <= Len(gpus) /\ devices[i] = gpus[i]
  /\ session = "open" => pc \in {"count", "driver", "device", "finally"}
  /\ ~fixture /\ pc \in {"finally", "report", "ended"} =>
       /\ gpu.status = "detected" => gpu.devices = gpus
       /\ gpu.status = "no-supported-gpu" => gpus = <<>>

LEMMA ReadingInit == Init => Reading
<1> SUFFICES ASSUME Init PROVE Reading
  OBVIOUS
<1>1. devices = <<>> /\ Len(devices) = 0
  BY DEF Init
<1> QED
  BY <1>1 DEF Init, Reading

LEMMA ReadingStep ==
  ASSUME ProbeInv, Reading, ProbeNext
  PROVE  Reading'
<1>1. ASSUME FixtureRefused PROVE Reading'
  BY <1>1, MachineAssumption DEF FixtureRefused, Raises, asked, nvml, found, outcome, Reading, NoGpu, Without
<1>2. ASSUME FixtureLoaded PROVE Reading'
  BY <1>2, MachineAssumption DEF FixtureLoaded, asked, nvml, found, outcome, Reading, NoGpu, Without
<1>3. ASSUME Validate PROVE Reading'
  BY <1>3, MachineAssumption DEF Validate, Raises, asked, nvml, found, outcome, Reading, NoGpu, Without
<1>4. ASSUME DescribeFails PROVE Reading'
  BY <1>4, MachineAssumption DEF DescribeFails, Raises, asked, nvml, found, outcome, Reading, NoGpu, Without
<1>5. ASSUME Describe PROVE Reading'
  BY <1>5, MachineAssumption DEF Describe, asked, nvml, found, outcome, Reading, NoGpu, Without
<1>6. ASSUME NEW m \in 1..MaxPartitions, Partition(m) PROVE Reading'
  BY <1>6, MachineAssumption DEF Partition, Seen, asked, nvml, found, outcome, Reading, NoGpu, Without
<1>7. ASSUME DisksFail PROVE Reading'
  BY <1>7, MachineAssumption DEF DisksFail, Raises, asked, nvml, found, outcome, Reading, NoGpu, Without
<1>8. ASSUME DisksListed PROVE Reading'
  BY <1>8, MachineAssumption DEF DisksListed, asked, nvml, found, outcome, Reading, NoGpu, Without
<1>9. ASSUME Import PROVE Reading'
  BY <1>9, MachineAssumption DEF Import, Raises, asked, nvml, found, outcome, Reading, NoGpu, Without
<1>10. ASSUME NvmlInit PROVE Reading'
  <2>1. devices = <<>> /\ Len(devices) = 0
    BY <1>10 DEF NvmlInit, Reading
  <2> QED
    BY <1>10, <2>1 DEF NvmlInit, asked, nvml, found, outcome, Reading, NoGpu, Without
<1>11. ASSUME NvmlFails PROVE Reading'
  BY <1>11, MachineAssumption DEF NvmlFails, NvmlRaises, Returns, asked, nvml, found, outcome, Reading, NoGpu, Without
<1>12. ASSUME Count PROVE Reading'
  BY <1>12, MachineAssumption DEF Count, Returns, asked, nvml, found, outcome, Reading, NoGpu, Without
<1>13. ASSUME Driver PROVE Reading'
  BY <1>13, MachineAssumption DEF Driver, asked, nvml, found, outcome, Reading, NoGpu, Without
<1>14. ASSUME Device PROVE Reading'
  <2>1. /\ devices \in Seq(Capacities) /\ gpus \in Seq(Capacities) /\ Len(devices) < Len(gpus)
        /\ devices' = Append(devices, gpus[Len(devices) + 1])
    BY <1>14, MachineAssumption, SequenceParts DEF Device, ProbeInv, ProbeTypeOK
  <2>2. gpus[Len(devices) + 1] \in Capacities
    BY <2>1, ElementOfSeq
  <2>3. /\ Len(devices') = Len(devices) + 1
        /\ \A i \in 1..Len(devices) : devices'[i] = devices[i]
        /\ devices'[Len(devices) + 1] = gpus[Len(devices) + 1]
    BY <2>1, <2>2, AppendProperties
  <2>4. \A i \in 1..Len(devices') : i <= Len(gpus') /\ devices'[i] = gpus'[i]
    BY <1>14, <2>1, <2>3 DEF Device, Reading
  <2> QED
    BY <1>14, <2>4 DEF Device, asked, nvml, found, outcome, Reading, NoGpu, Without
<1>15. ASSUME Detected PROVE Reading'
  <2>1. devices = gpus
    <3>1. devices \in Seq(Capacities) /\ gpus \in Seq(Capacities) /\ Len(devices) = Len(gpus)
      BY <1>15, MachineAssumption, SequenceParts DEF Detected, ProbeInv, ProbeTypeOK
    <3>2. \A i \in 1..Len(devices) : devices[i] = gpus[i]
      BY DEF Reading
    <3> QED
      BY <3>1, <3>2, SeqEqual
  <2> QED
    BY <1>15, <2>1 DEF Detected, Returns, asked, nvml, found, outcome, Reading, NoGpu, Without
<1>16. ASSUME Finally PROVE Reading'
  BY <1>16, MachineAssumption DEF Finally, asked, nvml, found, outcome, Reading, NoGpu, Without
<1>17. ASSUME Report PROVE Reading'
  BY <1>17, MachineAssumption DEF Report, asked, nvml, found, outcome, Reading, NoGpu, Without
<1> QED
  BY <1>1, <1>2, <1>3, <1>4, <1>5, <1>6, <1>7, <1>8, <1>9, <1>10, <1>11, <1>12, <1>13, <1>14, <1>15, <1>16, <1>17 DEF ProbeNext
-----------------------------------------------------------------------------
(* The commands *)

CommandTypeOK ==
  /\ command \in {"probe", "miner", "validator"}
  /\ checks \in {NoChecks} \cup [MinerCodes -> ResultStatus] \cup [ValidatorCodes -> ResultStatus]
  /\ summary \in [ResultStatus -> Nat]
  /\ exit \in {"none", "0", "2", "traceback"}

\* The report says what the probe knows.
Reported ==
  /\ report # NoReport =>
       /\ pc = "ended" /\ error = "none"
       /\ report.gpu = gpu /\ SameDisks(report.disks, disks)
  /\ pc = "ended" /\ error = "none" => report # NoReport

\* The checks are of that report.
OfReport ==
  checks # NoChecks => report # NoReport /\ command # "probe" /\ checks = Checks(report)

IInv == ProbeInv /\ Reading /\ CommandTypeOK /\ Reported /\ OfReport

LEMMA CodesAreFinite == IsFiniteSet(MinerCodes) /\ IsFiniteSet(ValidatorCodes)
<1>1. IsFiniteSet(MinerCodes)
  <2>1. MinerCodes = {"miner.vram_bytes"} \cup {"community.miner.vram_headroom"}
    BY DEF MinerCodes
  <2> QED
    BY <2>1, FS_Singleton, FS_AddElement
<1>2. IsFiniteSet(ValidatorCodes)
  <2> DEFINE A == {"validator.disk_capacity_bytes"}
             B == A \cup {"validator.disk_kind"}
             C == B \cup {"validator.cpu_physical_cores"}
             D == C \cup {"validator.memory_bytes"}
             E == D \cup {"validator.network_bits_per_second"}
  <2>1. IsFiniteSet(A)
    BY FS_Singleton
  <2>2. IsFiniteSet(B)
    BY <2>1, FS_AddElement
  <2>3. IsFiniteSet(C)
    BY <2>2, FS_AddElement
  <2>4. IsFiniteSet(D)
    BY <2>3, FS_AddElement
  <2>5. IsFiniteSet(E)
    BY <2>4, FS_AddElement
  <2>6. ValidatorCodes = E
    BY DEF ValidatorCodes, DiskCodes
  <2> QED
    BY <2>5, <2>6
<1> QED
  BY <1>1, <1>2

\* A summary counts the checks of each status.
LEMMA SummaryType ==
  ASSUME NEW codes, IsFiniteSet(codes), NEW cs \in [codes -> ResultStatus]
  PROVE  Summary(cs) \in [ResultStatus -> Nat]
<1>1. ASSUME NEW s \in ResultStatus PROVE Cardinality({c \in DOMAIN cs : cs[c] = s}) \in Nat
  <2>1. {c \in DOMAIN cs : cs[c] = s} \in SUBSET codes
    OBVIOUS
  <2>2. IsFiniteSet({c \in DOMAIN cs : cs[c] = s})
    BY <2>1, FS_Subset
  <2> QED
    BY <2>2, FS_CardinalityType
<1> QED
  BY <1>1 DEF Summary

\* A check has a status, whatever the report.
LEMMA CheckTypes ==
  ASSUME NEW r, r.gpu \in GpuProbe
  PROVE  /\ MinerChecks(r) \in [MinerCodes -> ResultStatus]
         /\ MinerChecks(r)["miner.vram_bytes"] = VramStatus(r.gpu)
         /\ MinerChecks(r)["community.miner.vram_headroom"] = HeadroomStatus(r.gpu)
         /\ ValidatorChecks(r) \in [ValidatorCodes -> ResultStatus]
<1>1. VramStatus(r.gpu) \in ResultStatus /\ HeadroomStatus(r.gpu) \in ResultStatus
  BY VerdictsOnGpu
<1>2. \A actual, threshold : Numeric(actual, threshold) \in ResultStatus
  BY DEF Numeric, ResultStatus
<1>3. \A kind : KindStatus(kind) \in ResultStatus
  BY DEF KindStatus, ResultStatus
<1>4. "skipped" \in ResultStatus
  BY DEF ResultStatus
<1>5. ASSUME NEW c \in ValidatorCodes PROVE ValidatorChecks(r)[c] \in ResultStatus
  <2>1. CASE c = "validator.cpu_physical_cores"
    BY <2>1, <1>2 DEF ValidatorChecks, ValidatorCodes
  <2>2. CASE c = "validator.memory_bytes"
    BY <2>2, <1>2 DEF ValidatorChecks, ValidatorCodes
  <2>3. CASE c = "validator.disk_capacity_bytes"
    BY <2>3, <1>2 DEF ValidatorChecks, ValidatorCodes, DiskCodes
  <2>4. CASE c = "validator.disk_kind"
    BY <2>4, <1>3 DEF ValidatorChecks, ValidatorCodes, DiskCodes
  <2>5. CASE c = "validator.network_bits_per_second"
    BY <2>5, <1>4 DEF ValidatorChecks, ValidatorCodes
  <2> QED
    BY <2>1, <2>2, <2>3, <2>4, <2>5 DEF ValidatorCodes, DiskCodes
<1> DEFINE Verdict(c) ==
      CASE c = "validator.cpu_physical_cores" -> Numeric(r.facts.cores, Cores)
        [] c = "validator.memory_bytes" -> Numeric(r.facts.memory, Memory)
        [] c = "validator.disk_capacity_bytes" ->
             Numeric(IF r.disks = <<>> THEN Unknown ELSE r.disks[Largest(r.disks)].total, Nvme)
        [] c = "validator.disk_kind" -> KindStatus(LargestKind(r.disks))
        [] c = "validator.network_bits_per_second" -> "skipped"
<1>6. ValidatorChecks(r) = [c \in ValidatorCodes |-> Verdict(c)]
  BY DEF ValidatorChecks
<1>7. ValidatorChecks(r) \in [ValidatorCodes -> ResultStatus]
  <2> HIDE DEF Verdict
  <2>1. \A c \in ValidatorCodes : Verdict(c) \in ResultStatus
    BY <1>5, <1>6
  <2> QED
    BY <2>1, <1>6
<1> QED
  BY <1>1, <1>7 DEF MinerChecks, MinerCodes

\* The two verdicts on the disks.
LEMMA DiskVerdicts ==
  ASSUME NEW r
  PROVE  /\ ValidatorChecks(r)["validator.disk_capacity_bytes"] =
              Numeric(IF r.disks = <<>> THEN Unknown ELSE r.disks[Largest(r.disks)].total, Nvme)
         /\ ValidatorChecks(r)["validator.disk_kind"] = KindStatus(LargestKind(r.disks))
  BY DEF ValidatorChecks, ValidatorCodes, DiskCodes

LEMMA IInvInit == ReadinessInit => IInv
<1> SUFFICES ASSUME ReadinessInit PROVE IInv
  OBVIOUS
<1>1. ProbeInv /\ Reading
  BY ProbeInvInit, ReadingInit DEF ReadinessInit
<1>2. CommandTypeOK
  BY DEF ReadinessInit, CommandTypeOK, NoSummary
<1>3. Reported /\ OfReport
  BY DEF ReadinessInit, Init, Reported, OfReport
<1> QED
  BY <1>1, <1>2, <1>3 DEF IInv

\* The probe makes one report, at its end.
LEMMA ReportedStep ==
  ASSUME ProbeInv, Reported, ProbeNext
  PROVE  Reported' /\ pc # "ended"
<1> USE DEF asked, nvml, found, outcome
<1>1. ASSUME Report PROVE Reported' /\ pc # "ended"
  <2>1. report' \in {Private, PublicReport(Private)} /\ UNCHANGED <<disks, gpu, error>> /\ pc' = "ended"
    BY <1>1 DEF Report
  <2>2. Private # NoReport /\ Private.gpu = gpu /\ Private.disks = disks /\ SameDisks(disks, disks)
    BY DEF Private, NoReport, SameDisks
  <2>3. /\ PublicReport(Private).gpu = gpu /\ PublicReport(Private).disks = Unnamed(disks)
        /\ PublicReport(Private).privacy = "public"
    BY DEF Private, PublicReport
  <2>4. PublicReport(Private) # NoReport
    BY <2>3 DEF NoReport
  <2>5. SameDisks(Unnamed(disks), disks)
    BY UnnamedDisks DEF ProbeInv, ProbeTypeOK
  <2>6. report' # NoReport /\ report'.gpu = gpu /\ SameDisks(report'.disks, disks)
    BY <2>1, <2>2, <2>3, <2>4, <2>5
  <2>7. pc = "report" /\ error = "none"
    BY <1>1 DEF Report, ProbeInv, Counting
  <2> QED
    BY <2>1, <2>6, <2>7 DEF Reported
<1>2. ASSUME FixtureRefused \/ DescribeFails \/ DisksFail PROVE Reported' /\ pc # "ended"
  BY <1>2 DEF FixtureRefused, DescribeFails, DisksFail, Raises, Reported
<1>3. ASSUME Validate \/ Import PROVE Reported' /\ pc # "ended"
  BY <1>3 DEF Validate, Import, Raises, Reported
<1>4. ASSUME FixtureLoaded \/ Describe \/ DisksListed \/ NvmlInit \/ Driver \/ Device \/ Finally
      PROVE  Reported' /\ pc # "ended"
  BY <1>4 DEF FixtureLoaded, Describe, DisksListed, NvmlInit, Driver, Device, Finally, Reported
<1>5. ASSUME NvmlFails \/ Count \/ Detected PROVE Reported' /\ pc # "ended"
  BY <1>5 DEF NvmlFails, NvmlRaises, Count, Detected, Returns, Reported
<1>6. ASSUME NEW m \in 1..MaxPartitions, Partition(m) PROVE Reported' /\ pc # "ended"
  BY <1>6 DEF Partition, Reported
<1> QED
  BY <1>1, <1>2, <1>3, <1>4, <1>5, <1>6 DEF ProbeNext

LEMMA RunCheckStep ==
  ASSUME IInv, RunCheck
  PROVE  IInv'
<1>1. UNCHANGED <<vars, command>> /\ pc = "ended" /\ error = "none" /\ command # "probe"
  BY DEF RunCheck, Over
<1>2. report # NoReport /\ report.gpu = gpu /\ gpu \in GpuProbe
  BY <1>1 DEF IInv, Reported, ProbeInv, ProbeTypeOK
<1>3. \/ UNCHANGED <<checks, summary>> /\ exit' = "2"
      \/ checks' = Checks(report) /\ summary' = Summary(Checks(report)) /\ exit' = "0"
  BY DEF RunCheck
<1>4. /\ Checks(report) \in [MinerCodes -> ResultStatus] \cup [ValidatorCodes -> ResultStatus]
      /\ Summary(Checks(report)) \in [ResultStatus -> Nat]
  BY <1>2, CheckTypes, CodesAreFinite, SummaryType DEF Checks
<1>5. CommandTypeOK'
  BY <1>1, <1>3, <1>4 DEF IInv, CommandTypeOK
<1>6. ProbeInv' /\ Reading' /\ Reported'
  BY <1>1 DEF IInv, vars, ProbeInv, ProbeTypeOK, Counting, Reading, Reported
<1>7. OfReport'
  BY <1>1, <1>2, <1>3 DEF IInv, OfReport, Checks, vars
<1> QED
  BY <1>5, <1>6, <1>7 DEF IInv

LEMMA IInvStep == IInv /\ [Next]_allVars => IInv'
<1> SUFFICES ASSUME IInv, [Next]_allVars PROVE IInv'
  OBVIOUS
<1>1. ASSUME Probing PROVE IInv'
  <2>1. ProbeInv' /\ Reading' /\ Reported' /\ pc # "ended"
    BY <1>1, ProbeInvStep, ReadingStep, ReportedStep DEF IInv, Probing
  <2>2. checks = NoChecks
    BY <2>1 DEF IInv, OfReport, Reported
  <2>3. CommandTypeOK' /\ OfReport'
    BY <1>1, <2>2 DEF IInv, Probing, CommandTypeOK, OfReport
  <2> QED
    BY <2>1, <2>3 DEF IInv
<1>2. ASSUME UNCHANGED <<vars, command, checks, summary>>, exit' \in {"none", "0", "2", "traceback"}
      PROVE  IInv'
  BY <1>2 DEF IInv, vars, ProbeInv, ProbeTypeOK, Counting, Reading, Reported, CommandTypeOK, OfReport,
              Checks
<1>3. ASSUME ProbeFailed \/ PrintProbe PROVE IInv'
  BY <1>2, <1>3 DEF ProbeFailed, PrintProbe
<1>4. ASSUME UNCHANGED allVars PROVE IInv'
  BY <1>2, <1>4 DEF allVars, IInv, CommandTypeOK
<1> QED
  BY <1>1, <1>3, <1>4, RunCheckStep DEF Next
-----------------------------------------------------------------------------
\* Every variable keeps its type.
THEOREM TypeCorrect == Spec => []TypeOK
<1>1. IInv => TypeOK
  BY DEF IInv, ProbeInv, CommandTypeOK, TypeOK
<1> QED
  BY IInvInit, IInvStep, <1>1, PTL DEF Spec

\* NVML is shut down, or was tried to be, whichever call failed.
THEOREM ShutsDown == Spec => []NvmlIsShutDown
<1>1. IInv => NvmlIsShutDown
  BY DEF IInv, Reading, NvmlIsShutDown
<1> QED
  BY IInvInit, IInvStep, <1>1, PTL DEF Spec

\* A miner's verdict is about the GPUs that the machine has.
THEOREM VerdictIsTrue == Spec => []VramVerdictIsTrue
<1>1. ASSUME IInv PROVE VramVerdictIsTrue
  <2> SUFFICES ASSUME Checked("miner"), ~fixture
               PROVE  /\ checks["miner.vram_bytes"] = "pass" => \E i \in DOMAIN gpus : gpus[i] >= Vram
                      /\ checks["miner.vram_bytes"] = "fail" => \A i \in DOMAIN gpus : gpus[i] < Vram
    BY DEF VramVerdictIsTrue
  <2>1. /\ report.gpu = gpu /\ gpu \in GpuProbe /\ checks = MinerChecks(report)
        /\ gpu.status = "detected" => gpu.devices = gpus
        /\ gpu.status = "no-supported-gpu" => gpus = <<>>
    BY <1>1 DEF Checked, Checks, IInv, OfReport, Reported, Reading, ProbeInv, ProbeTypeOK
  <2>2. checks["miner.vram_bytes"] = VramStatus(gpu)
    BY <2>1, CheckTypes
  <2>3. Vram \in Nat \ {0} /\ Actual(gpu) \in Nat
    BY <2>1, Thresholds, ActualIsLargest
  <2>4. \A i \in DOMAIN gpus : gpus[i] \in Nat
    <3>1. gpus \in UpTo(MaxDevices, Capacities)
      BY <1>1 DEF IInv, ProbeInv, ProbeTypeOK
    <3>2. \A i \in DOMAIN gpus : gpus[i] \in Capacities
      BY <3>1 DEF UpTo
    <3>3. Capacities \subseteq Nat
      BY CapacityAssumption
    <3> QED
      BY <3>2, <3>3
  <2>5. CASE VramStatus(gpu) = "pass"
    <3>1. gpu.devices = gpus /\ Actual(gpu) >= Vram
      BY <2>1, <2>5, VerdictsOnGpu
    <3>2. Actual(gpu) \in Known(gpu)
      BY <2>1, <2>3, <3>1, ActualIsLargest DEF Unknown
    <3> QED
      BY <2>2, <2>5, <3>1, <3>2 DEF Known
  <2>6. CASE VramStatus(gpu) = "fail"
    <3>1. CASE gpu.status = "no-supported-gpu"
      BY <2>1, <2>2, <2>6, <3>1
    <3>2. CASE gpu.status = "detected" /\ Actual(gpu) < Vram
      <4>1. \A v \in Known(gpu) : v <= Actual(gpu)
        BY <2>1, ActualIsLargest
      <4>2. ASSUME NEW i \in DOMAIN gpus PROVE gpus[i] < Vram
        <5>1. CASE gpus[i] = Unknown
          BY <5>1, <2>3 DEF Unknown
        <5>2. CASE gpus[i] # Unknown
          <6>1. gpus[i] \in Known(gpu)
            BY <5>2, <2>1, <3>2 DEF Known
          <6> QED
            BY <6>1, <4>1, <3>2, <2>3, <2>4
        <5> QED
          BY <5>1, <5>2
      <4> QED
        BY <2>2, <2>6, <4>2
    <3> QED
      BY <2>1, <2>6, <3>1, <3>2, VerdictsOnGpu
  <2> QED
    BY <2>2, <2>5, <2>6
<1> QED
  BY IInvInit, IInvStep, <1>1, PTL DEF Spec

\* The community's verdict says no more than the source's.
THEOREM FollowsSource == Spec => []CommunityFollowsSource
<1>1. ASSUME IInv PROVE CommunityFollowsSource
  <2> SUFFICES ASSUME Checked("miner") PROVE CommunityFollowsSource
    BY DEF CommunityFollowsSource
  <2>1. report.gpu = gpu /\ gpu \in GpuProbe /\ checks = MinerChecks(report)
    BY <1>1 DEF Checked, Checks, IInv, OfReport, Reported, ProbeInv, ProbeTypeOK
  <2>2. /\ checks["miner.vram_bytes"] = VramStatus(gpu)
        /\ checks["community.miner.vram_headroom"] = HeadroomStatus(gpu)
    BY <2>1, CheckTypes
  <2>3. Vram \in Nat \ {0} /\ Actual(gpu) \in Nat
    BY <2>1, Thresholds, ActualIsLargest
  <2>4. gpu.status # "detected" => Actual(gpu) = Unknown
    BY <2>1, UndetectedUnknown
  <2> QED
    BY <2>1, <2>2, <2>3, <2>4, VerdictsOnGpu DEF CommunityFollowsSource, Unknown
<1> QED
  BY IInvInit, IInvStep, <1>1, PTL DEF Spec

\* The disk that passes for its size is the disk that passes for its kind.
THEOREM OneDisk == Spec => []OneDiskPasses
<1>1. ASSUME IInv PROVE OneDiskPasses
  <2> SUFFICES ASSUME Checked("validator"), \A c \in DiskCodes : checks[c] = "pass"
               PROVE  \E i \in DOMAIN disks : disks[i].kind = "nvme" /\ disks[i].total >= Nvme
    BY DEF OneDiskPasses
  <2> DEFINE ds == report.disks
  <2>1. /\ checks = ValidatorChecks(report) /\ SameDisks(ds, disks)
        /\ report \in ProbeReport
    BY <1>1 DEF Checked, Checks, IInv, OfReport, Reported, ProbeInv, ProbeTypeOK
  <2>2. ds \in UpTo(MaxPartitions, DiskInfo)
    BY <2>1 DEF ProbeReport
  <2>3. /\ checks["validator.disk_capacity_bytes"] =
             Numeric(IF ds = <<>> THEN Unknown ELSE ds[Largest(ds)].total, Nvme)
        /\ checks["validator.disk_kind"] = KindStatus(LargestKind(ds))
    BY <2>1, DiskVerdicts
  <2>4. /\ Numeric(IF ds = <<>> THEN Unknown ELSE ds[Largest(ds)].total, Nvme) = "pass"
        /\ KindStatus(LargestKind(ds)) = "pass"
    BY <2>3 DEF DiskCodes
  <2>5. ds # <<>> /\ ds[Largest(ds)].total >= Nvme
    BY <2>4 DEF Numeric
  <2>6. ds[Largest(ds)].kind = "nvme"
    BY <2>4, <2>5 DEF KindStatus, LargestKind
  <2>7. Largest(ds) \in DOMAIN ds
    BY <2>2, <2>5, LargestIsThere
  <2> QED
    BY <2>1, <2>5, <2>6, <2>7 DEF SameDisks
<1> QED
  BY IInvInit, IInvStep, <1>1, PTL DEF Spec
==============================================================================
