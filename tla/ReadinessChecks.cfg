\* Amounts below, at and above the thresholds; two GPUs, two partitions.
CONSTANTS
  MaxCapacity = 10
  Capacities = {0, 7, 8, 10}
  Amounts = {0, 7, 8}
  MaxDevices = 2
  MaxPartitions = 2
  Vram = 8
  Cores = 8
  Memory = 8
  Nvme = 8
SPECIFICATION Spec
INVARIANTS VramVerdictIsTrue CommunityFollowsSource OneDiskPasses
\* The command exits.
CHECK_DEADLOCK FALSE
