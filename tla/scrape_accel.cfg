\* Accelerator and filesystem series while two GPUs of one make and model attach and detach.
CONSTANTS
  IntWidth = 6
  NsPerMs = 2
  Specs <- MCSpecs
  EntityCounterMax = 0
  CounterMax = 0
  MaxTime = 2
  MaxInterfaces = 0
  MaxFilesystems = 2
  MaxPartitions = 0
  MaxAccelerators = 2
  FsDevices = {"sda1", "tmpfs"}
  DiskDevices = {"sda"}
  Majors = {8}
  Minors = {0}
  PartitionOpSets = {{"Read", "Write"}}
  AcceleratorIds = {"gpu0", "gpu1"}
  GaugeValue = 3
  InstancesMayVanish = TRUE
SPECIFICATION Spec
INVARIANT LabeledPointsDistinct
INVARIANT LabeledCardinality
