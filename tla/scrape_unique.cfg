\* Distinct series within one decode: expected to be violated.
CONSTANTS
  IntWidth = 6
  NsPerMs = 2
  Specs <- MCSpecs
  EntityCounterMax = 1
  CounterMax = 1
  MaxTime = 3
  MaxInterfaces = 2
  MaxFilesystems = 0
  MaxPartitions = 0
  MaxAccelerators = 1
  FsDevices = {"sda1"}
  DiskDevices = {"sda"}
  Majors = {8}
  Minors = {0}
  PartitionOpSets = {{"Read", "Write"}}
  AcceleratorIds = {"gpu0"}
  GaugeValue = 3
  InstancesMayVanish = FALSE
SPECIFICATION Spec
INVARIANT PointsDistinct
