\* Labeled series: filesystems, disk partitions.
CONSTANTS
  IntWidth = 6
  NsPerMs = 2
  Specs <- MCCapableSpecs
  EntityCounterMax = 0
  CounterMax = 1
  MaxTime = 2
  MaxInterfaces = 0
  MaxFilesystems = 2
  MaxPartitions = 2
  MaxAccelerators = 0
  FsDevices = {"sda1", "tmpfs"}
  DiskDevices = {"sda"}
  Majors = {8}
  Minors = {0, 1}
  PartitionOpSets = {{"Read", "Write"}, {"Write"}}
  AcceleratorIds = {"gpu0"}
  GaugeValue = 3
  InstancesMayVanish = TRUE
SPECIFICATION Spec
INVARIANT LabeledPointsDistinct
INVARIANT LabeledCardinality
PROPERTY CountersNonDecreasing
