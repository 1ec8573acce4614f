-------------------------- MODULE MetricExtraction --------------------------
(***************************************************************************)
(* The HasValue/GetValue and HasLabeledMetric/GetLabeledMetric closures of *)
(* metrics/core/metrics.go as operators over a container and a stats      *)
(* snapshot, and the walk of the registry that turns one snapshot into    *)
(* the points handed downstream.                                           *)
(*                                                                         *)
(* c      == [spec |-> ContainerSpec, isNode |-> BOOLEAN]                  *)
(* stat   == ContainerStats: cpuTotal, memory record, interfaces,          *)
(*           filesystem, ioServiceBytes and accelerators sequences         *)
(* now    == the wall clock read by time.Since, in nanosecond ticks        *)
(***************************************************************************)
EXTENDS Integers, MetricCatalog

CONSTANTS
  IntWidth,   \* width of Go's int64, scaled down for TLC
  NsPerMs     \* time.Millisecond.Nanoseconds(), scaled down for TLC

ASSUME IntWidth \in Nat \ {0, 1}
ASSUME NsPerMs \in Nat \ {0}

\* cadvisor's zero time.Time: spec.CreationTime.IsZero().
ZeroTime == 0

\* Go's int64(x) of a uint64, and int64 addition: two's complement wrap.
Int64(x) ==
  LET m == x % (2 ^ IntWidth)
  IN  IF m >= 2 ^ (IntWidth - 1) THEN m - 2 ^ IntWidth ELSE m

\* Go's integer division truncates toward zero.
GoDiv(a, b) == IF a >= 0 THEN a \div b ELSE -((-a) \div b)

\* metrics.IsNode(c): the entity is a node-level aggregate.
IsNode(c) == c.isNode

\* MetricValue with ValueInt64.
MetricValue(metricType, intValue) ==
  [valueType |-> "Int64", metricType |-> metricType, intValue |-> intValue]

\* LabeledMetric; scalar points carry no labels.
Point(name, labels, value) == [name |-> name, labels |-> labels, value |-> value]
NoLabelValues == << >>

-----------------------------------------------------------------------------
(* Scalar metrics.                                                         *)

\* Field of stat.Memory read by each memory GetValue, and its MetricType.
MemoryGetter ==
     ("memory/usage"       :> [field |-> "usage",      type |-> "Gauge"])
  @@ ("memory/cache"       :> [field |-> "cache",      type |-> "Gauge"])
  @@ ("memory/rss"         :> [field |-> "rss",        type |-> "Gauge"])
  @@ ("memory/working_set" :> [field |-> "workingSet", type |-> "Gauge"])
  @@ ("memory/page_faults" :> [field |-> "pgfault",    type |-> "Cumulative"])
  @@ ("memory/major_page_faults" :> [field |-> "pgmajfault", type |-> "Cumulative"])

\* Per-interface field summed by each network GetValue (all Cumulative).
NetworkGetter ==
     ("network/rx"        :> "rxBytes")
  @@ ("network/rx_errors" :> "rxErrors")
  @@ ("network/tx"        :> "txBytes")
  @@ ("network/tx_errors" :> "txErrors")

\* HasValue of the standard metrics.
HasValue(m, spec) ==
  CASE m.name = MetricUptime.name       -> spec.creationTime # ZeroTime
    [] m.name = MetricCpuUsage.name     -> spec.hasCpu
    [] m.name \in DOMAIN MemoryGetter   -> spec.hasMemory
    [] m.name \in DOMAIN NetworkGetter  -> spec.hasNetwork

\* MetricUptime.GetValue: whole milliseconds since creation, wall clock.
UptimeValue(c, now) ==
  MetricValue("Cumulative", GoDiv(now - c.spec.creationTime, NsPerMs))

\* The node-suppression branch shared by the gated GetValue closures.
UnlessNode(c, v) == IF IsNode(c) THEN 0 ELSE v

CpuUsageValue(c, stat) ==
  MetricValue("Cumulative", UnlessNode(c, Int64(stat.cpuTotal)))

\* Mutation: a memory GetValue that forgets the IsNode check.
MemoryValueUnsuppressed(name, c, stat) ==
  MetricValue(MemoryGetter[name].type, Int64(stat.memory[MemoryGetter[name].field]))

MemoryValue(name, c, stat) ==
  MetricValue(MemoryGetter[name].type,
              UnlessNode(c, Int64(stat.memory[MemoryGetter[name].field])))

\* Mutation: `x = int64(...)` instead of `x += int64(...)` in the loop.
NetworkValueOverwrite(name, c, stat) ==
  LET last == FoldLeft(LAMBDA acc, ifc : Int64(ifc[NetworkGetter[name]]), 0, stat.interfaces)
  IN  MetricValue("Cumulative", UnlessNode(c, last))

\* for _, interfaceStat := range stat.Network.Interfaces { x += int64(...) }
NetworkValue(name, c, stat) ==
  LET sum == FoldLeft(LAMBDA acc, ifc : Int64(acc + Int64(ifc[NetworkGetter[name]])),
                      0, stat.interfaces)
  IN  MetricValue("Cumulative", UnlessNode(c, sum))

GetValue(m, c, stat, now) ==
  CASE m.name = MetricUptime.name     -> UptimeValue(c, now)
    [] m.name = MetricCpuUsage.name   -> CpuUsageValue(c, stat)
    [] m.name \in DOMAIN MemoryGetter -> MemoryValue(m.name, c, stat)
    [] m.name \in DOMAIN NetworkGetter -> NetworkValue(m.name, c, stat)

-----------------------------------------------------------------------------
(* Labeled metrics.                                                        *)

\* Field of each cadvisor FsStats read, and whether only inode-capable
\* filesystems are reported.
FsGetter ==
     ("filesystem/usage"  :> [field |-> "usage", inodesOnly |-> FALSE])
  @@ ("filesystem/limit"  :> [field |-> "limit", inodesOnly |-> FALSE])
  @@ ("filesystem/inodes" :> [field |-> "inodes", inodesOnly |-> TRUE])
  @@ ("filesystem/inodes_free" :> [field |-> "inodesFree", inodesOnly |-> TRUE])

\* Mutation: the inode metrics without the `if fs.HasInodes` filter.
FilesystemPointsAllFs(name, stat) ==
  [i \in DOMAIN stat.filesystem |->
     Point(name, [resource_id |-> stat.filesystem[i].device],
           MetricValue("Gauge", Int64(stat.filesystem[i][FsGetter[name].field])))]

FilesystemPoints(name, stat) ==
  LET g   == FsGetter[name]
      fss == IF g.inodesOnly THEN SelectSeq(stat.filesystem, LAMBDA fs : fs.hasInodes)
                             ELSE stat.filesystem
  IN  [i \in DOMAIN fss |->
         Point(name, [resource_id |-> fss[i].device],
               MetricValue("Gauge", Int64(fss[i][g.field])))]

\* Key of ioServiceBytesPerPartition.Stats read by each disk metric.
DiskGetter ==
  ("disk/io_read_bytes" :> "Read") @@ ("disk/io_write_bytes" :> "Write")

\* strconv of a natural number: its decimal digits.
RECURSIVE Decimal(_)
Decimal(n) ==
  LET digit == ("0" :> 0) @@ ("1" :> 1) @@ ("2" :> 2) @@ ("3" :> 3) @@ ("4" :> 4)
            @@ ("5" :> 5) @@ ("6" :> 6) @@ ("7" :> 7) @@ ("8" :> 8) @@ ("9" :> 9)
      last  == CHOOSE d \in DOMAIN digit : digit[d] = n % 10
  IN  IF n < 10 THEN last ELSE Decimal(n \div 10) \o last

\* Mutation: fmt.Sprintf("%d", major), the minor number left out.
DeviceNumberMajorOnly(major, minor) == Decimal(major)

\* fmt.Sprintf("%d:%d", major, minor).
DeviceNumber(major, minor) == Decimal(major) \o ":" \o Decimal(minor)

ResourceIDKey(p) ==
  IF p.device = "" THEN DeviceNumber(p.major, p.minor) ELSE p.device

\* A key missing from the Stats map reads as zero.
OpBytes(p, op) == IF op \in DOMAIN p.stats THEN p.stats[op] ELSE 0

\* Mutation: every point's value read through the loop variable after the
\* loop (pre-Go 1.22 range aliasing), i.e. from the last partition.
DiskIOPointsLastPartition(name, stat) ==
  LET ps == stat.ioServiceBytes
  IN  [i \in DOMAIN ps |->
         Point(name, [resource_id |-> ResourceIDKey(ps[i])],
               MetricValue("Gauge", Int64(OpBytes(ps[Len(ps)], DiskGetter[name]))))]

DiskIOPoints(name, stat) ==
  LET ps == stat.ioServiceBytes
  IN  [i \in DOMAIN ps |->
         Point(name, [resource_id |-> ResourceIDKey(ps[i])],
               MetricValue("Gauge", Int64(OpBytes(ps[i], DiskGetter[name]))))]

\* Field of each cadvisor AcceleratorStats read.
AcceleratorGetter ==
     ("accelerator/memory_total" :> "memoryTotal")
  @@ ("accelerator/memory_used"  :> "memoryUsed")
  @@ ("accelerator/duty_cycle"   :> "dutyCycle")

\* Mutation: the accelerator label map without LabelAcceleratorID.
AcceleratorPointsWithoutId(name, stat) ==
  LET as == stat.accelerators
  IN  [i \in DOMAIN as |->
         Point(name, [make |-> as[i].make, model |-> as[i].model],
               MetricValue("Gauge", Int64(as[i][AcceleratorGetter[name]])))]

\* Mutation: `return result` inside the range loop, after the first device.
AcceleratorPointsFirstOnly(name, stat) ==
  LET as == SubSeq(stat.accelerators, 1, IF stat.accelerators = << >> THEN 0 ELSE 1)
  IN  [i \in DOMAIN as |->
         Point(name, [make |-> as[i].make, model |-> as[i].model,
                      accelerator_id |-> as[i].id],
               MetricValue("Gauge", Int64(as[i][AcceleratorGetter[name]])))]

AcceleratorPoints(name, stat) ==
  LET as == stat.accelerators
  IN  [i \in DOMAIN as |->
         Point(name, [make |-> as[i].make, model |-> as[i].model,
                      accelerator_id |-> as[i].id],
               MetricValue("Gauge", Int64(as[i][AcceleratorGetter[name]])))]

HasLabeledMetric(m, spec, stat) ==
  CASE m.name \in DOMAIN FsGetter          -> spec.hasFilesystem
    [] m.name \in DOMAIN DiskGetter        -> spec.hasDiskIo
    [] m.name \in DOMAIN AcceleratorGetter -> Len(stat.accelerators) # 0

GetLabeledMetric(m, c, stat) ==
  CASE m.name \in DOMAIN FsGetter          -> FilesystemPoints(m.name, stat)
    [] m.name \in DOMAIN DiskGetter        -> DiskIOPoints(m.name, stat)
    [] m.name \in DOMAIN AcceleratorGetter -> AcceleratorPoints(m.name, stat)

-----------------------------------------------------------------------------
(* The consumer's walk of the registry (spec section 2): every metric whose *)
(* predicate holds contributes its value or values, in registry order.     *)

MetricPoints(m, c, stat, now) ==
  CASE m.extractor = "scalar" /\ HasValue(m, c.spec) ->
         << Point(m.name, NoLabelValues, GetValue(m, c, stat, now)) >>
    [] m.extractor = "labeled" /\ HasLabeledMetric(m, c.spec, stat) ->
         GetLabeledMetric(m, c, stat)
    [] OTHER -> << >>

Decode(c, stat, now) ==
  FlattenSeq([i \in DOMAIN AllMetrics |-> MetricPoints(AllMetrics[i], c, stat, now)])

=============================================================================
