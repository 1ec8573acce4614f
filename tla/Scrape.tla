------------------------------- MODULE Scrape -------------------------------
(***************************************************************************)
(* One monitored entity sampled over time.  Each step is a new snapshot    *)
(* from the collector (a counter grows, an interface, filesystem, disk     *)
(* partition or accelerator appears, the wall clock moves) followed by the *)
(* core turning that snapshot into points with MetricExtraction!Decode.    *)
(* The entity's spec and its node/container kind never change.             *)
(***************************************************************************)
EXTENDS MetricExtraction, FiniteSets

CONSTANTS
  Specs,            \* ContainerSpec records the entity may declare
  EntityCounterMax, \* bound on the CPU and page-fault counters
  CounterMax,       \* bound on every per-interface and per-partition counter
  MaxTime,          \* bound on the wall clock
  MaxInterfaces,    \* bounds on the per-instance sequences of a snapshot
  MaxFilesystems,
  MaxPartitions,
  MaxAccelerators,
  FsDevices,        \* filesystem device names
  DiskDevices,      \* non-empty partition device names
  Majors, Minors,   \* partition device numbers
  PartitionOpSets,  \* key sets a partition's Stats map may report
  AcceleratorIds,
  GaugeValue,       \* the (non-zero) reading of every gauge field
  InstancesMayVanish  \* whether the collector may drop an instance

ASSUME InstancesMayVanish \in BOOLEAN

VARIABLES
  c,        \* the ContainerInfo: [spec, isNode]
  stat,     \* the latest ContainerStats snapshot
  now,      \* the wall clock when the snapshot was decoded
  points    \* Decode(c, stat, now): what the core handed downstream

vars == <<c, stat, now, points>>

Counters == 0..CounterMax
DiskOps  == {"Read", "Write"}

EmptyStats ==
  [cpuTotal |-> 0,
   memory   |-> [usage |-> GaugeValue, cache |-> GaugeValue, rss |-> GaugeValue,
                 workingSet |-> GaugeValue, pgfault |-> 0, pgmajfault |-> 0],
   interfaces |-> << >>, filesystem |-> << >>, ioServiceBytes |-> << >>,
   accelerators |-> << >>]

\* The collector delivers snapshot s at clock t; the core decodes it.
Sample(s, t) ==
  /\ stat' = s
  /\ now' = t
  /\ points' = Decode(c, s, t)
  /\ UNCHANGED c

Init ==
  /\ c \in [spec : Specs, isNode : BOOLEAN]
  /\ stat = EmptyStats
  /\ now \in 1..MaxTime
  /\ points = Decode(c, stat, now)

CpuRun ==
  /\ stat.cpuTotal < EntityCounterMax
  /\ Sample([stat EXCEPT !.cpuTotal = @ + 1], now)

PageFault(f) ==
  /\ stat.memory[f] < EntityCounterMax
  /\ Sample([stat EXCEPT !.memory[f] = @ + 1], now)

InterfaceAdded ==
  /\ Len(stat.interfaces) < MaxInterfaces
  /\ Sample([stat EXCEPT !.interfaces = Append(@,
              [rxBytes |-> 0, rxErrors |-> 0, txBytes |-> 0, txErrors |-> 0])], now)

InterfaceTraffic(i, f) ==
  /\ stat.interfaces[i][f] < CounterMax
  /\ Sample([stat EXCEPT !.interfaces[i][f] = @ + 1], now)

\* An interface (a veth of a removed pod network, a hot-unplugged NIC) is
\* no longer listed in stat.Network.Interfaces.
InterfaceRemoved(i) ==
  /\ InstancesMayVanish
  /\ Sample([stat EXCEPT !.interfaces = RemoveAt(@, i)], now)

FilesystemMounted(d, hasInodes) ==
  /\ Len(stat.filesystem) < MaxFilesystems
  /\ \A i \in DOMAIN stat.filesystem : stat.filesystem[i].device # d
  /\ LET inodes == IF hasInodes THEN GaugeValue ELSE 0
     IN  Sample([stat EXCEPT !.filesystem = Append(@,
               [device |-> d, usage |-> GaugeValue, limit |-> GaugeValue,
                hasInodes |-> hasInodes, inodes |-> inodes,
                inodesFree |-> inodes])], now)

\* A filesystem is unmounted and no longer listed in stat.Filesystem.
FilesystemUnmounted(i) ==
  /\ InstancesMayVanish
  /\ Sample([stat EXCEPT !.filesystem = RemoveAt(@, i)], now)

\* A partition is identified by its device number; a name, when it has
\* one, is its own.
PartitionAppeared(d, major, minor, ops) ==
  /\ Len(stat.ioServiceBytes) < MaxPartitions
  /\ \A i \in DOMAIN stat.ioServiceBytes :
       LET p == stat.ioServiceBytes[i]
       IN  /\ <<p.major, p.minor>> # <<major, minor>>
           /\ d # "" => p.device # d
  /\ Sample([stat EXCEPT !.ioServiceBytes = Append(@,
              [device |-> d, major |-> major, minor |-> minor,
               stats |-> [op \in ops |-> 0]])], now)

PartitionIo(i, op) ==
  /\ op \in DOMAIN stat.ioServiceBytes[i].stats
  /\ stat.ioServiceBytes[i].stats[op] < CounterMax
  /\ Sample([stat EXCEPT !.ioServiceBytes[i].stats[op] = @ + 1], now)

\* A partition is no longer listed in stat.DiskIo.IoServiceBytes.
PartitionRemoved(i) ==
  /\ InstancesMayVanish
  /\ Sample([stat EXCEPT !.ioServiceBytes = RemoveAt(@, i)], now)

AcceleratorAttached(id) ==
  /\ Len(stat.accelerators) < MaxAccelerators
  /\ \A i \in DOMAIN stat.accelerators : stat.accelerators[i].id # id
  /\ Sample([stat EXCEPT !.accelerators = Append(@,
              [make |-> "nvidia", model |-> "tesla", id |-> id,
               memoryTotal |-> GaugeValue, memoryUsed |-> GaugeValue,
               dutyCycle |-> GaugeValue])], now)

AcceleratorDetached(i) ==
  /\ InstancesMayVanish
  /\ Sample([stat EXCEPT !.accelerators = RemoveAt(@, i)], now)

ClockTick ==
  /\ now < MaxTime
  /\ Sample(stat, now + 1)

\* The host's wall clock is stepped back (NTP); time.Since reads it.
ClockStepBack ==
  /\ now > 1
  /\ Sample(stat, now - 1)

Next ==
  \/ CpuRun
  \/ \E f \in {"pgfault", "pgmajfault"} : PageFault(f)
  \/ InterfaceAdded
  \/ \E i \in DOMAIN stat.interfaces, f \in DOMAIN NetworkGetter :
       InterfaceTraffic(i, NetworkGetter[f])
  \/ \E i \in DOMAIN stat.interfaces : InterfaceRemoved(i)
  \/ \E d \in FsDevices, h \in BOOLEAN : FilesystemMounted(d, h)
  \/ \E d \in {""} \cup DiskDevices, ma \in Majors, mi \in Minors,
        ops \in PartitionOpSets : PartitionAppeared(d, ma, mi, ops)
  \/ \E i \in DOMAIN stat.ioServiceBytes, op \in DiskOps : PartitionIo(i, op)
  \/ \E id \in AcceleratorIds : AcceleratorAttached(id)
  \/ \E i \in DOMAIN stat.filesystem : FilesystemUnmounted(i)
  \/ \E i \in DOMAIN stat.ioServiceBytes : PartitionRemoved(i)
  \/ \E i \in DOMAIN stat.accelerators : AcceleratorDetached(i)
  \/ ClockTick
  \/ ClockStepBack

Spec == Init /\ [][Next]_vars

-----------------------------------------------------------------------------
(* Properties.                                                             *)

\* The registered descriptor of a point's metric.
DescriptorOf(name) == CHOOSE m \in {AllMetrics[i] : i \in DOMAIN AllMetrics} : m.name = name

\* Names whose descriptor declares a Cumulative series.
CumulativeNames == {AllMetrics[i].name : i \in {k \in DOMAIN AllMetrics : AllMetrics[k].type = "Cumulative"}}

LabeledMetricNames == NamesOf(LabeledMetrics)

\* The label keys each registered metric declares.
DeclaredLabels == [n \in RegisteredNames |-> DescriptorOf(n).labels]

TypeOK ==
  /\ c \in [spec : Specs, isNode : BOOLEAN]
  /\ stat.cpuTotal \in 0..EntityCounterMax
  /\ Len(stat.interfaces) <= MaxInterfaces
  /\ Len(stat.filesystem) <= MaxFilesystems
  /\ Len(stat.ioServiceBytes) <= MaxPartitions
  /\ Len(stat.accelerators) <= MaxAccelerators
  /\ now \in 1..MaxTime
  /\ \A i \in DOMAIN points :
       /\ points[i].name \in RegisteredNames
       /\ DOMAIN points[i].labels = DeclaredLabels[points[i].name]
       /\ points[i].value.intValue \in -(2 ^ (IntWidth - 1)) .. (2 ^ (IntWidth - 1) - 1)

\* Node suppression (GetValue of cpu, memory and network metrics): for a
\* node-level entity every such scalar point the core emits is exactly 0,
\* although the raw snapshot fields it would read are non-zero.
NodeSuppression ==
  IsNode(c) =>
    \A i \in DOMAIN points :
      points[i].name \in {MetricCpuUsage.name} \cup DOMAIN MemoryGetter
                           \cup DOMAIN NetworkGetter
        => points[i].value.intValue = 0

\* Two points of successive snapshots belong to the same series.
SameSeries(p, q) == p.name = q.name /\ p.labels = q.labels

\* A cumulative series never goes down between two successive decodes, for
\* every series read from a raw counter (CPU, page faults, summed network
\* interface counters, per-partition disk bytes): the raw counters only grow,
\* and the extraction (int64 conversion, per-interface summing, map lookup
\* with zero default, node suppression) must preserve that.
CounterStepNonDecreasing ==
  \A i \in DOMAIN points, j \in DOMAIN points' :
    /\ points[i].name \in CumulativeNames \ {MetricUptime.name}
    /\ SameSeries(points[i], points'[j])
    => points'[j].value.intValue >= points[i].value.intValue

CountersNonDecreasing == [][CounterStepNonDecreasing]_vars

\* The network GetValue closures sum over the interfaces listed in the
\* current snapshot: when the collector drops an interface, its bytes leave
\* the cumulative network series.  That is the only way a counter-backed
\* cumulative series may go down; every step that keeps all interfaces
\* (counters growing, interfaces or other instances appearing, the clock
\* moving) still leaves every such series non-decreasing.
DecreasesOnlyOnInterfaceRemoval ==
  [][Len(stat'.interfaces) >= Len(stat.interfaces) => CounterStepNonDecreasing]_vars

\* The cumulative uptime series (MetricUptime.GetValue, time.Since on the
\* wall clock) never goes down between two successive decodes.
UptimeNonDecreasing ==
  [][\A i \in DOMAIN points, j \in DOMAIN points' :
       /\ points[i].name = MetricUptime.name
       /\ points'[j].name = MetricUptime.name
       => points'[j].value.intValue >= points[i].value.intValue]_vars

\* Within one decode, no two labeled points of the same metric carry the
\* same label set (the resource_id fallback to "major:minor" for unnamed
\* partitions, the device names of filesystems, the accelerator ids), so
\* downstream series never collide.
LabeledPointsDistinct ==
  \A i, j \in DOMAIN points :
    /\ i # j
    /\ points[i].name \in LabeledMetricNames
    => ~SameSeries(points[i], points[j])

\* Uniqueness (spec sections 4.1 and 8): metric names are the join key
\* downstream, so no two points of one decode share a name and label set.
PointsDistinct ==
  \A i, j \in DOMAIN points : i # j => ~SameSeries(points[i], points[j])

\* Labeled cardinality (spec section 8): a labeled metric whose predicate
\* holds yields one point per filesystem (per inode-capable filesystem for
\* the inode metrics), per partition, or per accelerator of the snapshot.
QualifyingInstances(name) ==
  CASE name \in {"filesystem/usage", "filesystem/limit"} -> Len(stat.filesystem)
    [] name \in {"filesystem/inodes", "filesystem/inodes_free"} ->
         Cardinality({i \in DOMAIN stat.filesystem : stat.filesystem[i].hasInodes})
    [] name \in DOMAIN DiskGetter -> Len(stat.ioServiceBytes)
    [] name \in DOMAIN AcceleratorGetter -> Len(stat.accelerators)

LabeledCardinality ==
  \A k \in DOMAIN LabeledMetrics :
    LET m == LabeledMetrics[k]
    IN  m.extractor = "labeled" /\ HasLabeledMetric(m, c.spec, stat) =>
          Cardinality({i \in DOMAIN points : points[i].name = m.name})
            = QualifyingInstances(m.name)

\* Every emitted value carries the MetricType and ValueType its metric's
\* descriptor declares, which is what the downstream rate stage trusts.
ValueKindMatchesDescriptor ==
  \A i \in DOMAIN points :
    /\ points[i].value.metricType = DescriptorOf(points[i].name).type
    /\ points[i].value.valueType = DescriptorOf(points[i].name).valueType

=============================================================================
