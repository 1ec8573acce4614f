--------------------------- MODULE MetricCatalog ---------------------------
(***************************************************************************)
(* The static metric registry of metrics/core/metrics.go: one descriptor   *)
(* per Metric variable, the grouped lists built from them, the family      *)
(* table, the rate mapping, and the two lookups that scan them.            *)
(*                                                                         *)
(* A metric is a record of its MetricDescriptor fields plus "extractor",   *)
(* which says which pair of function-valued fields the Metric literal      *)
(* sets: "scalar" (HasValue/GetValue), "labeled" (HasLabeledMetric/        *)
(* GetLabeledMetric) or "none" (both pairs nil).  Descriptions are prose   *)
(* and left out.  Lists are sequences, so duplicates stay visible.         *)
(***************************************************************************)
EXTENDS Naturals, Sequences, SequencesExt

CustomMetricPrefix == "custom/"

\* The MetricDescriptor struct and the Metric struct that embeds it.
Metric(name, type, valueType, units, labels, extractor) ==
  [name |-> name, type |-> type, valueType |-> valueType, units |-> units,
   labels |-> labels, extractor |-> extractor]

\* Label descriptor sets named by the Labels field (defined outside core).
NoLabels                  == {}
metricLabels              == {"resource_id"}
acceleratorLabels         == {"make", "model", "accelerator_id"}
acceleratorCapacityLabels == {"make", "model"}

\* Standard metrics.
MetricUptime       == Metric("uptime", "Cumulative", "Int64", "Milliseconds", NoLabels, "scalar")
MetricCpuUsage     == Metric("cpu/usage", "Cumulative", "Int64", "Nanoseconds", NoLabels, "scalar")
MetricMemoryUsage  == Metric("memory/usage", "Gauge", "Int64", "Bytes", NoLabels, "scalar")
MetricMemoryCache  == Metric("memory/cache", "Gauge", "Int64", "Bytes", NoLabels, "scalar")
MetricMemoryRSS    == Metric("memory/rss", "Gauge", "Int64", "Bytes", NoLabels, "scalar")
MetricMemoryWorkingSet == Metric("memory/working_set", "Gauge", "Int64", "Bytes", NoLabels, "scalar")
MetricMemoryPageFaults == Metric("memory/page_faults", "Cumulative", "Int64", "Count", NoLabels, "scalar")
MetricMemoryMajorPageFaults == Metric("memory/major_page_faults", "Cumulative", "Int64", "Count", NoLabels, "scalar")
MetricNetworkRx       == Metric("network/rx", "Cumulative", "Int64", "Bytes", NoLabels, "scalar")
MetricNetworkRxErrors == Metric("network/rx_errors", "Cumulative", "Int64", "Count", NoLabels, "scalar")
MetricNetworkTx       == Metric("network/tx", "Cumulative", "Int64", "Bytes", NoLabels, "scalar")
MetricNetworkTxErrors == Metric("network/tx_errors", "Cumulative", "Int64", "Count", NoLabels, "scalar")

\* Additional metrics: descriptors only, values come from the cluster state.
MetricCpuRequest    == Metric("cpu/request", "Gauge", "Int64", "Count", NoLabels, "none")
MetricCpuLimit      == Metric("cpu/limit", "Gauge", "Int64", "Count", NoLabels, "none")
MetricMemoryRequest == Metric("memory/request", "Gauge", "Int64", "Bytes", NoLabels, "none")
MetricMemoryLimit   == Metric("memory/limit", "Gauge", "Int64", "Bytes", NoLabels, "none")

\* Rate metrics: descriptors only, values come from the rate computation.
MetricCpuUsageRate   == Metric("cpu/usage_rate", "Gauge", "Int64", "Count", NoLabels, "none")
MetricMemoryPageFaultsRate == Metric("memory/page_faults_rate", "Gauge", "Float", "Count", NoLabels, "none")
MetricMemoryMajorPageFaultsRate == Metric("memory/major_page_faults_rate", "Gauge", "Float", "Count", NoLabels, "none")
MetricNetworkRxRate  == Metric("network/rx_rate", "Gauge", "Float", "Count", NoLabels, "none")
MetricNetworkRxErrorsRate == Metric("network/rx_errors_rate", "Gauge", "Float", "Count", NoLabels, "none")
MetricNetworkTxRate  == Metric("network/tx_rate", "Gauge", "Float", "Count", NoLabels, "none")
MetricNetworkTxErrorsRate == Metric("network/tx_errors_rate", "Gauge", "Float", "Count", NoLabels, "none")

\* Node autoscaling metrics: descriptors only.
MetricNodeCpuCapacity       == Metric("cpu/node_capacity", "Gauge", "Float", "Count", NoLabels, "none")
MetricNodeMemoryCapacity    == Metric("memory/node_capacity", "Gauge", "Float", "Count", NoLabels, "none")
MetricNodeCpuAllocatable    == Metric("cpu/node_allocatable", "Gauge", "Float", "Count", NoLabels, "none")
MetricNodeMemoryAllocatable == Metric("memory/node_allocatable", "Gauge", "Float", "Count", NoLabels, "none")
MetricNodeCpuUtilization    == Metric("cpu/node_utilization", "Gauge", "Float", "Count", NoLabels, "none")
MetricNodeMemoryUtilization == Metric("memory/node_utilization", "Gauge", "Float", "Count", NoLabels, "none")
MetricNodeCpuReservation    == Metric("cpu/node_reservation", "Gauge", "Float", "Count", NoLabels, "none")
MetricNodeMemoryReservation == Metric("memory/node_reservation", "Gauge", "Float", "Count", NoLabels, "none")

\* Labeled metrics.
MetricFilesystemUsage     == Metric("filesystem/usage", "Gauge", "Int64", "Bytes", metricLabels, "labeled")
MetricFilesystemLimit     == Metric("filesystem/limit", "Gauge", "Int64", "Bytes", metricLabels, "labeled")
MetricFilesystemAvailable == Metric("filesystem/available", "Gauge", "Int64", "Bytes", metricLabels, "none")
MetricFilesystemInodes    == Metric("filesystem/inodes", "Gauge", "Int64", "Bytes", metricLabels, "labeled")
MetricFilesystemInodesFree == Metric("filesystem/inodes_free", "Gauge", "Int64", "Bytes", metricLabels, "labeled")
MetricDiskIORead      == Metric("disk/io_read_bytes", "Cumulative", "Int64", "Bytes", metricLabels, "labeled")
MetricDiskIOWrite     == Metric("disk/io_write_bytes", "Cumulative", "Int64", "Bytes", metricLabels, "labeled")
MetricDiskIOReadRate  == Metric("disk/io_read_bytes_rate", "Gauge", "Float", "Count", metricLabels, "none")
MetricDiskIOWriteRate == Metric("disk/io_write_bytes_rate", "Gauge", "Float", "Count", metricLabels, "none")
MetricAcceleratorMemoryTotal == Metric("accelerator/memory_total", "Gauge", "Int64", "Bytes", acceleratorLabels, "labeled")
MetricAcceleratorMemoryUsed  == Metric("accelerator/memory_used", "Gauge", "Int64", "Bytes", acceleratorLabels, "labeled")
MetricAcceleratorDutyCycle   == Metric("accelerator/duty_cycle", "Gauge", "Int64", "Count", acceleratorLabels, "labeled")
MetricNodeAcceleratorCapacity == Metric("accelerator/node_capacity", "Gauge", "Float", "Count", acceleratorCapacityLabels, "none")

-----------------------------------------------------------------------------
(* The grouped lists, in declaration order.                                *)

StandardMetrics ==
  << MetricUptime, MetricCpuUsage, MetricMemoryCache, MetricMemoryRSS,
     MetricMemoryUsage, MetricMemoryRSS, MetricMemoryCache,
     MetricMemoryWorkingSet, MetricMemoryPageFaults,
     MetricMemoryMajorPageFaults, MetricNetworkRx, MetricNetworkRxErrors,
     MetricNetworkTx, MetricNetworkTxErrors >>

AdditionalMetrics ==
  << MetricCpuRequest, MetricCpuLimit, MetricMemoryRequest, MetricMemoryLimit >>

RateMetrics ==
  << MetricCpuUsageRate, MetricNetworkRxRate, MetricNetworkTxRate,
     MetricDiskIOReadRate, MetricDiskIOWriteRate >>

\* Mutation: network/tx paired with the rx rate metric (copy-paste slip).
RateMetricsMappingTxToRx ==
     (MetricCpuUsage.name    :> MetricCpuUsageRate)
  @@ (MetricNetworkRx.name   :> MetricNetworkRxRate)
  @@ (MetricNetworkTx.name   :> MetricNetworkRxRate)
  @@ (MetricDiskIORead.name  :> MetricDiskIOReadRate)
  @@ (MetricDiskIOWrite.name :> MetricDiskIOWriteRate)

\* map[string]Metric from a raw metric's name to its rate metric.
RateMetricsMapping ==
     (MetricCpuUsage.name    :> MetricCpuUsageRate)
  @@ (MetricNetworkRx.name   :> MetricNetworkRxRate)
  @@ (MetricNetworkTx.name   :> MetricNetworkTxRate)
  @@ (MetricDiskIORead.name  :> MetricDiskIOReadRate)
  @@ (MetricDiskIOWrite.name :> MetricDiskIOWriteRate)

LabeledMetrics ==
  << MetricDiskIORead, MetricDiskIOReadRate, MetricDiskIOWrite,
     MetricDiskIOWriteRate, MetricFilesystemUsage, MetricFilesystemLimit,
     MetricFilesystemAvailable, MetricFilesystemInodes,
     MetricFilesystemInodesFree, MetricAcceleratorMemoryTotal,
     MetricAcceleratorMemoryUsed, MetricAcceleratorDutyCycle >>

NodeAutoscalingMetrics ==
  << MetricNodeCpuCapacity, MetricNodeMemoryCapacity,
     MetricNodeCpuAllocatable, MetricNodeMemoryAllocatable,
     MetricNodeCpuUtilization, MetricNodeMemoryUtilization,
     MetricNodeCpuReservation, MetricNodeMemoryReservation >>

\* Mutation: memory/usage also listed under the CPU family.
CpuMetricsWithMemoryUsage ==
  << MetricCpuLimit, MetricCpuRequest, MetricCpuUsage, MetricCpuUsageRate,
     MetricNodeCpuAllocatable, MetricNodeCpuCapacity,
     MetricNodeCpuReservation, MetricNodeCpuUtilization, MetricMemoryUsage >>

CpuMetrics ==
  << MetricCpuLimit, MetricCpuRequest, MetricCpuUsage, MetricCpuUsageRate,
     MetricNodeCpuAllocatable, MetricNodeCpuCapacity,
     MetricNodeCpuReservation, MetricNodeCpuUtilization >>

FilesystemMetrics ==
  << MetricFilesystemAvailable, MetricFilesystemLimit, MetricFilesystemUsage,
     MetricFilesystemInodes, MetricFilesystemInodesFree >>

MemoryMetrics ==
  << MetricMemoryLimit, MetricMemoryMajorPageFaults, MetricMemoryPageFaults,
     MetricMemoryRequest, MetricMemoryUsage, MetricMemoryRSS,
     MetricMemoryCache, MetricMemoryWorkingSet, MetricNodeMemoryAllocatable,
     MetricNodeMemoryCapacity, MetricNodeMemoryUtilization,
     MetricNodeMemoryReservation >>

NetworkMetrics ==
  << MetricNetworkRx, MetricNetworkRxErrors, MetricNetworkRxRate,
     MetricNetworkTx, MetricNetworkTxErrors, MetricNetworkTxRate >>

\* The MetricFamily constants.
MetricFamilyCpu        == "cpu"
MetricFamilyFilesystem == "filesystem"
MetricFamilyMemory     == "memory"
MetricFamilyNetwork    == "network"
MetricFamilyGeneral    == "general"

\* map[MetricFamily][]Metric.
MetricFamilies ==
     (MetricFamilyCpu        :> CpuMetrics)
  @@ (MetricFamilyFilesystem :> FilesystemMetrics)
  @@ (MetricFamilyMemory     :> MemoryMetrics)
  @@ (MetricFamilyNetwork    :> NetworkMetrics)

\* append(append(append(append(Standard, Additional...), Rate...), Labeled...),
\*        NodeAutoscaling...)
AllMetrics ==
  StandardMetrics \o AdditionalMetrics \o RateMetrics \o LabeledMetrics
    \o NodeAutoscalingMetrics

-----------------------------------------------------------------------------
(* Name sets used by the lookups and the properties.                       *)

\* The names of the metrics of a list.
NamesOf(list) == {list[i].name : i \in DOMAIN list}

\* Every iteration order Go's randomised map iteration may give MetricFamilies.
FamilyOrders == SetToSeqs(DOMAIN MetricFamilies)

\* Every name registered in AllMetrics.
RegisteredNames == NamesOf(AllMetrics)

=============================================================================
