# TLA+ models of heapster's metric catalog (`metrics/core/metrics.go`)

## The system

`src/metrics/core/metrics.go` is heapster's metric catalog. It has four parts (spec section 2):

- **Descriptor Registry.** Package-level `Metric` values (a `MetricDescriptor` plus optional
  closures) are grouped into `StandardMetrics`, `AdditionalMetrics`, `RateMetrics`,
  `LabeledMetrics` and `NodeAutoscalingMetrics`. There are also the per-family lists,
  `MetricFamilies`, `RateMetricsMapping` and `AllMetrics`.
- **Scalar Extraction.** `HasValue`/`GetValue` of uptime, cpu/usage, memory/* and network/*.
  Capability flags gate them. Node entities are suppressed to 0. The int64 conversion of
  cadvisor's uint64 counters happens here, as do the network sum over interfaces and uptime
  from `time.Since`.
- **Labeled Extraction.** `HasLabeledMetric`/`GetLabeledMetric` of filesystem/*, disk/io_* and
  accelerator/*. These produce one point per filesystem (per inode-capable filesystem for the
  inode metrics), per disk partition, or per accelerator. Labels are `resource_id`, or
  make/model/id for accelerators. An unnamed partition's `resource_id` falls back to
  `"major:minor"`, and a missing `Stats` key reads as 0.
- **Classification & Lookup.** `MetricFamilyForName` ranges over the `MetricFamilies` Go map.
  `IsNodeAutoscalingMetric` scans a list. Callers index `RateMetricsMapping`.

The catalog itself never changes. The part that changes is the world around it:

- The upstream collector (cadvisor) delivers one snapshot after another for an entity.
- A consumer walks `AllMetrics` and, for each metric whose predicate holds, emits its point or
  points.
- Callers of the lookups run concurrently.

The models check what the catalog's code promises across that sequence of snapshots and
under any map iteration order.

## Modules

| Module | Models | State / actions |
|---|---|---|
| `MetricCatalog` | Descriptor Registry | Constants only. Every descriptor is a `Metric(name, type, valueType, units, labels, extractor)` record. `extractor` is `"scalar"`, `"labeled"` or `"none"` (no closures; the tagged variant of spec section 9). Every list keeps the source's order, duplicates included. `FamilyOrders` is every order in which Go may range over `MetricFamilies`. |
| `MetricExtraction` | Scalar and Labeled Extraction | Pure operators, one per closure group. `HasValue`, `GetValue`, `HasLabeledMetric` and `GetLabeledMetric` dispatch on the name. Getter tables say which snapshot field each closure reads. `Int64` wraps at `IntWidth` bits. `GoDiv` truncates toward zero. `Decimal` renders `%d`. `Decode` is the consumer's walk of `AllMetrics` (spec section 2; that code is not under `src/`). |
| `Scrape` | One entity scraped over time | Variables `c`, `stat`, `now` and `points`. Each action is one collector step followed by `points' = Decode(...)`, so the extraction is part of every step and never a separate action. The steps are: the CPU counter or a page-fault counter grows; an interface appears or counts traffic; a filesystem is mounted; a partition appears (named or unnamed, with `Read`/`Write` or only `Write` keys) or does I/O; an accelerator is attached; the wall clock ticks or is stepped back. When the constant `InstancesMayVanish` is TRUE, an interface, filesystem, partition or accelerator may also stop being listed (`RemoveAt`). |
| `CatalogLookup` | What a lookup promises (abstract) | Per caller, `idle -> pending -> done -> idle`. `Respond` gives the family that owns the name (else general), list membership, or the mapped rate metric. |
| `RegistryLookup` | The lookups as the code runs them | `CallFamily` picks any iteration order of the map (`FamilyOrders`). `FamilyMatch`, `FamilyMiss` and `FamilyDefault` are the loop bodies and the final return. `AutoscalingMatch`, `AutoscalingMiss` and `AutoscalingDefault` are the same for `IsNodeAutoscalingMetric`. `RateLookup` is the map index. Refines `CatalogLookup` with `pc` mapped from the scan states to `pending`. |
| `MCScrape`, `MCRegistryLookup` | Model values | Two container specs: every capability with a creation time, and none with the zero time. The query names are every registered name plus one custom name. |

## Runs

| Run | Expect | Checks |
|---|---|---|
| `scrape_scalar` | pass | Interfaces and the accelerator may vanish. `TypeOK`; `NodeSuppression` (every gated scalar of a node entity is 0 although the raw fields are not); `DecreasesOnlyOnInterfaceRemoval` (a counter-backed Cumulative series, summed network counters included, goes down only in a step that drops an interface). |
| `scrape_labeled` | pass | Filesystems and partitions may vanish. `LabeledPointsDistinct` (no two points of one labeled metric share labels: filesystem devices, named and `major:minor` partitions); `LabeledCardinality` (one point per qualifying instance, inode filter included); `CountersNonDecreasing` for disk bytes. |
| `lookup` | pass | `TypeOK`; `RateAnswersWellFormed` (a rate answer maps an extracted Cumulative metric to a distinct Gauge in `RateMetrics` with the same labels); `LookupRefinesCatalog` (every lookup, under every map iteration order, implements `CatalogLookup`, including its liveness: every call is answered). |
| `scrape_accel` | pass | Two accelerators of one make and model, and two filesystems, attach and detach. `LabeledPointsDistinct` (the device id keeps accelerator series apart); `LabeledCardinality` (one point per device for each accelerator metric, one per filesystem or per inode-capable filesystem). |
| `scrape_ifremoval` | violation | `CountersNonDecreasing`: the network series drop when an interface that carried traffic vanishes. |
| `scrape_uptime` | violation | `UptimeNonDecreasing`: uptime goes down when the clock steps back. |
| `scrape_kind` | violation | `ValueKindMatchesDescriptor`: disk I/O points are `Gauge`, and their descriptors are `Cumulative`. |
| `scrape_unique` | violation | `PointsDistinct`: memory/rss and memory/cache are emitted twice per decode. |

The four violations are findings (see `PROJECT.json`). They are what the code does, so the
passing runs check everything else around them:

- `CountersNonDecreasing` leaves uptime to `UptimeNonDecreasing`.
- `LabeledPointsDistinct` covers labeled metrics only.
- `TypeOK` does not check the value kind.

Each property of a passing run has a mutant in `PROJECT.json`: a plausible bug in the mapped
code that TLC finds. The mutants are:

- a dropped `IsNode` check;
- `=` for `+=` in the interface loop;
- a dropped inode filter;
- `%d` without the minor number;
- loop-variable aliasing in the disk loop;
- a `return` inside the accelerator loop;
- an accelerator point without its id label;
- the zero `MetricFamily` in place of general;
- a rate mapping copy-paste slip;
- a metric listed under two families.

### Bounds and why they are enough

- `IntWidth = 6` and `NsPerMs = 2` scale down Go's int64 and the nanosecond to millisecond
  division. `GaugeValue = 3` makes every gauge non-zero, so node suppression is visible.
- Scalar run:
  - Counters go up to 1. That is enough to see an increase, and an increase is all that
    monotonicity can be violated across.
  - Two interfaces, so the sum over interfaces is exercised.
  - One accelerator. That is enough for the TypeOK label check; `scrape_accel` takes two.
  - A clock of 1..3, so it can tick and step back.
  - Both a container and a node entity, and a spec with and without capabilities.
- Labeled run:
  - Two filesystems, each with or without inodes.
  - Two partitions from {`sda`, unnamed} × minor {0, 1}, with key sets `{Read, Write}` or
    `{Write}`. Two unnamed partitions therefore exercise the fallback key, and a `Write`-only
    partition exercises the zero default.
  - A partition or filesystem that vanishes and is added again comes back at a new position.
    With two instances this is enough to reorder them.
  - The clock goes up to 2.
- Accelerator run: two devices with the same make and model but different ids, which is the
  only case where the id label matters. Two filesystems with or without inodes are added, so
  labeled metrics of two kinds coexist as instances come and go.
- Lookup run: one caller and every registered name, plus a `custom/` name. That covers every
  family list, every rate key and the miss paths. `FamilyOrders` enumerates all 24 orders of
  the four-entry map, which is every order Go can produce.

Callers are independent: the catalog is read-only (spec section 5). One caller therefore shows
everything several would.

### Fairness

`RegistryLookup` assumes weak fairness of each caller's `Scan`. The lookups are non-blocking
loops over finite data, so a running goroutine finishes them. `Call` and `Return` are the
caller's choice and carry no fairness. `CatalogLookup` is weakly fair on `Respond`. The scrape
specifications have no liveness property and no fairness.

## Not modelled

- Descriptions, units prose and label descriptions. No property distinguishes them.
- The values of the additional, rate and autoscaling metrics. They have no closures here and
  are computed by the Kubernetes source and the downstream rate stage, which spec section 1
  puts out of scope.
- Float values. No closure in this file produces one.
- The real 64-bit width. `Int64` models the wrap at 6 bits. Crossing it would take a uint64
  counter above 2^63: 292 core-years of CPU time, or 9.2 EB on one interface. No snapshot
  reaches that, so overflow is not listed as a hazard.
- Counter resets of a restarted container. The catalog sees a restarted container as a new
  entity with new creation time, and it keeps no history.
- Two callers of the lookups. The catalog is read-only after initialisation and the lookups
  share no mutable state (spec section 5). An interleaving of two callers is the product of
  two independent single-caller runs and adds nothing a property could tell apart.
- `AllMetrics` also appends `NodeAutoscalingMetrics` (line 163), while spec section 4.1 says it
  is the first four groups. The models follow the code.

- A consumer that walks `LabeledMetrics` without checking for nil closures. Three entries of
  that list have none (lines 70, 72 and 75). The walk in `MetricExtraction` dispatches on the
  extractor variant, as a nil-checking consumer does. The consumer is not in this repository,
  so the hazard is listed without a property.
- Gauge readings that change. Every gauge field reads `GaugeValue`. The gauge-related
  properties only need it to be non-zero: node suppression, labels, and cardinality. No
  property compares two gauge readings.
- Liveness of the scrape specifications. Every extraction is one synchronous step with no
  waiting, and nothing the core does has to happen eventually. The only liveness is in the
  lookups, and `LookupRefinesCatalog` checks it.

## State of the project

Every closure, list, map and lookup function of `src/metrics/core/metrics.go` is an operator or
action of a module. What is left is outside `src/`: the downstream rate stage, which spec
section 1 puts out of scope, and the collector's counter resets. A model of either would rest
on code this repository does not hold.
