---------------------------- MODULE RegistryLookup ---------------------------
(***************************************************************************)
(* The registry lookups as the code runs them: MetricFamilyForName and     *)
(* IsNodeAutoscalingMetric as loops, one step per family visited by        *)
(* `range MetricFamilies` (whose order Go randomises on every call) and    *)
(* one step per entry of NodeAutoscalingMetrics, and the rate lookup as    *)
(* one index of the RateMetricsMapping map.  Each caller is a goroutine;   *)
(* callers share only the read-only registry.                              *)
(***************************************************************************)
EXTENDS MetricCatalog

CONSTANTS
  Callers,      \* goroutines calling the lookups
  QueryNames    \* metric names they ask about

VARIABLES
  pc,       \* [Callers -> {"idle", "scanFamilies", "scanAutoscaling",
            \*              "lookupRate", "done"}]
  query,    \* [Callers -> [kind, name]]: the call in progress
  result,   \* [Callers -> FamilyResult or AutoscalingResult]: the value returned
  order,    \* [Callers -> Seq(family)]: this call's map iteration order
  idx       \* [Callers -> Nat]: loop position

vars == <<pc, query, result, order, idx>>

QueryKinds == {"family", "autoscaling", "rate"}
NoQuery    == [kind |-> "family", name |-> "none"]
NoResult   == [none |-> TRUE]
FamilyResult(f)      == [family |-> f]
AutoscalingResult(b) == [isAutoscaling |-> b]
RateResult(r)        == [rate |-> r]
NoRateMetric         == "none"

Init ==
  /\ pc = [c \in Callers |-> "idle"]
  /\ query = [c \in Callers |-> NoQuery]
  /\ result = [c \in Callers |-> NoResult]
  /\ order = [c \in Callers |-> << >>]
  /\ idx = [c \in Callers |-> 1]

\* Entering MetricFamilyForName(n): range over the map in a fresh order.
CallFamily(c, n) ==
  /\ pc[c] = "idle"
  /\ \E o \in FamilyOrders : order' = [order EXCEPT ![c] = o]
  /\ pc' = [pc EXCEPT ![c] = "scanFamilies"]
  /\ query' = [query EXCEPT ![c] = [kind |-> "family", name |-> n]]
  /\ idx' = [idx EXCEPT ![c] = 1]
  /\ UNCHANGED result

\* The family visited now lists the name: return it.
FamilyMatch(c) ==
  /\ pc[c] = "scanFamilies"
  /\ idx[c] <= Len(order[c])
  /\ query[c].name \in NamesOf(MetricFamilies[order[c][idx[c]]])
  /\ result' = [result EXCEPT ![c] = FamilyResult(order[c][idx[c]])]
  /\ pc' = [pc EXCEPT ![c] = "done"]
  /\ UNCHANGED <<query, order, idx>>

FamilyMiss(c) ==
  /\ pc[c] = "scanFamilies"
  /\ idx[c] <= Len(order[c])
  /\ query[c].name \notin NamesOf(MetricFamilies[order[c][idx[c]]])
  /\ idx' = [idx EXCEPT ![c] = @ + 1]
  /\ UNCHANGED <<pc, query, result, order>>

\* Mutation: returning the zero MetricFamily ("") instead of general.
FamilyDefaultZeroValue(c) ==
  /\ pc[c] = "scanFamilies"
  /\ idx[c] > Len(order[c])
  /\ result' = [result EXCEPT ![c] = FamilyResult("")]
  /\ pc' = [pc EXCEPT ![c] = "done"]
  /\ UNCHANGED <<query, order, idx>>

\* Every family visited without a match: return MetricFamilyGeneral.
FamilyDefault(c) ==
  /\ pc[c] = "scanFamilies"
  /\ idx[c] > Len(order[c])
  /\ result' = [result EXCEPT ![c] = FamilyResult(MetricFamilyGeneral)]
  /\ pc' = [pc EXCEPT ![c] = "done"]
  /\ UNCHANGED <<query, order, idx>>

CallAutoscaling(c, n) ==
  /\ pc[c] = "idle"
  /\ pc' = [pc EXCEPT ![c] = "scanAutoscaling"]
  /\ query' = [query EXCEPT ![c] = [kind |-> "autoscaling", name |-> n]]
  /\ order' = [order EXCEPT ![c] = << >>]
  /\ idx' = [idx EXCEPT ![c] = 1]
  /\ UNCHANGED result

AutoscalingMatch(c) ==
  /\ pc[c] = "scanAutoscaling"
  /\ idx[c] <= Len(NodeAutoscalingMetrics)
  /\ NodeAutoscalingMetrics[idx[c]].name = query[c].name
  /\ result' = [result EXCEPT ![c] = AutoscalingResult(TRUE)]
  /\ pc' = [pc EXCEPT ![c] = "done"]
  /\ UNCHANGED <<query, order, idx>>

AutoscalingMiss(c) ==
  /\ pc[c] = "scanAutoscaling"
  /\ idx[c] <= Len(NodeAutoscalingMetrics)
  /\ NodeAutoscalingMetrics[idx[c]].name # query[c].name
  /\ idx' = [idx EXCEPT ![c] = @ + 1]
  /\ UNCHANGED <<pc, query, result, order>>

AutoscalingDefault(c) ==
  /\ pc[c] = "scanAutoscaling"
  /\ idx[c] > Len(NodeAutoscalingMetrics)
  /\ result' = [result EXCEPT ![c] = AutoscalingResult(FALSE)]
  /\ pc' = [pc EXCEPT ![c] = "done"]
  /\ UNCHANGED <<query, order, idx>>

CallRate(c, n) ==
  /\ pc[c] = "idle"
  /\ pc' = [pc EXCEPT ![c] = "lookupRate"]
  /\ query' = [query EXCEPT ![c] = [kind |-> "rate", name |-> n]]
  /\ UNCHANGED <<result, order, idx>>

\* metric, found := RateMetricsMapping[n]
RateLookup(c) ==
  /\ pc[c] = "lookupRate"
  /\ result' = [result EXCEPT ![c] =
                  RateResult(IF query[c].name \in DOMAIN RateMetricsMapping
                             THEN RateMetricsMapping[query[c].name].name
                             ELSE NoRateMetric)]
  /\ pc' = [pc EXCEPT ![c] = "done"]
  /\ UNCHANGED <<query, order, idx>>

\* The caller consumes the returned value and may call again.
Return(c) ==
  /\ pc[c] = "done"
  /\ pc' = [pc EXCEPT ![c] = "idle"]
  /\ query' = [query EXCEPT ![c] = NoQuery]
  /\ result' = [result EXCEPT ![c] = NoResult]
  /\ UNCHANGED <<order, idx>>

Scan(c) ==
  \/ FamilyMatch(c) \/ FamilyMiss(c) \/ FamilyDefault(c)
  \/ AutoscalingMatch(c) \/ AutoscalingMiss(c) \/ AutoscalingDefault(c)
  \/ RateLookup(c)

Next ==
  \E c \in Callers :
    \/ \E n \in QueryNames : CallFamily(c, n) \/ CallAutoscaling(c, n) \/ CallRate(c, n)
    \/ Scan(c)
    \/ Return(c)

\* A running goroutine keeps being scheduled: the lookups never block.
Spec == Init /\ [][Next]_vars /\ \A c \in Callers : WF_vars(Scan(c))

-----------------------------------------------------------------------------
(* Properties.                                                             *)

TypeOK ==
  /\ pc \in [Callers -> {"idle", "scanFamilies", "scanAutoscaling", "lookupRate", "done"}]
  /\ query \in [Callers -> [kind : QueryKinds, name : QueryNames \cup {"none"}]]
  /\ result \in [Callers -> {FamilyResult(f) : f \in DOMAIN MetricFamilies \cup {MetricFamilyGeneral}}
                              \cup {AutoscalingResult(b) : b \in BOOLEAN} \cup {NoResult}
                              \cup {RateResult(r) : r \in RegisteredNames \cup {NoRateMetric}}]
  /\ idx \in [Callers -> 1..(Len(NodeAutoscalingMetrics) + 1)]

\* The loops implement the abstract lookups: whatever order Go's map
\* iteration picks in MetricFamilyForName, the family returned is the one
\* spec section 4.4 names (the owner, else general), IsNodeAutoscalingMetric
\* answers list membership, the rate lookup answers the mapping, and every
\* call returns.
Abstract == INSTANCE CatalogLookup WITH
  pc <- [c \in Callers |->
           IF pc[c] \in {"scanFamilies", "scanAutoscaling", "lookupRate"}
           THEN "pending" ELSE pc[c]]

LookupRefinesCatalog == Abstract!Spec

\* The metric of the registry walked by extraction with a given name.
ExtractedMetrics ==
  LET l == StandardMetrics \o LabeledMetrics
  IN  {l[i] : i \in {k \in DOMAIN l : l[k].extractor # "none"}}

\* Every rate metric a caller is handed by the rate lookup is what the
\* downstream rate stage needs: the name asked about is a Cumulative metric
\* that extraction actually produces; the answer is a Gauge registered in
\* RateMetrics with the same label descriptors as its source; and no other
\* raw name resolves to the same rate metric (spec section 8).
RateAnswersWellFormed ==
  \A c \in Callers :
    pc[c] = "done" /\ query[c].kind = "rate" /\ result[c].rate # NoRateMetric =>
      \E m \in ExtractedMetrics, r \in {RateMetrics[i] : i \in DOMAIN RateMetrics} :
        /\ m.name = query[c].name
        /\ r.name = result[c].rate
        /\ m.type = "Cumulative"
        /\ r.type = "Gauge"
        /\ r.labels = m.labels
        /\ \A n \in DOMAIN RateMetricsMapping \ {m.name} :
             RateMetricsMapping[n].name # r.name

=============================================================================
