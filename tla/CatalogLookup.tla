--------------------------- MODULE CatalogLookup ---------------------------
(***************************************************************************)
(* What the registry lookups promise (spec section 4.4), as an abstract    *)
(* specification: a caller asks for the family of a name, whether it is a  *)
(* node autoscaling metric, or its rate metric, and the answer, given in   *)
(* one step, is the family whose list holds the name (general if none     *)
(* holds it), whether NodeAutoscalingMetrics lists it, or the rate metric  *)
(* RateMetricsMapping pairs it with ("none" if none).                      *)
(***************************************************************************)
EXTENDS MetricCatalog

CONSTANTS
  Callers,      \* goroutines calling the lookups
  QueryNames    \* metric names they ask about

VARIABLES
  pc,       \* [Callers -> {"idle", "pending", "done"}]
  query,    \* [Callers -> [kind, name]]: the call in progress
  result    \* [Callers -> FamilyResult or AutoscalingResult]: the answer given

vars == <<pc, query, result>>

QueryKinds == {"family", "autoscaling", "rate"}
NoQuery    == [kind |-> "family", name |-> "none"]
NoResult   == [none |-> TRUE]
FamilyResult(f)      == [family |-> f]
AutoscalingResult(b) == [isAutoscaling |-> b]
RateResult(r)        == [rate |-> r]

\* The owning family of a name; every name has at most one owner.
FamilyOf(name) ==
  IF \E f \in DOMAIN MetricFamilies : name \in NamesOf(MetricFamilies[f])
  THEN CHOOSE f \in DOMAIN MetricFamilies : name \in NamesOf(MetricFamilies[f])
  ELSE MetricFamilyGeneral

RateOf(name) ==
  IF name \in DOMAIN RateMetricsMapping THEN RateMetricsMapping[name].name ELSE "none"

Answer(q) ==
  CASE q.kind = "family"      -> FamilyResult(FamilyOf(q.name))
    [] q.kind = "autoscaling" -> AutoscalingResult(q.name \in NamesOf(NodeAutoscalingMetrics))
    [] q.kind = "rate"        -> RateResult(RateOf(q.name))

Init ==
  /\ pc = [c \in Callers |-> "idle"]
  /\ query = [c \in Callers |-> NoQuery]
  /\ result = [c \in Callers |-> NoResult]

Call(c, k, n) ==
  /\ pc[c] = "idle"
  /\ pc' = [pc EXCEPT ![c] = "pending"]
  /\ query' = [query EXCEPT ![c] = [kind |-> k, name |-> n]]
  /\ UNCHANGED result

Respond(c) ==
  /\ pc[c] = "pending"
  /\ pc' = [pc EXCEPT ![c] = "done"]
  /\ result' = [result EXCEPT ![c] = Answer(query[c])]
  /\ UNCHANGED query

Return(c) ==
  /\ pc[c] = "done"
  /\ pc' = [pc EXCEPT ![c] = "idle"]
  /\ query' = [query EXCEPT ![c] = NoQuery]
  /\ result' = [result EXCEPT ![c] = NoResult]

Next ==
  \E c \in Callers :
    \/ \E k \in QueryKinds, n \in QueryNames : Call(c, k, n)
    \/ Respond(c)
    \/ Return(c)

\* A pending call is eventually answered.
Spec == Init /\ [][Next]_vars /\ \A c \in Callers : WF_vars(Respond(c))

=============================================================================
