--------------------------- MODULE MCRegistryLookup -------------------------
(***************************************************************************)
(* Model-checking instance of RegistryLookup: callers ask about every      *)
(* registered name and one custom metric name that no list holds.          *)
(***************************************************************************)
EXTENDS RegistryLookup

MCQueryNames == RegisteredNames \cup {CustomMetricPrefix \o "request_count"}

=============================================================================
