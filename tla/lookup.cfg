\* Family, autoscaling and rate lookups against the abstract lookup spec,
\* and the soundness of the rate answers.
CONSTANTS
  Callers = {c1}
  QueryNames <- MCQueryNames
SPECIFICATION Spec
INVARIANT TypeOK
INVARIANT RateAnswersWellFormed
PROPERTY LookupRefinesCatalog
