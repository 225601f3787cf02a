\* One document: two labels, retries while nothing came of them, a
\* remediation, and two jobs that die or whose push lands late.
SPECIFICATION Spec
CONSTANTS
  Doc = {"d1"}
  NoAuth = NoAuth
  MaxLabels = 2
  MaxRetries = 5
  MaxRemediation = 1
  MaxFaults = 2
INVARIANTS
  TypeOK
  Replayable
  ClaimedIsClassified
  RecoverableShape
PROPERTIES
  ClaimsExclude
  FirstClaim
CHECK_DEADLOCK FALSE
