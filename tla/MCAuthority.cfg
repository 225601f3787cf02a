CONSTANTS
  Publisher = {p1, p2}
  Registry = {r1, r2}
  Ttl = 2
  MinTime = 4
  MaxTime = 5
  MaxRecords = 6
SYMMETRY Symmetry
SPECIFICATION Spec
INVARIANTS
  TypeOK
  NeverTampered
  RuleWasHead
  StaysVerifiable
  IntakeUnderCurrentAuthority
  SettledCutoffIsStable
CHECK_DEADLOCK FALSE
