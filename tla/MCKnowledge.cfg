SPECIFICATION Spec
CONSTANTS
  Findings = {1, 2}
  Ambiguous = {2}
  MaxPerFinding = 2
  MaxPerPR = 2
  MaxHead = 2
  MaxDeaths = 1
CHECK_DEADLOCK FALSE
INVARIANTS TypeOK OneRecordPerKey RequestedFirst BudgetHolds ProofFirst
