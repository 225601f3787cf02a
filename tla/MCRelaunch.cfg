SPECIFICATION Spec
CONSTANTS
  Remediation = FALSE
  OfferFallback = TRUE
  Events <- CronAndLostWrite
  MaxFallback = 2
  MaxCopies = 2
  MaxFaults = 1
CHECK_DEADLOCK FALSE
INVARIANT ModelRunsOnce
