SPECIFICATION Spec
CONSTANTS
  Remediation = TRUE
  OfferFallback = FALSE
  Events <- CronAndDeadline
  MaxFallback = 0
  MaxCopies = 1
  MaxFaults = 0
CHECK_DEADLOCK FALSE
PROPERTY Settles
