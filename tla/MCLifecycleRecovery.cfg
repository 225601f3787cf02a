SPECIFICATION Spec
CONSTANTS
  Remediation = FALSE
  OfferFallback = TRUE
  Events <- TimeAndDeaths
  MaxFallback = 1
  MaxCopies = 1
  MaxFaults = 2
CHECK_DEADLOCK FALSE
PROPERTY Settles
