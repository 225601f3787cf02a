SPECIFICATION Spec
CONSTANTS
  Remediation = FALSE
  OfferFallback = TRUE
  Events <- Races
  MaxFallback = 1
  MaxCopies = 2
  MaxFaults = 1
CHECK_DEADLOCK FALSE
INVARIANTS StageBudget OneLaunchPerApproval PublishedIsValidated CompletedIsReal
PROPERTIES NothingOverwritten FreshIsAccepted ImplementsStateMachine
