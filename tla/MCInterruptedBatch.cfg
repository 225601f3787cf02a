\* The second batch of a document is interrupted, and the Issue relabelled.
SPECIFICATION Spec
CONSTANTS
  Doc = {"d1"}
  NoAuth = NoAuth
  MaxLabels = 3
  MaxRetries = 0
  MaxRemediation = 0
  MaxFaults = 1
INVARIANT InterruptedBatchResumes
CHECK_DEADLOCK FALSE
