\* Two successive authorizations of one Issue, remediations included, with
\* every record kind, two digests and attempts one past the validation cap;
\* at most one of the two is resumed.
SPECIFICATION Spec
CONSTANTS
  Auth = {a1, a2}
  Run = {r1}
  Nonce = {n1, n2}
  Digest = {d1, d2}
  FailureCode = {"FAILURE"}
  NoAuth = NoAuth
  NoRun = NoRun
  NoNonce = NoNonce
  NoDigest = NoDigest
  MaxAttempt = 3
SYMMETRY Symmetry
CONSTRAINT OneResumes
INVARIANTS
  TypeOK
  PendingMatchesStage
  ResumeBudget
  EvidenceLineage
  IndexAgreesWithChain
  BranchLineage
PROPERTIES
  TerminalIsFinal
  ImplementsStateMachine
CHECK_DEADLOCK FALSE
