CONSTANTS
  Calls = {"h1"}
  Transports = {"binary"}
  Inputs <- MCRegistration
  SessionIds <- MCSessionIds
  MaxReferences = 1
  MaxBrowses = 1
  operation_limits <- MCLimits
  kMaxBrowseContinuationPoints = 1
SPECIFICATION FairSpec
PROPERTY RegistrationIsAnswered
CHECK_DEADLOCK FALSE
