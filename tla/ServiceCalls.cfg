CONSTANTS
  Calls = {"h1", "h2"}
  Transports = {"binary", "websocket"}
  Inputs <- MCInputs
  SessionIds <- MCSessionIds
  MaxReferences = 2
  MaxBrowses = 2
  operation_limits <- MCLimits
  kMaxBrowseContinuationPoints = 1
SPECIFICATION Spec
INVARIANTS RequestIsHeard AnswerIsFaithful PagesAddUp TraceIsContinued
CHECK_DEADLOCK FALSE
