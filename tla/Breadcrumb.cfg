SPECIFICATION Spec
CONSTANTS
  Process = {p, q}
  analyze = analyze
  review = review
  Step <- MCStep
  Workflow <- MCStep
  Request <- MCRequest
  Checking <- MCChecking
  MaxRuns = 2
  MaxCalls = 4
  MaxFaults = 1
  RotateAt = 3
  WriteEvery = 2
  NoTrail = NoTrail
  Corrupt = Corrupt
  NoStep = NoStep
SYMMETRY Symmetric
CHECK_DEADLOCK FALSE
INVARIANTS
  TypeOK
  CreditIsEarned
  VerifiedIsEarned
