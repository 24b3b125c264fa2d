SPECIFICATION Spec
CONSTANTS
  Process = {p, q, r}
  analyze = analyze
  review = review
  Step <- MCStep
  Workflow <- MCStep
  Request <- MCRequest
  Checking <- MCChecking
  MaxRuns = 2
  MaxCalls = 2
  MaxFaults = 0
  RotateAt = 3
  WriteEvery = 2
  NoTrail = NoTrail
  Corrupt = Corrupt
  NoStep = NoStep
SYMMETRY Symmetric
CHECK_DEADLOCK FALSE
INVARIANT
  ColdReloadReadsFile
