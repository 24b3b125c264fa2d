SPECIFICATION Spec
CONSTANTS
  Session = {s1, s2}
  Skill = {gto, package}
  MaxFaults = 1
  MaxLoads = 2
  MaxRuns = 2
  NoState = NoState
  NoRun = NoRun
  NoSkill = NoSkill
INVARIANTS
  TypeOK
  StrikeIsEarned
  TwoStrikes
  RetryNeverOvercounts
  WarnedWasRefusedTwice
  RefusalsBounded
PROPERTIES
  GovernanceYields
  RetriesRunOut
CHECK_DEADLOCK FALSE
