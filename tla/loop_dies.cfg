\* One reload while a backlog is drained.
SPECIFICATION Spec
CONSTANTS
  alice = alice
  self = self
  Ids <- MCIds
  SelfIds <- MCNoSelf
  MaxSeq = 2
  Provision = "manual"
  Kinds <- ReloadOnly
  MaxFaults = 1
INVARIANT
  LoopSurvives
CHECK_DEADLOCK FALSE
