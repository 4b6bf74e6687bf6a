\* One kill while a message is being typed.
SPECIFICATION Spec
CONSTANTS
  alice = alice
  self = self
  Ids <- MCIds
  SelfIds <- MCNoSelf
  MaxSeq = 2
  Provision = "manual"
  Kinds <- KillOnly
  MaxFaults = 1
PROPERTY
  FailsOnlyLive
CHECK_DEADLOCK FALSE
