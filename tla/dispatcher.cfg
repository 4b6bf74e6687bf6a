\* Every kind of disruption, two of them, over two ids and two stamps.
SPECIFICATION Spec
CONSTANTS
  alice = alice
  self = self
  Ids <- MCIds
  SelfIds <- MCSelfIds
  MaxSeq = 2
  Provision = "manual"
  Kinds <- AllKinds
  MaxFaults = 2
INVARIANTS
  TypeOK
  SingleFlight
  ServedOnce
  OnePlace
  WindowCovers
  BusyIsATurn
  PauseHolds
\* The server stops after stop(), and a loop that threw never runs again.
CHECK_DEADLOCK FALSE
