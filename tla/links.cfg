\* One message of each kind, its answer, and any disturbances of its way; two targets,
\* two rounds each and any three events.
SPECIFICATION LinksSpec
CONSTANTS
  a = a b = b c = c x = x w = w y = y z = z alias = alias
  next = next talk = talk far = far call = call hidden = hidden loop = loop ghost = ghost
  Servers <- MCServers
  Actors <- MCActors
  Home <- MCHome
  ExportedAs <- NotX
  Imports <- MCImports
  TransitImports <- MCTransit
  Edges <- MCEdges
  Messages <- MCMessages
  Plan <- MCPlan
  HopCap = 1
  Faults <- AllFaults
  MaxFaults <- MCMaxFaults
  Pausable <- MCPausable
  Answered <- MCAnswered
  MaxAsks = 1
  bob = bob
  carol = carol
  Targets <- MCTwo
  MaxAttempts = 2
  Kinds <- AllKinds
  MaxEvents = 3
INVARIANTS
  LinksTypeOK
  NeverLostSilently
  TrueReport
  NamesLeadBack
  FrontOnly
PROPERTIES
  EveryEnvelopeEnds
  LeavesForCause
  EveryIntentEnds
\* Everything was delivered or reported, and everything ended or answered.
CHECK_DEADLOCK FALSE
