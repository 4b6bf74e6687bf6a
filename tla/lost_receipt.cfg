\* The sender is exported under another name, and what it writes is refused.
SPECIFICATION FairSpec
CONSTANTS
  a = a b = b c = c x = x w = w y = y z = z alias = alias
  next = next talk = talk far = far call = call hidden = hidden loop = loop ghost = ghost
  Servers <- MCServers
  Actors <- MCActors
  Home <- MCHome
  ExportedAs <- AlsoAlias
  Imports <- MCImports
  TransitImports <- MCTransit
  Edges <- MCEdges
  Messages <- MCMessages
  Plan <- MCPlan
  HopCap = 1
  Faults = {}
  MaxFaults <- MCMaxFaults
  Pausable <- MCPausable
  Answered <- MCAnswered
  MaxAsks = 1
INVARIANTS
  NeverLostSilently
CHECK_DEADLOCK FALSE
