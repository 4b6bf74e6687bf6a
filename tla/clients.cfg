\* One part at a time: its short run of every order of its steps and disturbances.
SPECIFICATION ClientsSpec
CONSTANTS
  ann = ann ben = ben bot = bot aid = aid mPeople = mPeople mMixed = mMixed mAgents = mAgents
  mine1 = mine1 their1 = their1 old1 = old1 old2 = old2 main = main aside = aside ok = ok idle = idle
  Humans = {ann, ben}
  Marked = {mPeople, mMixed, mAgents}
  Ends <- MCEnds
  Emoji = {ok}
  Earnest = {ok}
  RxSlots = {1, 2}
  MaxRequests = 2
  MaxUpsets = 1
  Mine = {mine1}
  Theirs = {their1, old1, old2}
  Past <- MCPast
  Threads = {main, aside}
  ThreadOf <- MCThreadOf
  PageSize = 1
  Requests = {1}
  MaxWipes = 1
  MaxBreaks = 1
  Moods = {idle, busy}
  MaxMoves = 2
  MaxDrops = 1
  MaxEvents = 2
  MaxOutput = 3
  MaxKeys = 2
  MaxFaults = 1
  Letters = {"x", "space"}
  Space = "space"
  LineMax = 2
  MaxPresses = 5
  Ttl = 4
  Renewal = 2
  MaxAttempts = 2
  Window = 2
  MaxTime = 6
  MaxLogins = 2
  MaxHiccups = 2
  PrNames = {"a", "b"}
  PrLibraries <- MCLibraries
  ShelvesMax = 3
  PerShelfMax = 2
  PrSlots = {1, 2}
  MaxEdits = 2
  MaxMisfits = 2
  Segments = {"a", "A", "b"}
  FoldOf <- MCFold
  MaxDepth = 2
  MaxTopicId = 3
  UsageDays = 1
  LastDay = 1
  MaxUses = 1
  MaxChanges = 3
  MaxPosts = 2
  MaxLetters = 2
  MaxEntries = 2
  MaxMishaps = 1
INVARIANTS
  ClientsTypeOK
  PanelTells
  CopiesAgree
  EditsHold
  LoginsHold
  ChannelsDeliver
\* The bounds end every part.
CHECK_DEADLOCK FALSE
