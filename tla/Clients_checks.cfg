SPECIFICATION ClientsSpec
CONSTANTS
  Bot = {b1, b2}
  Version = {v1, v2}
  Call = {k1, k2}
  NoBot = NoBot
  NoVersion = NoVersion
  Deleted = Deleted
  NoDoc = NoDoc
  Cap = 1
  MaxPartition = 3
  MaxCalls = 4
  MaxFaults = 1
  Metric = {m1}
  Gap = 1
  Window = 2
  PageSize = 2
  MaxNow = 3
  MaxOutput = 3
  Bundle = {k1, k2}
  NoBundle = NoBundle
  Load = {b1, b2, b3}
  ApiCall = {k1, k2}
  MaxToken = 3
  Watched = {k1, k2}
  Nothing = Nothing
  maxReconnectAttempts = 2
  MaxSource = 2
  Listed = {k1, k2}
  Absent = Absent
  Home = Home
  MaxRequest = 2
  MaxIncident = 1
  MaxKey = 2
  MaxAsk = 2
  MaxLost = 1
  MaxUser = 2
  MaxJob = 2
  BotName = {k1, k2}
  ListPage = ListPage
  versionsPerPage = 1
  MaxPublished = 2
  StateKey = {k1, k2}
  StateValue = {v1, v2}
  Process = {b1, b2}
INVARIANTS
  ClientsTypeOK
  CountsCoverBots
  AgreesUnlessDisturbed
  GroupsAreExact
  DashboardIsTheOneAsked
  SessionAgrees
  OneStreamPerView
  
  NewKeysAreSeen
  TableIsTrue
  PageIsOfOneVersion
  StateIsAsLeft
SYMMETRY Symmetry
CHECK_DEADLOCK FALSE
