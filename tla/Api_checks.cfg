SPECIFICATION ApiSpec
CONSTANTS
  Publisher = {u1, u2}
  Ver = {1, 2}
  Major <- MajorOf
  Longer <- NoPair
  Deployed = {d1}
  Req = {k1, k2}
  Nobody = Nobody
  MaxRow = 2
  MaxReq = 4
  MaxArchive = 2
  MaxMiss = 1
  Account = {root, a1}
  Root = root
  Legacy = {a1}
  Nowhere = Nowhere
  Edit <- Edits
  Instance = {u1, u2}
  Change = {k1, k2}
  MaxStamp = 4
  MaxStart = 2
  Member = {m1}
  Password = {p1, p2}
  KeyName = {n1}
  Visit = {k1, k2}
  MaxVersion = 2
  MaxKey = 3
  StateKey = {f1, f2, f3}
  Access = {k1, k2}
  MaxEtag = 4
  Days = 2
  MaxLines = 5
  TailLines = 2
  Cap = 4
  Picked = {1, 3}
  Limits = {1, 2}
  Offsets = {0, 1, 2}
  Viewer = {u1, u2, u3}
  MaxSub = 2
  MaxMessage = 3
  MaxLine = 3
  Limit = 1
  Realtime = {d1}
  Scheduled = {d2}
  Query = {k1, k2}
  NoOne = NoOne
INVARIANTS
  VersionsInOrder
  VersionsHaveTheirFiles
  
  
  OneChangeAtATime
  AnAdminRemains
  AcceptedTokensAreCurrent
  PagesAreExact
  NoIdleSubscription
  StreamsMissNothing
  LiveLinesSurvive
  OneSourceOfUpdates
  
PROPERTIES
  DeletionSparesBots
  ImplementsRoster
  DeletingTakesOneKey
SYMMETRY Symmetry
CHECK_DEADLOCK FALSE
