SPECIFICATION CatalogSpec
CONSTANTS
  Publisher = {u1}
  Ver = {1, 2}
  Major <- MajorOf
  Longer <- OnePair
  Deployed = {d1}
  Req = {k1}
  Nobody = Nobody
  MaxRow = 2
  MaxReq = 3
  MaxArchive = 2
  MaxMiss = 0
INVARIANT
  VersionsHaveTheirFiles
CHECK_DEADLOCK FALSE
