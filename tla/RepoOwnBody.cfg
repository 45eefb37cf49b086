SPECIFICATION MCSpec
CONSTANTS
  Requests = {r1, r2}
  Urls <- MCUrls
  Sites <- MCSites
  Count = 1
  MaxNumber = 4
  YearDirs = {9}
  Workers = {w1, w2}
  SearchPrefixes <- MCSearchPrefixes
  Feeds <- MCFeeds
  Desired = 3
  DepthTolerance = 1
  Prefixed <- MCPrefixed
  MaxClimb = 3
INVARIANTS OwnBody
CHECK_DEADLOCK FALSE
