SPECIFICATION FairSpec
CONSTANTS
  TrimURL <- MCTrimURL
  ValidURLs = {"a", "b", "c"}
  Configurations <- MCConfigurations
  Statuses = {200, 204, 302, 404, 408, 503}
  Operations = {1}
  MaxCalls = 3
  MaxHeartbeats = 1
INVARIANTS
  TypeOK
  CreatedOncePerIntent
  FailoverIsComplete
  RecentFirst
PROPERTIES
  CallReturns
