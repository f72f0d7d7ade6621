SPECIFICATION Spec
CONSTANTS
  Clients = {c1}
  Consumer = consumer
  Fetchers = {f1, f2}
  Casters <- MCCasters
  Topics = {"user", "pair"}
  TopicLists <- MCTopicLists
  Room = 1
  Interval = 2
  MaxRequests = 2
  MaxFills = 1
CHECK_DEADLOCK FALSE
INVARIANTS
  PushTypeOK
  NoGaps
  CrashNeedsSlowClient
  TheGoneAreForgotten
PROPERTIES
  FetchesApart
  RequestsAreAnswered
  DeadClientsLeave
