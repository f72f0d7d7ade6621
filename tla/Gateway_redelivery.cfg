SPECIFICATION FairSpec
CONSTANTS
  MaxFills = 1
  ChannelRoom = 1
  StreamRoom = 1
  BatchCount = 1
  PersistDepth = 1
  MaxFaults = 1
  Orders = {o1, o2}
  Handlers = {h1}
  Quantity = 1
  None = None
CHECK_DEADLOCK FALSE
PROPERTIES
  RedeliveredOnRestart
