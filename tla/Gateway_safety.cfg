SPECIFICATION Spec
CONSTANTS
  MaxFills = 2
  ChannelRoom = 1
  StreamRoom = 1
  BatchCount = 2
  PersistDepth = 1
  MaxFaults = 2
  Orders = {o1, o2}
  Handlers = {h1, h2}
  Quantity = 2
  None = None
SYMMETRY Symmetry
CHECK_DEADLOCK FALSE
INVARIANTS
  GatewayTypeOK
  AckedAreRecorded
  AppliedOnce
  FillsAccounted
  TrimmedAreFarBehind
  NeverMoreThanFilled
  LiveOrdersAreTracked
PROPERTIES
  ToldInOrder
  ClosedRowsStayClosed
