SPECIFICATION Spec
CONSTANTS
  Commands = {"deposit", "take", "cancel"}
  Orders = {"take"}
  Cancels = {"cancel"}
  EngineStates <- MCEngineStates
  EmptyEngine <- MCEmptyEngine
  Execute <- MCExecute
  Panics <- MCPanics
  Trades <- MCTrades
  NoCommand = "none"
  MaxPieces = 3
  MaxFaults = 2
  MaxSequence = 1
  LastMillis = 2
CHECK_DEADLOCK FALSE
INVARIANTS
  RestartRestoresState
