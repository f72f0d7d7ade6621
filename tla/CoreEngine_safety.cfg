SPECIFICATION EngineSpec
CONSTANTS
  Pairs <- OnePair
  OrderIds = {o1, o2, o3}
  OrderTypes = {"GTC", "FAK", "FOK"}
  Users = {u1, u2}
  Prices = {1, 2}
  Quantities = {1, 2}
  Nil = Nil
  Assets = {"ETH", "USDC"}
  Amounts = {1, 3}
  QuantityMax = 3
SYMMETRY Symmetry
CHECK_DEADLOCK FALSE
INVARIANTS
  EngineTypeOK
  NothingOfTheRemoved
  LockedWithinBalance
  OrdersCovered
  LeftoverLocksAreBuyers
  SettlementFailsOnlyOnOverflow
  ModifyNeverLosesTheOrder
