SPECIFICATION EngineSpec
CONSTANTS
  Pairs <- OnePair
  OrderIds = {o1, o2, o3}
  OrderTypes = {"GTC"}
  Users = {u1, u2}
  Prices = {1, 2}
  Quantities = {1}
  Nil = Nil
  Assets = {"ETH", "USDC"}
  Amounts = {2}
  QuantityMax = 3
SYMMETRY Symmetry
CHECK_DEADLOCK FALSE
PROPERTIES
  FillsConserveFunds
