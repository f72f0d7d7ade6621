SPECIFICATION Spec
CONSTANTS
  Pairs = {p}
  OrderIds = {1, 2, 3, 4}
  OrderTypes = {"GTC"}
  Users = {u1, u2, u3}
  Prices = {1}
  Quantities = {1}
  Nil = Nil
ACTION_CONSTRAINT IdsGrow
PROPERTIES
  OldestMatchesFirst
