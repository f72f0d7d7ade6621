SPECIFICATION Spec
CONSTANTS
  Pairs = {p}
  OrderIds = {o1, o2, o3, o4}
  OrderTypes = {"GTC"}
  Users = {u1, u2}
  Prices = {1, 2}
  Quantities = {1}
  Nil = Nil
SYMMETRY Symmetry
INVARIANTS
  NoStrangersCross
