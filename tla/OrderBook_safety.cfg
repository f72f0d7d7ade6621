SPECIFICATION Spec
CONSTANTS
  Pairs = {p}
  OrderIds = {o1, o2, o3, o4}
  OrderTypes = {"GTC", "FAK", "FOK"}
  Users = {u1, u2}
  Prices = {1, 2}
  Quantities = {1, 2}
  Nil = Nil
SYMMETRY Symmetry
CONSTRAINT KnownIdsOnce
INVARIANTS
  TypeOK
  BookAgrees
  ParkedApart
  NoEmptyLevel
  FokAllOrNothing
  CrossedOnlyBySelf
  FakTakesAllItCan
PROPERTIES
  ImplementsOpenOrders
  CallReturns
