--------------------------- MODULE MCGatewayOrders ---------------------------
(* Instances of GatewayOrders for TLC.                                     *)
EXTENDS GatewayOrders, TLC

Symmetry == Permutations(Orders) \cup Permutations(Handlers)
=============================================================================
