---------------------------- MODULE MCOrderBook ----------------------------
(* Instances of OrderBook for TLC.                                         *)
EXTENDS OrderBook, TLC

Symmetry == Permutations(OrderIds) \cup Permutations(Users)

(* Bound: an order whose id is in the book is refused whatever else it is, *)
(* so the rest of it takes one value only.                                 *)
KnownIdsOnce ==
  phase = "rejected" /\ taker.id \in DOMAIN orders_map[book] =>
    taker.type = "GTC" /\ taker.side = "Buy" /\ {taker.price, taker.rem} = {1}

(* Order ids are snowflakes: a new order's id is above those of the orders *)
(* that are resting.                                                       *)
IdsGrow ==
  \A pair \in Pairs :
    \A new \in DOMAIN orders_map'[pair] \ DOMAIN orders_map[pair],
       old \in DOMAIN orders_map[pair] : old < new
=============================================================================
