------------------------------ MODULE OpenOrders ------------------------------
(***************************************************************************)
(* What a matching engine promises of the orders that are open, with no    *)
(* word about price levels, queues or lookups: orders come in whole, two   *)
(* orders of different users trade the same quantity at a price both of    *)
(* them accept, and an order goes away otherwise only by being withdrawn.  *)
(* OrderBook is shown to implement this.                                   *)
(***************************************************************************)
EXTENDS Integers

CONSTANTS Pairs, Prices, NewOrder

VARIABLE open \* open[pair]: the set of open orders, with what is left of them

Init == open = [pair \in Pairs |-> {}]

(* Two orders that could trade with each other at `price'.                 *)
Agree(bid, ask, price) ==
  /\ bid.side = "Buy" /\ ask.side = "Sell"
  /\ bid.user # ask.user
  /\ bid.price >= price /\ price >= ask.price

(* An order comes in under an id that no open order of the pair has.       *)
Place(pair, o) ==
  /\ \A other \in open[pair] : other.id # o.id
  /\ open' = [open EXCEPT ![pair] = @ \cup {o}]

(* What is left of two orders that traded qty.                             *)
Rest(orders, qty) ==
  {[o EXCEPT !.rem = @ - qty] : o \in {x \in orders : x.rem > qty}}

(* Two orders trade no more than either of them still wants.               *)
Trade(pair, bid, ask, price) ==
  /\ Agree(bid, ask, price)
  /\ \E qty \in {bid.rem, ask.rem} :
       /\ qty <= bid.rem /\ qty <= ask.rem
       /\ open' = [open EXCEPT ![pair] = (@ \ {bid, ask}) \cup Rest({bid, ask}, qty)]

(* A fill-and-kill order may be dropped unfilled only when there is nobody *)
(* left to trade with; a fill-or-kill order is never dropped once it is in.*)
Droppable(pair, o) ==
  \/ o.type \in {"GTC", "GFD"}
  \/ /\ o.type = "FAK"
     /\ ~\E other \in open[pair], price \in Prices :
           Agree(o, other, price) \/ Agree(other, o, price)

Withdraw(pair, orders) ==
  /\ \A o \in orders : Droppable(pair, o)
  /\ open' = [open EXCEPT ![pair] = @ \ orders]

(* A step changes the open orders of one pair.                             *)
Next ==
  \E pair \in Pairs :
    /\ open'[pair] # open[pair]
    /\ \/ \E o \in open'[pair] \cap NewOrder : Place(pair, o)
       \/ \E bid, ask \in open[pair], price \in Prices : Trade(pair, bid, ask, price)
       \/ \E orders \in SUBSET open[pair] : Withdraw(pair, orders)

Spec == Init /\ [][Next]_open
=============================================================================
