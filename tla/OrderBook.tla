------------------------------ MODULE OrderBook ------------------------------
(***************************************************************************)
(* The price-time priority order book of engine/src/orderbook/mod.rs, one  *)
(* book per trading pair.  A call of add_order is the only operation that  *)
(* takes several steps: it is started by AddOrder, walked by EnterLevel,   *)
(* Skip, Fill and LeaveLevel, ended by Finish and handed back to the       *)
(* caller by Return.  The engine is single-threaded, so no other operation *)
(* starts while `phase' is not "idle".                                     *)
(*                                                                         *)
(* match_order (the order rests and the two sides are matched against each *)
(* other) and match_against_opposite (the order never enters the book) are *)
(* one walk here.  The second is the first with a same-side queue that     *)
(* holds nothing but the incoming order itself.                            *)
(***************************************************************************)
EXTENDS Levels, FiniteSets, Functions

CONSTANTS
  Pairs,      \* trading pairs
  OrderIds,   \* order ids
  OrderTypes, \* the order types in use
  Users,      \* user ids
  Prices,     \* limit prices: the engine admits positive ones only
  Quantities, \* order quantities: the engine admits positive ones only
  Nil         \* no incoming order, no level

ASSUME OrderTypesAssumption == OrderTypes \subseteq {"GTC", "GFD", "FAK", "FOK"}
ASSUME PricesAssumption == Prices \subseteq Nat \ {0}
ASSUME QuantitiesAssumption == Quantities \subseteq Nat \ {0}

VARIABLES
  levels,      \* levels[pair][side]: price -> queue of orders (bids_map, asks_map)
  orders_map,  \* orders_map[pair]: id -> the order as it was placed
  phase,       \* where the add_order call in progress stands
  book,        \* the pair the call is about
  taker,       \* the incoming order
  cursor,      \* the pair of levels being matched, with the counters of the inner loop
  parked,      \* self_trade_levels: opposite levels set aside until Finish
  trades       \* the trades of the call so far

bookVars == <<levels, orders_map>>
callVars == <<phase, book, taker, cursor, parked, trades>>
vars == <<levels, orders_map, phase, book, taker, cursor, parked, trades>>

-----------------------------------------------------------------------------
(* Orders, queues and levels                                               *)

Sides == {"Buy", "Sell"}

Order == [id: OrderIds, type: OrderTypes, side: Sides, price: Prices,
          rem: Nat, user: Users]

Trade == [bid: OrderIds, ask: OrderIds, buyer: Users, seller: Users,
          price: Prices, qty: Nat]

(* A side of a book: a map from the prices that have a level to the orders *)
(* queued there, oldest first.                                             *)
IsSide(f) ==
  /\ DOMAIN f \subseteq Prices
  /\ f \in [DOMAIN f -> Seq(Order)]

(* The flat lookup map of a book.                                          *)
IsOrdersMap(f) ==
  /\ DOMAIN f \subseteq OrderIds
  /\ f \in [DOMAIN f -> Order]

Opposite(side) == IF side = "Buy" THEN "Sell" ELSE "Buy"

(* GTC and GFD orders enter the book, FAK and FOK orders never do.         *)
Rests(o) == o.type \in {"GTC", "GFD"}

(* A buy order crosses the asks at or below its price, a sell order the    *)
(* bids at or above it.                                                    *)
Crosses(side, price, resting) ==
  IF side = "Buy" THEN price >= resting ELSE price <= resting

(* last_key_value of bids_map, first_key_value of asks_map.                *)
IsBest(side, side_levels, p) ==
  /\ p \in DOMAIN side_levels
  /\ \A q \in DOMAIN side_levels : Crosses(side, p, q)

-----------------------------------------------------------------------------
(* What a call looks at before it changes the book                         *)

(* can_match: the best opposite price is at or past the limit, which is so *)
(* when some opposite price is.                                            *)
CanMatch(pair, o) ==
  \E p \in DOMAIN levels[pair][Opposite(o.side)] : Crosses(o.side, o.price, p)

(* Mutant of OthersQuantity: the user's own orders count as well.          *)
EveryonesQuantity(queue, user) ==
  SumFunctionOnSet([i \in DOMAIN queue |-> queue[i].rem], DOMAIN queue)

(* The quantity of other users' orders resting at prices o crosses: the    *)
(* pre-check of a fill-or-kill order.                                      *)
OthersQuantity(queue, user) ==
  SumFunctionOnSet([i \in DOMAIN queue |-> queue[i].rem], {i \in DOMAIN queue : queue[i].user # user})

Available(pair, o) ==
  LET opp == levels[pair][Opposite(o.side)]
  IN  SumFunctionOnSet([p \in DOMAIN opp |-> OthersQuantity(opp[p], o.user)],
                       {p \in DOMAIN opp : Crosses(o.side, o.price, p)})

(* The reasons add_order answers None without touching the book.           *)
Refused(pair, o) ==
  \/ o.id \in DOMAIN orders_map[pair]
  \/ ~Rests(o) /\ ~CanMatch(pair, o)
  \/ o.type = "FOK" /\ Available(pair, o) < o.rem

-----------------------------------------------------------------------------
(* The two sides of the walk                                               *)

SameLevels == levels[book][taker.side]
OppLevels  == levels[book][Opposite(taker.side)]

(* The queue the fills are taken from on the incoming side: the level of   *)
(* the book for a resting order, the incoming order alone for the others.  *)
SameQueue ==
  IF Rests(taker) THEN SameLevels[cursor.same]
  ELSE IF taker.rem = 0 THEN << >> ELSE <<taker>>

OppQueue == OppLevels[cursor.opp]

(* Mutant of NextLevels: levels at the same price do not match.            *)
StrictlyCrossedLevels(same, opp) ==
  /\ IF Rests(taker) THEN IsBest(taker.side, SameLevels, same)
                     ELSE taker.rem > 0 /\ same = taker.price
  /\ IsBest(Opposite(taker.side), OppLevels, opp)
  /\ Crosses(taker.side, same, opp) /\ same # opp

(* The levels the outer loop would match next, if it goes on.              *)
NextLevels(same, opp) ==
  /\ IF Rests(taker) THEN IsBest(taker.side, SameLevels, same)
                     ELSE taker.rem > 0 /\ same = taker.price
  /\ IsBest(Opposite(taker.side), OppLevels, opp)
  /\ Crosses(taker.side, same, opp)

(* The two sides of the book once the incoming order's is `same' and the   *)
(* other one `opp'.                                                        *)
BookOf(same, opp) == [side \in Sides |-> IF side = taker.side THEN same ELSE opp]

-----------------------------------------------------------------------------
(* The operations                                                          *)

Init ==
  /\ levels = [pair \in Pairs |-> [side \in Sides |-> NoLevels]]
  /\ orders_map = [pair \in Pairs |-> [id \in {} |-> Nil]]
  /\ phase = "idle"
  /\ book = Nil
  /\ taker = Nil
  /\ cursor = Nil
  /\ parked = NoLevels
  /\ trades = << >>

(* add_order up to the call of match_order or match_against_opposite.      *)
AddOrder(pair, o) ==
  /\ phase = "idle"
  /\ book' = pair
  /\ taker' = o
  /\ \/ /\ Refused(pair, o)
        /\ phase' = "rejected"
        /\ UNCHANGED bookVars
     \/ /\ ~Refused(pair, o)
        /\ phase' = "walk"
        /\ IF Rests(o)
           THEN /\ orders_map' = [orders_map EXCEPT ![pair] = Remember(@, o)]
                /\ levels' = [levels EXCEPT ![pair][o.side] = Inserted(@, o)]
           ELSE UNCHANGED bookVars
  /\ UNCHANGED <<cursor, parked, trades>>

(* The head of the outer loop, when both sides have a level and they cross.*)
EnterLevel ==
  /\ phase = "walk"
  /\ \E same, opp \in Prices :
       /\ NextLevels(same, opp)
       /\ cursor' = [same |-> same, opp |-> opp,
                     same_len |-> IF Rests(taker) THEN Len(SameLevels[same]) ELSE 1,
                     opp_len |-> Len(OppLevels[opp]),
                     skipped |-> 0, rotated |-> 0]
  /\ phase' = "level"
  /\ UNCHANGED <<levels, orders_map, book, taker, parked, trades>>

(* The condition of the inner loop.                                        *)
InLevel ==
  /\ phase = "level"
  /\ SameQueue # << >>
  /\ OppQueue # << >>

(* Mutant of SelfTrade: no self-trade prevention.                          *)
NeverSelfTrade == FALSE

SelfTrade ==
  /\ InLevel
  /\ Head(SameQueue).user = Head(OppQueue).user

(* Mutant of AllSkipped: one order of the level is not looked at.          *)
AllButOneSkipped == cursor.skipped + 2 >= cursor.opp_len

(* Every opposite order of the level has been skipped by the front order   *)
(* of the same side.                                                       *)
AllSkipped == cursor.skipped + 1 >= cursor.opp_len

(* Another order of the same side has not had its turn at the front yet.   *)
TurnsLeft == cursor.rotated + 1 < cursor.same_len

(* Self-trade: the resting order goes to the back of its queue.            *)
SkipResting ==
  /\ SelfTrade
  /\ ~AllSkipped
  /\ levels' = [levels EXCEPT ![book] =
                  BookOf(SameLevels, SetLevel(OppLevels, cursor.opp, Rotate(OppQueue)))]
  /\ cursor' = [cursor EXCEPT !.skipped = @ + 1]
  /\ UNCHANGED <<orders_map, phase, book, taker, parked, trades>>

(* ... and so does the front order of the same side, which can only match  *)
(* itself here.                                                            *)
PassTurn ==
  /\ SelfTrade
  /\ AllSkipped
  /\ TurnsLeft
  /\ levels' = [levels EXCEPT ![book] =
                  BookOf(SetLevel(SameLevels, cursor.same, Rotate(SameQueue)),
                         SetLevel(OppLevels, cursor.opp, Rotate(OppQueue)))]
  /\ cursor' = [cursor EXCEPT !.skipped = 0, !.rotated = @ + 1]
  /\ UNCHANGED <<orders_map, phase, book, taker, parked, trades>>

(* ... or the opposite level is set aside for the rest of the call.        *)
ParkLevel ==
  /\ SelfTrade
  /\ AllSkipped
  /\ ~TurnsLeft
  /\ parked' = SetLevel(parked, cursor.opp, Rotate(OppQueue))
  /\ levels' = [levels EXCEPT ![book] = BookOf(SameLevels, DropLevel(OppLevels, cursor.opp))]
  /\ phase' = "walk"
  /\ cursor' = Nil
  /\ UNCHANGED <<orders_map, book, taker, trades>>

(* The front orders of the two levels trade at the resting price.          *)
Fill ==
  /\ InLevel
  /\ ~SelfTrade
  /\ LET incoming == Head(SameQueue)
         resting  == Head(OppQueue)
         qty      == Lesser(incoming.rem, resting.rem)
         bid      == IF taker.side = "Buy" THEN incoming ELSE resting
         ask      == IF taker.side = "Buy" THEN resting ELSE incoming
     IN  /\ levels' = [levels EXCEPT ![book] =
                         BookOf(IF Rests(taker)
                                THEN SetLevel(SameLevels, cursor.same, FillFront(SameQueue, qty))
                                ELSE SameLevels,
                                SetLevel(OppLevels, cursor.opp, FillFront(OppQueue, qty)))]
         /\ taker' = IF Rests(taker) THEN taker ELSE [taker EXCEPT !.rem = @ - qty]
         /\ orders_map' = [orders_map EXCEPT ![book] =
                             Forget(@, {o.id : o \in {x \in {incoming, resting} : x.rem = qty}})]
         /\ trades' = Append(trades, [bid |-> bid.id, ask |-> ask.id,
                                      buyer |-> bid.user, seller |-> ask.user,
                                      price |-> cursor.opp, qty |-> qty])
  /\ UNCHANGED <<phase, book, cursor, parked>>

(* The inner loop has run out of orders on one side.                       *)
LeaveLevel ==
  /\ phase = "level"
  /\ ~InLevel
  /\ levels' = [levels EXCEPT ![book] =
                  BookOf(IF Rests(taker) THEN Prune(SameLevels, cursor.same) ELSE SameLevels,
                         Prune(OppLevels, cursor.opp))]
  /\ phase' = "walk"
  /\ cursor' = Nil
  /\ UNCHANGED <<orders_map, book, taker, parked, trades>>

(* The walk is over: the parked levels are inserted again, over any level  *)
(* the side might have at their price, and an FOK order that is not filled *)
(* trips the safety net.                                                   *)
Finish ==
  /\ phase = "walk"
  /\ ~\E same, opp \in Prices : NextLevels(same, opp)
  /\ levels' = [levels EXCEPT ![book] =
                  BookOf(SameLevels, Overlaid(OppLevels, parked))]
  /\ parked' = NoLevels
  /\ phase' = IF taker.type = "FOK" /\ taker.rem > 0 THEN "panicked" ELSE "matched"
  /\ UNCHANGED <<orders_map, book, taker, cursor, trades>>

(* The walk of one call, which nothing interrupts.                         *)
Match == EnterLevel \/ SkipResting \/ PassTurn \/ ParkLevel \/ Fill \/ LeaveLevel \/ Finish

(* The caller takes None ("rejected") or Some(trades) ("matched").         *)
Return ==
  /\ phase \in {"rejected", "matched"}
  /\ phase' = "idle"
  /\ book' = Nil
  /\ taker' = Nil
  /\ trades' = << >>
  /\ UNCHANGED <<levels, orders_map, cursor, parked>>

(* cancel_order of an order the book knows.  (It answers None otherwise.)  *)
CancelOrder(pair, id) ==
  /\ phase = "idle"
  /\ id \in DOMAIN orders_map[pair]
  /\ LET o == orders_map[pair][id]
     IN  levels' = [levels EXCEPT ![pair][o.side] = Removed(@, o.price, id)]
  /\ orders_map' = [orders_map EXCEPT ![pair] = Forget(@, {id})]
  /\ UNCHANGED callVars

(* A side without the orders of `user' and the levels that leaves empty.   *)
WithoutUser(side_levels, user) ==
  LET Kept(p) == Without(side_levels[p], {o \in Range(side_levels[p]) : o.user = user})
  IN  [p \in {q \in DOMAIN side_levels : Kept(q) # << >>} |-> Kept(p)]

CancelOrdersForUser(pair, user) ==
  /\ phase = "idle"
  /\ levels' = [levels EXCEPT ![pair] =
                  [side \in Sides |-> WithoutUser(levels[pair][side], user)]]
  /\ orders_map' = [orders_map EXCEPT ![pair] =
                      Forget(@, {id \in DOMAIN @ : @[id].user = user})]
  /\ UNCHANGED callVars

NewOrder == [id: OrderIds, type: OrderTypes, side: Sides, price: Prices,
             rem: Quantities, user: Users]

Next ==
  \/ \E pair \in Pairs, o \in NewOrder : AddOrder(pair, o)
  \/ Match
  \/ Return
  \/ \E pair \in Pairs, id \in OrderIds : CancelOrder(pair, id)
  \/ \E pair \in Pairs, user \in Users : CancelOrdersForUser(pair, user)

Spec == Init /\ [][Next]_vars

-----------------------------------------------------------------------------
(* Properties                                                              *)

Cursor == [same: Prices, opp: Prices, same_len: Nat, opp_len: Nat,
           skipped: Nat, rotated: Nat]

(* Every variable has its type; a call is described exactly while there is *)
(* one, and a cursor points at levels that exist.                          *)
TypeOK ==
  /\ levels = [pair \in Pairs |-> [side \in Sides |-> levels[pair][side]]]
  /\ \A pair \in Pairs, side \in Sides : IsSide(levels[pair][side])
  /\ orders_map = [pair \in Pairs |-> orders_map[pair]]
  /\ \A pair \in Pairs : IsOrdersMap(orders_map[pair])
  /\ phase \in {"idle", "walk", "level", "matched", "rejected", "panicked"}
  /\ IF phase = "idle" THEN book = Nil /\ taker = Nil ELSE book \in Pairs /\ taker \in Order
  /\ IF phase = "level"
     THEN /\ cursor \in Cursor
          /\ cursor.opp \in DOMAIN OppLevels
          /\ Rests(taker) => cursor.same \in DOMAIN SameLevels
     ELSE cursor = Nil
  /\ IsSide(parked)
  /\ trades \in Seq(Trade)

(* The levels that hold the orders of a side, the parked ones included.    *)
AllLevels(pair, side) ==
  IF pair = book /\ side = Opposite(taker.side)
  THEN Overlaid(levels[pair][side], parked)
  ELSE levels[pair][side]

Queue(pair, side, p) == QueueAt(AllLevels(pair, side), p)

(* The flat map and the two sides tell the same story at every moment of   *)
(* every operation: an order in the map stands in the queue of its side    *)
(* and price, an order in a queue is in the map with that side, price and  *)
(* user, has something left to fill, and stands there once.  The code      *)
(* keeps the three maps in step by hand, in five places.                   *)
Located ==
  \A pair \in Pairs : \A id \in DOMAIN orders_map[pair] :
    LET o == orders_map[pair][id]
        queue == Queue(pair, o.side, o.price)
    IN  \E i \in DOMAIN queue : queue[i].id = id

Listed ==
  \A pair \in Pairs, side \in Sides, p \in Prices :
    LET queue == Queue(pair, side, p)
    IN  \A i \in DOMAIN queue :
          LET o == queue[i]
          IN  /\ o.id \in DOMAIN orders_map[pair]
              /\ o.side = side /\ o.price = p /\ Rests(o)
              /\ o.rem \in 1..orders_map[pair][o.id].rem
              /\ orders_map[pair][o.id] = [o EXCEPT !.rem = orders_map[pair][o.id].rem]

Single ==
  \A pair \in Pairs, side \in Sides, p \in Prices :
    LET queue == Queue(pair, side, p)
    IN  \A i, j \in DOMAIN queue : queue[i].id = queue[j].id => i = j

BookAgrees == Located /\ Listed /\ Single

(* Re-inserting the parked levels at the end of a call overwrites nothing: *)
(* no level has come into being at a parked price meanwhile.               *)
ParkedApart == phase \in {"walk", "level"} => DOMAIN parked \cap DOMAIN OppLevels = {}

(* Between two calls no level is empty, so the best price of a side is the *)
(* price of an order and the depth snapshot shows no level of quantity 0.  *)
NoEmptyLevel ==
  phase \notin {"walk", "level"} =>
    \A pair \in Pairs, side \in Sides :
      \A p \in DOMAIN levels[pair][side] : levels[pair][side][p] # << >>

(* The safety net of a fill-or-kill order never fires: what the read-only  *)
(* pre-check counts is what the walk takes, whatever the queues hold of    *)
(* the order's own user.                                                   *)
FokAllOrNothing == phase # "panicked"

(* A fill-and-kill order is discarded with a remainder only when everything*)
(* its limit reaches belongs to its own user.                              *)
FakTakesAllItCan ==
  phase = "matched" /\ ~Rests(taker) /\ taker.rem > 0 =>
    \A p \in DOMAIN OppLevels :
      Crosses(taker.side, taker.price, p) =>
        \A i \in DOMAIN OppLevels[p] : OppLevels[p][i].user = taker.user

Orders(pair, side) ==
  UNION {Range(levels[pair][side][p]) : p \in DOMAIN levels[pair][side]}

(* `user' has had orders on both sides of the book during this call.       *)
OnBothSides(user) ==
  /\ \/ \E o \in Orders(book, "Buy") : o.user = user
     \/ \E t \in Range(trades) : t.buyer = user
  /\ \/ \E o \in Orders(book, "Sell") : o.user = user
     \/ \E t \in Range(trades) : t.seller = user

(* Matching a resting order leaves the book crossed only on account of     *)
(* self-trade prevention: an order on the other side that still crosses the*)
(* incoming side belongs to a user who was on both sides of the book, so   *)
(* that some order of that user had to pass it by.                         *)
CrossedOnlyBySelf ==
  phase = "matched" /\ Rests(taker) =>
    \A o \in Orders(book, taker.side), other \in Orders(book, Opposite(taker.side)) :
      Crosses(taker.side, o.price, other.price) => OnBothSides(other.user)

(* An order that has come to rest does not cross the order of another user:*)
(* matching goes on until nothing matches.                                 *)
NoStrangersCross ==
  phase = "matched" /\ Rests(taker) =>
    \A o \in Orders(book, taker.side), other \in Orders(book, Opposite(taker.side)) :
      o.id = taker.id /\ Crosses(taker.side, taker.price, other.price) =>
        other.user = taker.user

(* The oldest order of a level matches first: where ids grow with time, a  *)
(* fill takes the order with the smallest id of those the incoming order's *)
(* user may trade with.                                                    *)
OldestMatchesFirst ==
  [][Len(trades') = Len(trades) + 1 =>
       \A i \in DOMAIN OppQueue :
         OppQueue[i].user # Head(SameQueue).user => Head(OppQueue).id <= OppQueue[i].id]_vars

(* The open orders of a pair: those in the book, and the incoming one that *)
(* never enters it for as long as it is being matched.                     *)
OpenOrders(pair) ==
  (UNION {Range(Queue(pair, side, p)) : side \in Sides, p \in Prices})
  \cup {o \in {taker} : pair = book /\ phase \in {"walk", "level"} /\ ~Rests(o) /\ o.rem > 0}

(* The order book implements the abstract matching engine: whatever it     *)
(* does is an order coming in, a trade acceptable to two different users,  *)
(* an order going away as it may, or nothing that open orders could tell.  *)
Abstract == INSTANCE OpenOrders WITH open <- [pair \in Pairs |-> OpenOrders(pair)]
ImplementsOpenOrders == Abstract!Spec

(* What is still before a call, what weighs most first: the levels it may  *)
(* come to, the stage of the walk, the orders of the two levels that are   *)
(* being matched, and the turns and skips their counters allow.            *)
Stage ==
  CASE phase = "walk" -> IF \E same, opp \in Prices : NextLevels(same, opp) THEN 3 ELSE 1
    [] phase = "level" -> 2
    [] OTHER -> 0

LevelsAhead ==
  IF phase \in {"walk", "level"}
  THEN Cardinality(DOMAIN OppLevels) + (IF Rests(taker) THEN Cardinality(DOMAIN SameLevels) ELSE 0)
  ELSE 0

ToGo ==
  IF phase = "level"
  THEN <<LevelsAhead, Stage, Len(SameQueue) + Len(OppQueue),
         cursor.same_len - cursor.rotated, cursor.opp_len - cursor.skipped>>
  ELSE <<LevelsAhead, Stage, 0, 0, 0>>

(* The lexicographic order of such tuples of naturals: well-founded.       *)
Nearer(a, b) ==
  \E i \in 1..5 : a[i] \in 0..(b[i] - 1) /\ \A j \in 1..(i - 1) : a[j] = b[j]

(* Every add_order call returns: each of its steps brings it nearer to its *)
(* end, in an order in which one cannot come nearer for ever.  Rotating    *)
(* around self-trades does not start over, although skips and turns are    *)
(* counted against lengths that fills have made stale, and levels come and *)
(* go under the walk.                                                      *)
CallReturns == [][phase # "idle" => phase' = "idle" \/ Nearer(ToGo', ToGo)]_vars
=============================================================================
