------------------------------ MODULE EngineProofs ------------------------------
(***************************************************************************)
(* The core engine, for all values of the constants: what is locked of a   *)
(* user's balance never exceeds it, every open order is covered by its own *)
(* lock, settlement can fail only where a credited balance overflows, and a*)
(* modification that is admitted never loses the order.                    *)
(*                                                                         *)
(* The inductive invariant, EngineInv, joins that of the books (BookInv,   *)
(* WalkInv), of the accounts (AccountsInv: the locks fit in the balances,  *)
(* users and pairs are registered, the trades of the call in progress) and *)
(* a ledger.  The ledger says of every order id whose it is, on which side *)
(* of which book, and that the lock of an open order covers what the order *)
(* may still trade plus what its trades that are not settled yet will take,*)
(* exactly so for a sell order.  The trades of one call are settled only   *)
(* when its walk is over, so the second part is a sum over all of them.    *)
(***************************************************************************)
EXTENDS CoreEngine, WalkProofs

-----------------------------------------------------------------------------
(* Locks                                                                   *)

(* The locks of a user: finitely many, each of its type.                   *)
Held(held) == IsLocks(held) /\ IsFiniteSet(DOMAIN held)

(* The locks of an asset among them, and what a lock adds to an asset.     *)
InAsset(held, asset) == {id \in DOMAIN held : held[id].asset = asset}
AmountIn(lock, asset) == IF lock.asset = asset THEN lock.amount ELSE 0

(* What is locked is a natural, if finitely many locks are.                *)
LEMMA LockedIsNatural ==
  ASSUME NEW held, Held(held), NEW asset
  PROVE  /\ LockedOf(held, asset) \in Nat
         /\ \A id \in DOMAIN held :
              /\ held[id].amount \in Nat /\ held[id].asset \in Assets /\ id \in OrderIds
              /\ AmountIn(held[id], asset) \in Nat
         /\ held = [id \in DOMAIN held |-> held[id]]
<1>1. /\ held \in [DOMAIN held -> Lock] /\ DOMAIN held \subseteq OrderIds
      /\ IsFiniteSet(InAsset(held, asset))
  BY FS_Subset DEF Held, IsLocks, InAsset
<1>2. \A id \in DOMAIN held :
        /\ held[id].amount \in Nat /\ held[id].asset \in Assets /\ id \in OrderIds
        /\ AmountIn(held[id], asset) \in Nat
  BY <1>1 DEF Lock, AmountIn
<1>. DEFINE f == [id \in DOMAIN held |-> held[id].amount]
<1>3. \A id \in InAsset(held, asset) : f[id] \in Nat
  BY <1>2 DEF InAsset
<1>4. LockedOf(held, asset) = SumFunctionOnSet(f, InAsset(held, asset))
  BY DEF LockedOf, InAsset
<1>. HIDE DEF f
<1>5. LockedOf(held, asset) \in Nat
  BY <1>1, <1>3, <1>4, SumOfNaturals
<1>. QED
  BY <1>1, <1>2, <1>5

(* Nothing is locked where there are no locks.                             *)
LEMMA NothingLocked ==
  ASSUME NEW held, DOMAIN held = {}, NEW asset
  PROVE  LockedOf(held, asset) = 0
<1>1. {id \in DOMAIN held : held[id].asset = asset} = {}
  OBVIOUS
<1>. QED
  BY <1>1, SumOverNone DEF LockedOf

(* Releasing locks leaves locks, and no more of an asset than there was.   *)
LEMMA UnlockedLocks ==
  ASSUME NEW held, Held(held), NEW ids, NEW asset
  PROVE  /\ Held(Unlocked(held, ids))
         /\ LockedOf(Unlocked(held, ids), asset) <= LockedOf(held, asset)
<1>. DEFINE rest == Unlocked(held, ids)
            f == [id \in DOMAIN held |-> held[id].amount]
            g == [id \in DOMAIN rest |-> rest[id].amount]
            S == InAsset(rest, asset)
            T == InAsset(held, asset)
<1>1. /\ DOMAIN rest = DOMAIN held \ ids /\ \A id \in DOMAIN rest : rest[id] = held[id]
      /\ rest \in [DOMAIN rest -> Lock] /\ DOMAIN rest \subseteq OrderIds
  BY DEF Unlocked, Held, IsLocks
<1>2. Held(rest)
  BY <1>1, FS_Subset DEF Held, IsLocks
<1>3. S \in SUBSET T /\ IsFiniteSet(T) /\ \A id \in S : g[id] = f[id]
  BY <1>1, FS_Subset DEF Held, InAsset
<1>4. \A id \in T : f[id] \in Nat
  BY LockedIsNatural DEF InAsset
<1>5. LockedOf(held, asset) = SumFunctionOnSet(f, T) /\ LockedOf(rest, asset) = SumFunctionOnSet(g, S)
  BY DEF LockedOf, InAsset
<1>. HIDE DEF S, T, f, g, rest
<1>6. SumFunctionOnSet(g, S) = SumFunctionOnSet(f, S)
  BY <1>3, SumIsOfTheSame, FS_Subset
<1>7. SumFunctionOnSet(f, S) <= SumFunctionOnSet(f, T)
  BY <1>3, <1>4, SumOfPart
<1>. QED
  BY <1>2, <1>5, <1>6, <1>7 DEF rest

(* One more lock adds its amount to its asset.                             *)
LEMMA WithLockLocks ==
  ASSUME NEW held, Held(held), NEW id \in OrderIds, id \notin DOMAIN held,
         NEW lock \in Lock, NEW asset
  PROVE  /\ Held(WithLock(held, id, lock))
         /\ LockedOf(WithLock(held, id, lock), asset)
              = LockedOf(held, asset) + AmountIn(lock, asset)
<1>. DEFINE more == WithLock(held, id, lock)
            f == [i \in DOMAIN held |-> held[i].amount]
            g == [i \in DOMAIN more |-> more[i].amount]
            S == InAsset(held, asset)
            T == InAsset(more, asset)
<1>1. /\ DOMAIN more = DOMAIN held \cup {id} /\ more[id] = lock
      /\ \A i \in DOMAIN held : more[i] = held[i]
      /\ more \in [DOMAIN more -> Lock] /\ DOMAIN more \subseteq OrderIds
  BY DEF WithLock, Held, IsLocks
<1>2. Held(more)
  BY <1>1, FS_AddElement DEF Held, IsLocks
<1>3. IsFiniteSet(S) /\ id \notin S /\ (\A i \in S : f[i] = g[i])
      /\ T = IF lock.asset = asset THEN S \cup {id} ELSE S
  BY <1>1, FS_Subset DEF Held, InAsset
<1>4. (\A i \in S : f[i] \in Nat) /\ (\A i \in T : g[i] \in Nat)
  BY <1>2, LockedIsNatural DEF InAsset
<1>5. LockedOf(held, asset) = SumFunctionOnSet(f, S) /\ LockedOf(more, asset) = SumFunctionOnSet(g, T)
  BY DEF LockedOf, InAsset
<1>6. LockedOf(held, asset) \in Nat /\ (lock.asset = asset => g[id] = AmountIn(lock, asset))
  BY <1>1, LockedIsNatural DEF AmountIn
<1>. HIDE DEF S, T, f, g, more
<1>7. SumFunctionOnSet(g, S) = SumFunctionOnSet(f, S)
  BY <1>3, SumIsOfTheSame
<1>8. CASE lock.asset = asset
  <2>1. T = S \cup {id} /\ \A i \in S \cup {id} : g[i] \in Int
    BY <1>3, <1>4, <1>8
  <2>2. SumFunctionOnSet(g, S \cup {id}) = g[id] + SumFunctionOnSet(g, S)
    BY <1>3, <2>1, SumInserted
  <2>3. LockedOf(more, asset) = AmountIn(lock, asset) + LockedOf(held, asset)
    BY <1>5, <1>6, <1>7, <1>8, <2>1, <2>2
  <2>4. AmountIn(lock, asset) \in Nat
    BY DEF Lock, AmountIn
  <2>. QED
    BY <1>2, <1>6, <2>3, <2>4 DEF more
<1>9. CASE lock.asset # asset
  <2>1. AmountIn(lock, asset) = 0 /\ T = S
    BY <1>3, <1>9 DEF AmountIn
  <2>2. LockedOf(more, asset) = LockedOf(held, asset)
    BY <1>5, <1>7, <2>1
  <2>. QED
    BY <1>2, <1>6, <2>1, <2>2 DEF more
<1>. QED
  BY <1>8, <1>9

(* A lock that replaces another, and the locks without it.                 *)
LEMMA Relocked ==
  ASSUME NEW held, NEW id, NEW lock
  PROVE  WithLock(held, id, lock) = WithLock(Unlocked(held, {id}), id, lock)
BY DEF WithLock, Unlocked

(* A lock apart from the rest.                                             *)
LEMMA LockedApart ==
  ASSUME NEW held, Held(held), NEW id \in DOMAIN held, NEW asset
  PROVE  LockedOf(held, asset)
           = LockedOf(Unlocked(held, {id}), asset) + AmountIn(held[id], asset)
<1>. DEFINE rest == Unlocked(held, {id})
<1>1. Held(rest) /\ id \notin DOMAIN rest /\ id \in OrderIds /\ held[id] \in Lock
  BY UnlockedLocks DEF Held, IsLocks, Unlocked
<1>2. held = WithLock(rest, id, held[id])
  BY LockedIsNatural DEF WithLock, Unlocked
<1>. HIDE DEF rest
<1>3. LockedOf(WithLock(rest, id, held[id]), asset)
        = LockedOf(rest, asset) + AmountIn(held[id], asset)
  BY <1>1, WithLockLocks
<1>. QED
  BY <1>2, <1>3 DEF rest

(* A debit leaves locks, and no more of an asset than there was; it leaves *)
(* the other locks alone, and the lock it takes from unless that is spent. *)
LEMMA AfterDebitLocks ==
  ASSUME NEW held, Held(held), NEW id \in DOMAIN held,
         NEW debit \in Nat, debit <= held[id].amount
  PROVE  /\ Held(AfterDebit(held, id, debit))
         /\ \A asset : LockedOf(AfterDebit(held, id, debit), asset) <= LockedOf(held, asset)
         /\ DOMAIN AfterDebit(held, id, debit)
              = IF held[id].amount = debit THEN DOMAIN held \ {id} ELSE DOMAIN held
         /\ \A i \in DOMAIN AfterDebit(held, id, debit) :
              /\ AfterDebit(held, id, debit)[i].asset = held[i].asset
              /\ AfterDebit(held, id, debit)[i].amount
                   = IF i = id THEN held[i].amount - debit ELSE held[i].amount
<1>. DEFINE rest == Unlocked(held, {id})
            lock == [held[id] EXCEPT !.amount = @ - debit]
<1>1. /\ id \in OrderIds /\ held[id] \in Lock /\ held[id].amount \in Nat
      /\ held = [i \in DOMAIN held |-> held[i]]
      /\ held \in [DOMAIN held -> Lock]
  BY LockedIsNatural DEF Held, IsLocks
<1>2. CASE held[id].amount = debit
  <2>1. AfterDebit(held, id, debit) = rest
    BY <1>2 DEF AfterDebit
  <2>2. DOMAIN rest = DOMAIN held \ {id} /\ \A i \in DOMAIN rest : i # id /\ rest[i] = held[i]
    BY DEF Unlocked
  <2>3. Held(rest) /\ \A asset : LockedOf(rest, asset) <= LockedOf(held, asset)
    BY UnlockedLocks
  <2>. HIDE DEF rest
  <2>. QED
    BY <1>2, <2>1, <2>2, <2>3
<1>3. CASE held[id].amount # debit
  <2>1. /\ lock \in Lock /\ lock.asset = held[id].asset /\ lock.amount = held[id].amount - debit
        /\ lock.amount \in Nat
    BY <1>1 DEF Lock
  <2>2. AfterDebit(held, id, debit) = [held EXCEPT ![id] = lock]
    BY <1>1, <1>3 DEF AfterDebit, Lock
  <2>3. [held EXCEPT ![id] = lock] = WithLock(rest, id, lock)
    BY <1>1 DEF WithLock, Unlocked
  <2>4. Held(rest) /\ id \notin DOMAIN rest
    BY UnlockedLocks DEF Unlocked
  <2>. HIDE DEF rest, lock
  <2>5. Held(WithLock(rest, id, lock))
    BY <1>1, <2>1, <2>4, WithLockLocks
  <2>6. ASSUME NEW asset
        PROVE  LockedOf(WithLock(rest, id, lock), asset) <= LockedOf(held, asset)
    <3>1. LockedOf(WithLock(rest, id, lock), asset) = LockedOf(rest, asset) + AmountIn(lock, asset)
      BY <1>1, <2>1, <2>4, WithLockLocks
    <3>2. LockedOf(held, asset) = LockedOf(rest, asset) + AmountIn(held[id], asset)
      BY LockedApart DEF rest
    <3>3. LockedOf(rest, asset) \in Nat /\ AmountIn(held[id], asset) \in Nat
      BY <2>4, LockedIsNatural
    <3>4. AmountIn(lock, asset) \in Nat /\ AmountIn(lock, asset) <= AmountIn(held[id], asset)
      BY <1>1, <2>1 DEF AmountIn
    <3>. QED
      BY <3>1, <3>2, <3>3, <3>4
  <2>7. /\ DOMAIN AfterDebit(held, id, debit) = DOMAIN held
        /\ \A i \in DOMAIN held : AfterDebit(held, id, debit)[i] = IF i = id THEN lock ELSE held[i]
    BY <1>1, <2>2
  <2>. QED
    BY <1>3, <2>1, <2>2, <2>3, <2>5, <2>6, <2>7
<1>. QED
  BY <1>2, <1>3

-----------------------------------------------------------------------------
(* The books                                                               *)

(* The two sides of a book once an order has left it, or joined it, and    *)
(* what modify_order makes of an order.                                    *)
Leaving(sides, o, id) == [sides EXCEPT ![o.side] = Removed(@, o.price, id)]
Joining(sides, o) == [sides EXCEPT ![o.side] = Inserted(@, o)]
Amended(o, price, qty) == [o EXCEPT !.price = price, !.rem = qty]

(* The queues of the two sides are thinned out by some ids.                *)
Thinned(new, old, ids) ==
  \A side \in Sides, p \in Prices : Thins(DepthOf(new)[side][p], DepthOf(old)[side][p], ids)

(* An order that comes back under its id after it has been taken out of    *)
(* the queues.                                                             *)
LEMMA ReplacedInBook ==
  ASSUME NEW map \in OrdersMap, NEW sides \in [Sides -> BookSide],
         Agree(map, DepthOf(sides)), NEW id, NEW mid \in [Sides -> BookSide],
         NEW gone, \A x : x \in gone <=> x = id,
         Thinned(mid, sides, gone),
         NEW new \in Order, new.id = id, Rests(new), new.rem # 0
  PROVE  /\ Joining(mid, new) \in [Sides -> BookSide]
         /\ Agree(Remember(map, new), DepthOf(Joining(mid, new)))
         /\ \A o : o \in OrdersIn(DepthOf(Joining(mid, new))) <=>
                   \/ o = new
                   \/ o \in OrdersIn(DepthOf(sides)) /\ o.id # id
<1>. DEFINE q == DepthOf(sides)
            r == DepthOf(mid)
            fewer == Forget(map, gone)
            more == [r EXCEPT ![new.side][new.price] = Append(@, new)]
<1>1. q \in Depth /\ r \in Depth /\ Agree(map, q)
  BY DepthOfType
<1>2. Joining(mid, new) \in [Sides -> BookSide] /\ DepthOf(Joining(mid, new)) = more
  BY InsertedDepth DEF Joining
<1>3. \A side \in Sides, p \in Prices : Thins(r[side][p], q[side][p], gone)
  BY DEF Thinned
<1>4. fewer \in OrdersMap
  BY OrdersMapOps
<1>5. new.id \notin DOMAIN fewer /\ \A i \in DOMAIN fewer : i \in DOMAIN map /\ fewer[i] = map[i]
  BY DEF Forget
<1>6. Remember(fewer, new) = Remember(map, new)
  <2>1. DOMAIN fewer \cup {new.id} = DOMAIN map \cup {new.id}
    BY DEF Forget
  <2>2. \A i \in DOMAIN map \cup {new.id} :
          (IF i = new.id THEN new ELSE fewer[i]) = (IF i = new.id THEN new ELSE map[i])
    BY <1>5, <2>1
  <2>. HIDE DEF fewer
  <2>. QED
    BY <2>1, <2>2 DEF Remember
<1>. HIDE DEF q, r
<1>7. Agree(fewer, r)
  BY <1>1, <1>3, ThinningAgrees
<1>8. OrdersIn(r) = {o \in OrdersIn(q) : o.id \notin gone}
  BY <1>1, <1>3, ThinningOrders
<1>. HIDE DEF fewer
<1>9. Agree(Remember(fewer, new), more)
  BY <1>1, <1>4, <1>5, <1>7, EnqueueAgrees
<1>10. OrdersIn(more) = OrdersIn(r) \cup {new}
  BY <1>1, EnqueuedOrders
<1>11. OrdersIn(r) = {o \in OrdersIn(q) : o.id # id}
  BY <1>8
<1>. HIDE DEF more
<1>. QED
  BY <1>2, <1>6, <1>9, <1>10, <1>11 DEF q

(* An order changed in the book leaves its queue and joins the end of the  *)
(* one at its new price; the map and the queues still agree.               *)
LEMMA ModifiedBook ==
  ASSUME NEW map \in OrdersMap, NEW sides \in [Sides -> BookSide],
         Agree(map, DepthOf(sides)), NEW id \in DOMAIN map,
         NEW price \in Prices, NEW qty \in Quantities,
         NEW new, new = Amended(map[id], price, qty),
         NEW mid, mid = Leaving(sides, map[id], id)
  PROVE  /\ map[id] \in Order /\ map[id].id = id /\ Rests(map[id])
         /\ new \in Order /\ new.id = id /\ Rests(new) /\ new.side = map[id].side
         /\ new.user = map[id].user /\ new.price = price /\ new.rem = qty
         /\ new.type = map[id].type
         /\ Joining(mid, new) \in [Sides -> BookSide]
         /\ Agree(Remember(map, new), DepthOf(Joining(mid, new)))
         /\ \A o : o \in OrdersIn(DepthOf(Joining(mid, new))) <=>
                   \/ o = new
                   \/ o \in OrdersIn(DepthOf(sides)) /\ o.id # id
<1>. DEFINE old == map[id]
            gone == {id}
<1>1. old \in Order /\ mid \in [Sides -> BookSide] /\ Thinned(mid, sides, gone)
  BY RemovedThins DEF Leaving, Thinned
<1>2. \A x : x \in gone <=> x = id
  OBVIOUS
<1>. HIDE DEF gone
<1>3. old.id = id /\ Rests(old)
  <2>. DEFINE queue == DepthOf(sides)[old.side][old.price]
  <2>1. PICK i \in DOMAIN queue : queue[i].id = id
    BY DEF Agree, Standing
  <2>. DEFINE o == queue[i]
  <2>2. old.side \in Sides /\ old.price \in Prices
    BY <1>1 DEF Order
  <2>3. Known(map, old.side, old.price, o)
    BY <2>1, <2>2 DEF Agree, AllKnown
  <2>4. o.id = id
    BY <2>1
  <2>5. o \in Order
    <3>1. queue \in Seq(Order)
      BY <2>2, DepthOfType DEF Depth
    <3>. HIDE DEF queue
    <3>. QED
      BY <2>1, <3>1, ElementOfSeq, LenProperties
  <2>. HIDE DEF o
  <2>6. Rests(o) /\ map[id] = [o EXCEPT !.rem = map[id].rem]
    BY <2>3, <2>4 DEF Known
  <2>. QED
    BY <2>4, <2>5, <2>6 DEF Order, Rests
<1>. HIDE DEF old
<1>4. /\ new \in Order /\ new.id = id /\ Rests(new) /\ new.side = old.side /\ new.type = old.type
      /\ new.user = old.user /\ new.price = price /\ new.rem = qty /\ new.rem # 0
  <2>1. new = Amended(old, price, qty)
    BY DEF old
  <2>. QED
    BY <1>1, <1>3, <2>1, QuantitiesAssumption DEF Order, Rests, Amended
<1>5. /\ Joining(mid, new) \in [Sides -> BookSide]
      /\ Agree(Remember(map, new), DepthOf(Joining(mid, new)))
      /\ \A o : o \in OrdersIn(DepthOf(Joining(mid, new))) <=>
                \/ o = new
                \/ o \in OrdersIn(DepthOf(sides)) /\ o.id # id
  BY <1>1, <1>2, <1>4, ReplacedInBook
<1>. QED
  BY <1>1, <1>3, <1>4, <1>5 DEF old

(* Every book is in order: its map and its queues agree, and none of its   *)
(* levels is empty.                                                        *)
BooksInOrder ==
  \A b \in Pairs : /\ Agree(orders_map[b], DepthOf(levels[b]))
                   /\ \A side \in Sides : Finite(levels[b][side]) /\ Full(levels[b][side])

(* Between two calls the books are, and they hold the open orders.         *)
LEMMA IdleBooks ==
  ASSUME BookInv, WalkInv, phase = "idle"
  PROVE  /\ BooksInOrder /\ parked = NoLevels
         /\ levels \in Books /\ orders_map \in [Pairs -> OrdersMap]
         /\ \A b \in Pairs : /\ levels[b] \in [Sides -> BookSide]
                             /\ orders_map[b] \in OrdersMap
                             /\ OpenOrders(b) = OrdersIn(DepthOf(levels[b]))
<1>1. /\ parked = NoLevels /\ levels \in Books /\ orders_map \in [Pairs -> OrdersMap] /\ Typed
      /\ \A b \in Pairs, side \in Sides : Finite(levels[b][side]) /\ Full(levels[b][side])
  BY IdleShapes DEF BookInv, Typed
<1>2. \A b \in Pairs : Depths(b) = DepthOf(levels[b])
  BY <1>1, UnparkedDepths
<1>3. \A b \in Pairs : OpenOrders(b) = OrdersIn(Depths(b)) \cup Incoming(b) /\ Incoming(b) = {}
  BY <1>1, OpenIs DEF Incoming
<1>4. BooksInOrder
  BY <1>1, <1>2 DEF BooksInOrder, BookInv, Consistent
<1>. QED
  BY <1>1, <1>2, <1>3, <1>4 DEF Books

(* A step that starts between two calls and leaves every book in order.    *)
LEMMA BooksReplaced ==
  ASSUME BookInv, WalkInv, phase = "idle", UNCHANGED <<parked, cursor, trades>>,
         \/ UNCHANGED <<phase, book, taker>>
         \/ phase' = "walk" /\ book' \in Pairs /\ taker' \in Order /\ Rests(taker'),
         levels' \in Books, orders_map' \in [Pairs -> OrdersMap], BooksInOrder'
  PROVE  /\ BookInv' /\ WalkInv'
         /\ \A b \in Pairs : OpenOrders(b)' = OrdersIn(DepthOf(levels'[b]))
<1>1. Typed /\ parked = NoLevels /\ parked' = NoLevels /\ cursor = Nil /\ phase' \in {"idle", "walk"}
  BY IdleBooks DEF BookInv, Typed, CursorOK
<1>2. Typed'
  BY <1>1 DEF Typed, CallOK, CursorOK, Phases
<1>3. phase' = "walk" => Rests(taker)'
  BY DEF Rests
<1>4. WalkOK'
  BY <1>1, <1>3 DEF WalkOK, ParkedApart, NoLevels
<1>5. \A b \in Pairs : Depths(b)' = DepthOf(levels'[b])
  BY <1>1, UnparkedDepthsNext
<1>6. Consistent'
  BY <1>5 DEF Consistent, BooksInOrder
<1>7. LevelsOK'
  BY <1>1, QuietLevels DEF BooksInOrder
<1>8. WalkInv'
  BY <1>1, <1>3, <1>7 DEF WalkInv, CrossOK, LoneOK, FakTakesAllItCan
<1>9. \A b \in Pairs : Incoming(b)' = {}
  BY <1>1, <1>3 DEF Incoming, Rests
<1>10. \A b \in Pairs : OpenOrders(b)' = OrdersIn(DepthOf(levels'[b]))
  BY <1>2, <1>5, <1>9, OpenIsNext
<1>. QED
  BY <1>2, <1>4, <1>6, <1>8, <1>10 DEF BookInv

(* Nothing happens to the books.                                           *)
LEMMA BooksAlone ==
  ASSUME BookInv, WalkInv, UNCHANGED vars
  PROVE  BookInv' /\ WalkInv' /\ \A b \in Pairs : OpenOrders(b)' = OpenOrders(b)
<1>1. BookInv' /\ WalkInv'
  BY NextBookInv, NextWalk
<1>2. \A b \in Pairs : OpenOrders(b)' = OpenOrders(b)
  BY DEF vars, OpenOrders, Queue, AllLevels
<1>. QED
  BY <1>1, <1>2

(* Removing a user takes that user's orders out of every book.             *)
LEMMA RemoveUserBooks ==
  ASSUME BookInv, WalkInv, NEW user \in Users, RemoveUser(user)
  PROVE  /\ BookInv' /\ WalkInv'
         /\ \A b \in Pairs : OpenOrders(b)' = {o \in OpenOrders(b) : o.user # user}
<1>1. /\ phase = "idle" /\ UNCHANGED <<parked, cursor, trades, phase, book, taker>>
      /\ \A b \in Pairs :
           /\ levels'[b] = [side \in Sides |-> WithoutUser(levels[b][side], user)]
           /\ orders_map'[b] = Forget(orders_map[b], IdsOf(orders_map[b], user))
      /\ levels' = [b \in Pairs |-> levels'[b]] /\ orders_map' = [b \in Pairs |-> orders_map'[b]]
  BY DEF RemoveUser, callVars, IdsOf
<1>2. /\ BooksInOrder
      /\ \A b \in Pairs : /\ levels[b] \in [Sides -> BookSide] /\ orders_map[b] \in OrdersMap
                          /\ OpenOrders(b) = OrdersIn(DepthOf(levels[b]))
  BY <1>1, IdleBooks
<1>3. ASSUME NEW b \in Pairs
      PROVE  /\ levels'[b] \in [Sides -> BookSide] /\ orders_map'[b] \in OrdersMap
             /\ \A side \in Sides : Finite(levels'[b][side]) /\ Full(levels'[b][side])
             /\ Agree(orders_map'[b], DepthOf(levels'[b]))
             /\ OrdersIn(DepthOf(levels'[b])) = {o \in OpenOrders(b) : o.user # user}
  <2>. DEFINE ids == IdsOf(orders_map[b], user)
  <2>1. \A side \in Sides : /\ IsSide(levels[b][side]) /\ Finite(levels[b][side])
                            /\ Full(levels[b][side])
    BY <1>2, BookSideIsSide DEF BooksInOrder
  <2>2. \A side \in Sides : levels'[b][side] = WithoutUser(levels[b][side], user)
    BY <1>1
  <2>3. \A side \in Sides : /\ levels'[b][side] \in BookSide
                            /\ Finite(levels'[b][side]) /\ Full(levels'[b][side])
    BY <2>1, <2>2, WithoutUserIsSide, BookSideIsSide, CallShapes
  <2>4. levels'[b] \in [Sides -> BookSide] /\ orders_map'[b] \in OrdersMap
    BY <1>1, <1>2, <2>3, OrdersMapOps
  <2>5. Agree(orders_map[b], DepthOf(levels[b]))
    BY <1>2 DEF BooksInOrder
  <2>6. Thinned(levels'[b], levels[b], ids)
    BY <1>1, <1>2, <2>5, WithoutUserThins DEF Thinned
  <2>7. \A o \in OpenOrders(b) : o.id \in ids <=> o.user = user
    <3>1. \A o \in OpenOrders(b) : /\ o.id \in DOMAIN orders_map[b]
                                   /\ orders_map[b][o.id].user = o.user
      <4>1. OpenOrders(b) = OrdersIn(Depths(b))
        BY <1>1, <1>2, IdleBooks, UnparkedDepths
      <4>. QED
        BY <4>1, QueuedOrder
    <3>. QED
      BY <3>1 DEF IdsOf
  <2>. HIDE DEF ids
  <2>8. DepthOf(levels'[b]) \in Depth /\ DepthOf(levels[b]) \in Depth
    BY <1>2, <2>4, DepthOfType
  <2>9. Agree(Forget(orders_map[b], ids), DepthOf(levels'[b]))
    BY <1>2, <2>5, <2>6, <2>8, ThinningAgrees DEF Thinned
  <2>10. OrdersIn(DepthOf(levels'[b])) = {o \in OrdersIn(DepthOf(levels[b])) : o.id \notin ids}
    BY <2>6, <2>8, ThinningOrders DEF Thinned
  <2>11. OrdersIn(DepthOf(levels'[b])) = {o \in OpenOrders(b) : o.user # user}
    BY <1>2, <2>7, <2>10
  <2>. QED
    BY <1>1, <2>3, <2>4, <2>9, <2>11 DEF ids
<1>4. levels' \in Books /\ orders_map' \in [Pairs -> OrdersMap] /\ BooksInOrder'
  BY <1>1, <1>3 DEF Books, BooksInOrder
<1>. QED
  BY <1>1, <1>3, <1>4, BooksReplaced

(* Removing a pair takes every order out of its book.                      *)
LEMMA RemoveTradingPairBooks ==
  ASSUME BookInv, WalkInv, NEW pair \in Pairs, RemoveTradingPair(pair)
  PROVE  /\ BookInv' /\ WalkInv'
         /\ \A b \in Pairs : OpenOrders(b)' = IF b = pair THEN {} ELSE OpenOrders(b)
<1>. DEFINE none == [side \in Sides |-> NoLevels]
            nothing == [id \in {} |-> Nil]
<1>1. /\ phase = "idle" /\ UNCHANGED <<parked, cursor, trades, phase, book, taker>>
      /\ levels' = [levels EXCEPT ![pair] = none]
      /\ orders_map' = [orders_map EXCEPT ![pair] = nothing]
  BY DEF RemoveTradingPair, callVars
<1>2. /\ BooksInOrder /\ levels \in Books /\ orders_map \in [Pairs -> OrdersMap]
      /\ \A b \in Pairs : /\ levels[b] \in [Sides -> BookSide] /\ orders_map[b] \in OrdersMap
                          /\ OpenOrders(b) = OrdersIn(DepthOf(levels[b]))
  BY <1>1, IdleBooks
<1>3. /\ none \in [Sides -> BookSide] /\ nothing \in OrdersMap
      /\ \A side \in Sides : Finite(none[side]) /\ Full(none[side])
  <2>1. NoLevels \in BookSide
    BY BookSideIsSide DEF NoLevels, IsSide
  <2>. QED
    BY <2>1, NoLevelsShape DEF OrdersMap
<1>4. OrdersIn(DepthOf(none)) = {} /\ Agree(nothing, DepthOf(none))
  <2>1. \A side \in Sides, p \in Prices : DepthOf(none)[side][p] = << >>
    BY DEF DepthOf, QueueAt, NoLevels
  <2>2. \A side \in Sides, p \in Prices : Range(DepthOf(none)[side][p]) = {}
    BY <2>1 DEF Range
  <2>3. \A o : o \notin OrdersIn(DepthOf(none))
    BY <2>2, InSomeQueue
  <2>4. \A side \in Sides, p \in Prices : DOMAIN DepthOf(none)[side][p] = {}
    BY <2>1
  <2>5. Agree(nothing, DepthOf(none))
    BY <2>4 DEF Agree, Standing, AllKnown, AllDistinct, Distinct
  <2>. HIDE DEF none
  <2>. QED
    BY <2>3, <2>5
<1>. HIDE DEF none, nothing
<1>5. \A b \in Pairs : /\ levels'[b] = IF b = pair THEN none ELSE levels[b]
                       /\ orders_map'[b] = IF b = pair THEN nothing ELSE orders_map[b]
  BY <1>1, <1>2 DEF Books
<1>6. levels' \in Books /\ orders_map' \in [Pairs -> OrdersMap]
  BY <1>1, <1>2, <1>3 DEF Books
<1>7. BooksInOrder'
  BY <1>2, <1>3, <1>4, <1>5 DEF BooksInOrder
<1>8. \A b \in Pairs : OpenOrders(b)' = OrdersIn(DepthOf(levels'[b]))
  BY <1>1, <1>6, <1>7, BooksReplaced
<1>9. BookInv' /\ WalkInv'
  BY <1>1, <1>6, <1>7, BooksReplaced
<1>. QED
  BY <1>2, <1>4, <1>5, <1>8, <1>9

(* Cancelling an order takes it out of its book.                           *)
LEMMA CancelBooks ==
  ASSUME BookInv, WalkInv, NEW pair \in Pairs, NEW id \in OrderIds, CancelOrder(pair, id)
  PROVE  /\ BookInv' /\ WalkInv'
         /\ \A b \in Pairs :
              OpenOrders(b)' = {o \in OpenOrders(b) : b = pair => o.id # id}
<1>1. BookInv' /\ WalkInv' /\ Typed'
  BY NextBookInv, NextWalk DEF Next, BookInv
<1>. DEFINE ids == [b \in Pairs |-> IF b = pair THEN {id} ELSE {}]
<1>2. ThinsBy(ids) /\ phase = "idle" /\ phase' = "idle"
  BY <1>1, CancelOrderThins DEF CancelOrder, callVars
<1>3. \A b \in Pairs : \A x : x \notin ids[b] <=> (b = pair => x # id)
  OBVIOUS
<1>. HIDE DEF ids
<1>4. \A b \in Pairs : OpenOrders(b)' = {o \in OpenOrders(b) : o.id \notin ids[b]}
  BY <1>1, <1>2, ThinningLeaves
<1>5. \A b \in Pairs : OpenOrders(b)' = {o \in OpenOrders(b) : b = pair => o.id # id}
  BY <1>3, <1>4
<1>. QED
  BY <1>1, <1>5

(* modify_order of an order of the book: the new one takes its place, or   *)
(* it is gone.                                                             *)
LEMMA ModifyBooks ==
  ASSUME BookInv, WalkInv, NEW pair \in Pairs, NEW id \in OrderIds,
         NEW price \in Prices, NEW qty \in Quantities, ModifyOrder(pair, id, price, qty),
         NEW old, old = orders_map[pair][id], NEW new, new = Amended(old, price, qty)
  PROVE  /\ BookInv' /\ WalkInv'
         /\ old \in Order /\ old.id = id /\ Rests(old)
         /\ new \in Order /\ new.id = id /\ Rests(new) /\ new.side = old.side
         /\ new.user = old.user /\ new.price = price /\ new.rem = qty
         /\ IF ModifyLocks(pair, id, price, qty)
            THEN phase' = "walk" /\ book' = pair /\ taker' = new
            ELSE UNCHANGED <<phase, book, taker>>
         /\ \A b \in Pairs : \A o :
              o \in OpenOrders(b)' <=>
                \/ b = pair /\ o = new /\ ModifyLocks(pair, id, price, qty)
                \/ o \in OpenOrders(b) /\ (b = pair => o.id # id)
<1>. DEFINE locked == ModifyLocks(pair, id, price, qty)
            map == orders_map[pair]
            sides == levels[pair]
            mid == Leaving(sides, old, id)
            last == IF locked THEN Joining(mid, new) ELSE mid
            later == IF locked THEN Remember(map, new) ELSE Forget(map, {id})
<1>1. /\ phase = "idle" /\ id \in DOMAIN map
      /\ UNCHANGED <<cursor, parked, trades>>
      /\ IF locked THEN phase' = "walk" /\ book' = pair /\ taker' = new
                   ELSE UNCHANGED <<phase, book, taker>>
      /\ levels' = [levels EXCEPT ![pair][old.side] =
                     IF locked THEN Inserted(Removed(levels[pair][old.side], old.price, id), new)
                               ELSE Removed(levels[pair][old.side], old.price, id)]
      /\ orders_map' = [orders_map EXCEPT ![pair] = later]
  BY DEF ModifyOrder, Amended
<1>2. /\ BooksInOrder /\ levels \in Books /\ orders_map \in [Pairs -> OrdersMap]
      /\ \A b \in Pairs : /\ levels[b] \in [Sides -> BookSide] /\ orders_map[b] \in OrdersMap
                          /\ OpenOrders(b) = OrdersIn(DepthOf(levels[b]))
  BY <1>1, IdleBooks
<1>3. /\ map \in OrdersMap /\ sides \in [Sides -> BookSide] /\ Agree(map, DepthOf(sides))
      /\ OpenOrders(pair) = OrdersIn(DepthOf(sides))
      /\ \A side \in Sides : Finite(sides[side]) /\ Full(sides[side]) /\ IsSide(sides[side])
  BY <1>2, BookSideIsSide DEF BooksInOrder
<1>. HIDE DEF map, sides
<1>4. /\ old \in Order /\ old.id = id /\ Rests(old)
      /\ new \in Order /\ new.id = id /\ Rests(new) /\ new.side = old.side
      /\ new.user = old.user /\ new.price = price /\ new.rem = qty
      /\ Joining(mid, new) \in [Sides -> BookSide]
      /\ Agree(Remember(map, new), DepthOf(Joining(mid, new)))
      /\ \A o : o \in OrdersIn(DepthOf(Joining(mid, new))) <=>
                  \/ o = new
                  \/ o \in OrdersIn(DepthOf(sides)) /\ o.id # id
  <2>1. old = map[id]
    BY DEF map
  <2>. QED
    BY <1>1, <1>3, <2>1, ModifiedBook
<1>5. old.side \in Sides /\ old.price \in Prices
  BY <1>4 DEF Order
<1>6. /\ mid \in [Sides -> BookSide]
      /\ Agree(Forget(map, {id}), DepthOf(mid))
      /\ \A o : o \in OrdersIn(DepthOf(mid)) <=> o \in OrdersIn(DepthOf(sides)) /\ o.id # id
  <2>. DEFINE gone == {id}
  <2>1. mid \in [Sides -> BookSide] /\ Thinned(mid, sides, gone)
    BY <1>1, <1>3, RemovedThins DEF Leaving, Thinned, map
  <2>2. \A x : x \in gone <=> x = id
    OBVIOUS
  <2>. HIDE DEF gone, mid
  <2>3. DepthOf(mid) \in Depth /\ DepthOf(sides) \in Depth
    BY <1>3, <2>1, DepthOfType
  <2>4. Agree(Forget(map, gone), DepthOf(mid))
    BY <1>3, <2>1, <2>3, ThinningAgrees DEF Thinned
  <2>5. OrdersIn(DepthOf(mid)) = {o \in OrdersIn(DepthOf(sides)) : o.id \notin gone}
    BY <2>1, <2>3, ThinningOrders DEF Thinned
  <2>. QED
    BY <2>1, <2>2, <2>4, <2>5 DEF gone
<1>7. /\ \A side \in Sides : Finite(mid[side]) /\ Full(mid[side]) /\ IsSide(mid[side])
      /\ \A side \in Sides : Finite(Joining(mid, new)[side]) /\ Full(Joining(mid, new)[side])
  <2>1. \A side \in Sides :
          mid[side] = IF side = old.side THEN Removed(sides[side], old.price, id) ELSE sides[side]
    BY <1>3, <1>5 DEF Leaving
  <2>2. \A side \in Sides : Finite(mid[side]) /\ Full(mid[side])
    BY <1>3, <1>5, <2>1, CallShapes
  <2>3. \A side \in Sides : IsSide(mid[side])
    BY <1>6, BookSideIsSide
  <2>4. \A side \in Sides :
          Joining(mid, new)[side] = IF side = old.side THEN Inserted(mid[side], new) ELSE mid[side]
    BY <1>4, <1>5, <1>6 DEF Joining
  <2>. HIDE DEF mid
  <2>. QED
    BY <1>4, <2>2, <2>3, <2>4, CallShapes
<1>8. /\ \A b \in Pairs : levels'[b] = IF b = pair THEN last ELSE levels[b]
      /\ \A b \in Pairs : orders_map'[b] = IF b = pair THEN later ELSE orders_map[b]
      /\ levels' \in Books /\ orders_map' \in [Pairs -> OrdersMap]
  <2>1. levels' = [levels EXCEPT ![pair] = last]
    <3>1. mid = [sides EXCEPT ![old.side] = Removed(sides[old.side], old.price, id)]
      BY DEF Leaving
    <3>2. Joining(mid, new)
            = [sides EXCEPT ![old.side] = Inserted(Removed(sides[old.side], old.price, id), new)]
      <4>1. mid[old.side] = Removed(sides[old.side], old.price, id)
        BY <1>3, <1>5, <3>1
      <4>2. Joining(mid, new) = [mid EXCEPT ![old.side] = Inserted(mid[old.side], new)]
        BY <1>4 DEF Joining
      <4>. QED
        BY <1>3, <3>1, <4>1, <4>2
    <3>. HIDE DEF mid
    <3>3. CASE locked
      BY <1>1, <1>2, <3>2, <3>3 DEF Books, sides
    <3>4. CASE ~locked
      BY <1>1, <1>2, <3>1, <3>4 DEF Books, sides
    <3>. QED
      BY <3>3, <3>4
  <2>2. last \in [Sides -> BookSide]
    BY <1>4, <1>6
  <2>3. later \in OrdersMap
    BY <1>3, <1>4, OrdersMapOps
  <2>. HIDE DEF last, later
  <2>. QED
    BY <1>1, <1>2, <2>1, <2>2, <2>3 DEF Books
<1>9. /\ Agree(later, DepthOf(last))
      /\ \A side \in Sides : Finite(last[side]) /\ Full(last[side])
      /\ \A o : o \in OrdersIn(DepthOf(last)) <=>
                  \/ o = new /\ locked
                  \/ o \in OpenOrders(pair) /\ o.id # id
  <2>1. CASE locked
    BY <1>3, <1>4, <1>7, <2>1
  <2>2. CASE ~locked
    BY <1>3, <1>6, <1>7, <2>2
  <2>. QED
    BY <2>1, <2>2
<1>. HIDE DEF last, later
<1>10. BooksInOrder'
  BY <1>2, <1>8, <1>9 DEF BooksInOrder
<1>11. \/ UNCHANGED <<phase, book, taker>>
       \/ phase' = "walk" /\ book' \in Pairs /\ taker' \in Order /\ Rests(taker')
  BY <1>1, <1>4
<1>. HIDE DEF locked
<1>12. /\ BookInv' /\ WalkInv'
       /\ \A b \in Pairs : OpenOrders(b)' = OrdersIn(DepthOf(levels'[b]))
  BY <1>1, <1>8, <1>10, <1>11, BooksReplaced
<1>13. ASSUME NEW b \in Pairs, NEW o
       PROVE  o \in OpenOrders(b)' <=> \/ b = pair /\ o = new /\ locked
                                       \/ o \in OpenOrders(b) /\ (b = pair => o.id # id)
  <2>1. CASE b = pair
    BY <1>8, <1>9, <1>12, <2>1
  <2>2. CASE b # pair
    BY <1>2, <1>8, <1>12, <2>2
  <2>. QED
    BY <2>1, <2>2
<1>. QED
  BY <1>1, <1>4, <1>12, <1>13 DEF locked, later, map

(* Settling a trade, or failing to, leaves the books alone.                *)
LEMMA SettleBooks ==
  ASSUME BookInv, WalkInv, SettleTrade
  PROVE  BookInv' /\ WalkInv' /\ \A b \in Pairs : OpenOrders(b)' = OpenOrders(b)
<1>1. /\ phase = "matched" /\ phase' \in {"matched", "panicked"}
      /\ UNCHANGED <<levels, orders_map, book, taker, cursor, parked, trades>>
  BY DEF SettleTrade
<1>2. CASE phase' = "matched"
  BY <1>1, <1>2, BooksAlone DEF vars
<1>3. CASE phase' = "panicked"
  <2>1. Typed /\ parked = NoLevels
    BY <1>1 DEF BookInv, WalkOK
  <2>2. Typed'
    BY <1>1, <1>3, <2>1 DEF Typed, CallOK, CursorOK, Phases
  <2>3. WalkOK'
    BY <1>1, <1>3, <2>1 DEF WalkOK, ParkedApart
  <2>4. \A b \in Pairs : Depths(b)' = Depths(b) /\ Incoming(b)' = {} /\ Incoming(b) = {}
    BY <1>1, <1>3 DEF Depths, Queue, AllLevels, Incoming
  <2>5. Consistent'
    BY <1>1, <2>4 DEF BookInv, Consistent
  <2>6. WalkInv'
    BY <1>1, <1>3, <2>1, IdleShapes, QuietWalk
  <2>7. \A b \in Pairs : OpenOrders(b)' = OpenOrders(b)
    BY <2>1, <2>2, <2>4, OpenIs, OpenIsNext
  <2>. QED
    BY <2>2, <2>3, <2>5, <2>6, <2>7 DEF BookInv
<1>. QED
  BY <1>1, <1>2, <1>3

(* The engine keeps the invariants of the books.                           *)
LEMMA EngineBooks ==
  ASSUME BookInv, WalkInv, [EngineNext]_engineVars
  PROVE  BookInv' /\ WalkInv'
<1>. USE NextBookInv, NextWalk
<1>1. CASE UNCHANGED engineVars
  BY <1>1 DEF engineVars, vars
<1>2. ASSUME NEW user \in Users, AddUser(user) \/ RemoveUser(user)
      PROVE  BookInv' /\ WalkInv'
  BY <1>2, RemoveUserBooks DEF AddUser
<1>3. ASSUME NEW user \in Users, NEW asset \in Assets, NEW amount \in Amounts,
             Deposit(user, asset, amount) \/ Withdraw(user, asset, amount)
      PROVE  BookInv' /\ WalkInv'
  BY <1>3 DEF Deposit, Withdraw
<1>4. ASSUME NEW pair \in Pairs, AddTradingPair(pair) \/ RemoveTradingPair(pair)
      PROVE  BookInv' /\ WalkInv'
  BY <1>4, RemoveTradingPairBooks DEF AddTradingPair
<1>5. ASSUME NEW pair \in Pairs, NEW o \in NewOrder, SubmitOrder(pair, o)
      PROVE  BookInv' /\ WalkInv'
  BY <1>5 DEF SubmitOrder, Next
<1>6. ASSUME NEW pair \in Pairs, NEW id \in OrderIds, CancelAndUnlock(pair, id)
      PROVE  BookInv' /\ WalkInv'
  BY <1>6 DEF CancelAndUnlock, Next
<1>7. ASSUME NEW pair \in Pairs, NEW id \in OrderIds, NEW price \in Prices, NEW qty \in Quantities,
             ModifyOrder(pair, id, price, qty)
      PROVE  BookInv' /\ WalkInv'
  BY <1>7, ModifyBooks
<1>8. CASE MatchStep
  BY <1>8 DEF MatchStep, Next
<1>9. CASE SettleTrade
  BY <1>9, SettleBooks
<1>10. CASE Answer
  BY <1>10 DEF Answer, Next
<1>. QED
  BY <1>1, <1>2, <1>3, <1>4, <1>5, <1>6, <1>7, <1>8, <1>9, <1>10 DEF EngineNext

-----------------------------------------------------------------------------
(* The accounts                                                            *)

(* A user's locks hold no more of any asset than the balance does.         *)
Fits(held, balance) ==
  Held(held) /\ \A asset \in Assets : LockedOf(held, asset) <= balance[asset]

(* They still do with fewer locks and a greater balance.                   *)
LEMMA FitsReleased ==
  ASSUME NEW held, NEW balance \in [Assets -> Nat], Fits(held, balance), NEW ids,
         NEW after \in [Assets -> Nat], \A asset \in Assets : balance[asset] <= after[asset]
  PROVE  Fits(held, after) /\ Fits(Unlocked(held, ids), after)
<1>1. ASSUME NEW asset \in Assets
      PROVE  /\ LockedOf(held, asset) <= after[asset]
             /\ LockedOf(Unlocked(held, ids), asset) <= after[asset]
  <2>1. Held(Unlocked(held, ids)) /\ LockedOf(Unlocked(held, ids), asset) <= LockedOf(held, asset)
    BY UnlockedLocks DEF Fits
  <2>2. LockedOf(held, asset) \in Nat /\ LockedOf(Unlocked(held, ids), asset) \in Nat
    BY <2>1, LockedIsNatural DEF Fits
  <2>3. LockedOf(held, asset) <= balance[asset] /\ balance[asset] <= after[asset]
    BY DEF Fits
  <2>. QED
    BY <2>1, <2>2, <2>3
<1>. QED
  BY <1>1, UnlockedLocks DEF Fits

(* ... with part of a lock spent,                                          *)
LEMMA FitsDebited ==
  ASSUME NEW held, NEW balance \in [Assets -> Nat], Fits(held, balance),
         NEW after \in [Assets -> Nat], \A asset \in Assets : balance[asset] <= after[asset],
         NEW id \in DOMAIN held, NEW debit \in Nat, debit <= held[id].amount
  PROVE  Fits(AfterDebit(held, id, debit), after)
<1>. DEFINE rest == AfterDebit(held, id, debit)
<1>1. Held(rest) /\ \A asset : LockedOf(rest, asset) <= LockedOf(held, asset)
  BY AfterDebitLocks DEF Fits
<1>. HIDE DEF rest
<1>2. \A asset \in Assets : LockedOf(rest, asset) \in Nat /\ LockedOf(held, asset) \in Nat
  BY <1>1, LockedIsNatural DEF Fits
<1>3. \A asset \in Assets : LockedOf(rest, asset) <= after[asset]
  BY <1>1, <1>2 DEF Fits
<1>. QED
  BY <1>1, <1>3 DEF Fits, rest

(* ... and with a lock more that the balance has room for.                 *)
LEMMA FitsLocked ==
  ASSUME NEW held, NEW balance \in [Assets -> Nat], Fits(held, balance),
         NEW id \in OrderIds, id \notin DOMAIN held, NEW lock \in Lock,
         lock.amount + LockedOf(held, lock.asset) <= balance[lock.asset]
  PROVE  Fits(WithLock(held, id, lock), balance)
<1>1. \A asset \in Assets : Held(WithLock(held, id, lock))
  BY WithLockLocks DEF Fits
<1>2. lock.asset \in Assets /\ lock.amount \in Nat
  BY DEF Lock
<1>3. ASSUME NEW asset \in Assets
      PROVE  LockedOf(WithLock(held, id, lock), asset) <= balance[asset]
  <2>1. LockedOf(WithLock(held, id, lock), asset) = LockedOf(held, asset) + AmountIn(lock, asset)
    BY WithLockLocks DEF Fits
  <2>2. LockedOf(held, asset) \in Nat /\ LockedOf(held, asset) <= balance[asset]
    BY LockedIsNatural DEF Fits
  <2>3. CASE lock.asset = asset
    BY <1>2, <2>1, <2>2, <2>3 DEF AmountIn
  <2>4. CASE lock.asset # asset
    BY <1>2, <2>1, <2>2, <2>4 DEF AmountIn
  <2>. QED
    BY <2>3, <2>4
<1>. QED
  BY <1>1, <1>2, <1>3 DEF Fits

(* The accounts: their types, and what is locked within what there is.     *)
AccountsOK ==
  /\ pairs \subseteq Pairs /\ users \subseteq Users
  /\ balances \in [Users -> [Assets -> 0..QuantityMax]]
  /\ locks = [user \in Users |-> locks[user]]
  /\ \A user \in Users : Fits(locks[user], balances[user])

(* Only users the engine knows have locks and orders, and only pairs it    *)
(* knows have orders.                                                      *)
Registered ==
  /\ \A user \in Users : DOMAIN locks[user] # {} => user \in users
  /\ \A pair \in Pairs : \A id \in DOMAIN orders_map[pair] :
       orders_map[pair][id].user \in users /\ pair \in pairs

(* What holds of the trades of a call: there are some only from the walk to*)
(* the answer, their parties are two users, and they are settled in order. *)
CallsOK ==
  /\ settled \in 0..Len(trades)
  /\ phase \in {"idle", "rejected"} => trades = << >>
  /\ phase \notin {"matched", "panicked"} => settled = 0
  /\ phase # "idle" => book \in pairs
  /\ \A k \in DOMAIN trades : trades[k].buyer # trades[k].seller /\ trades[k].qty > 0

AccountsInv == AccountsOK /\ Registered /\ CallsOK

(* The first state of the engine.                                          *)
LEMMA InitAccounts == EngineInit => BookInv /\ WalkInv /\ AccountsInv
<1>. SUFFICES ASSUME EngineInit PROVE BookInv /\ WalkInv /\ AccountsInv
  OBVIOUS
<1>1. BookInv /\ WalkInv
  BY InitBookInv, InitWalk DEF EngineInit
<1>. DEFINE none == [id \in {} |-> Nil]
            nothing == [asset \in Assets |-> 0]
<1>2. Held(none) /\ \A asset \in Assets : LockedOf(none, asset) = 0
  BY FS_EmptySet, NothingLocked DEF Held, IsLocks
<1>3. Fits(none, nothing)
  BY <1>2 DEF Fits
<1>4. nothing \in [Assets -> 0..QuantityMax]
  BY QuantityMaxAssumption
<1>5. /\ balances = [user \in Users |-> nothing] /\ locks = [user \in Users |-> none]
      /\ pairs = {} /\ users = {} /\ settled = 0
  BY DEF EngineInit
<1>6. AccountsOK
  BY <1>3, <1>4, <1>5 DEF AccountsOK
<1>7. Registered /\ CallsOK
  BY <1>5 DEF EngineInit, Init, Registered, CallsOK
<1>. QED
  BY <1>1, <1>6, <1>7 DEF AccountsInv

(* What is known of the accounts before a step.                            *)
LEMMA AccountsFacts ==
  ASSUME AccountsOK
  PROVE  /\ \A user \in Users : /\ balances[user] \in [Assets -> Nat]
                                /\ balances[user] \in [Assets -> 0..QuantityMax]
                                /\ Held(locks[user]) /\ Fits(locks[user], balances[user])
         /\ \A user \in Users, asset \in Assets :
              balances[user][asset] \in Nat /\ balances[user][asset] <= QuantityMax
         /\ locks = [user \in Users |-> locks[user]]
         /\ balances = [user \in Users |-> balances[user]]
BY QuantityMaxAssumption DEF AccountsOK, Fits

(* What is available is what is not locked.                                *)
LEMMA AvailableIs ==
  ASSUME AccountsOK, NEW user \in Users, NEW asset \in Assets
  PROVE  /\ AvailableBalance(user, asset) = balances[user][asset] - LockedOf(locks[user], asset)
         /\ AvailableBalance(user, asset) \in Nat
         /\ LockedOf(locks[user], asset) \in Nat
<1>1. LockedOf(locks[user], asset) \in Nat
  BY AccountsFacts, LockedIsNatural
<1>2. LockedOf(locks[user], asset) <= balances[user][asset] /\ balances[user][asset] \in Nat
  BY AccountsFacts DEF Fits
<1>. QED
  BY <1>1, <1>2 DEF AvailableBalance, LockedBalance

(* The cost of an order and the lock it asks for.                          *)
LEMMA CostType ==
  ASSUME NEW pair \in Pairs, NEW side \in Sides, NEW price \in Nat, NEW qty \in Nat
  PROVE  /\ Cost(side, price, qty) \in Nat /\ Spends(pair, side) \in Assets
         /\ pair.base \in Assets /\ pair.quote \in Assets
         /\ LockFor(pair, side, price, qty) \in Lock
         /\ LockFor(pair, side, price, qty).asset = Spends(pair, side)
         /\ LockFor(pair, side, price, qty).amount = Cost(side, price, qty)
<1>1. pair.base \in Assets /\ pair.quote \in Assets
  BY PairsAssumption
<1>2. price * qty \in Nat
  OBVIOUS
<1>3. Cost(side, price, qty) \in Nat /\ Spends(pair, side) \in Assets
  BY <1>1, <1>2 DEF Cost, Spends
<1>. QED
  BY <1>1, <1>3 DEF LockFor, Lock

(* A step between two calls that leaves the call in progress alone.        *)
LEMMA CallsAlone ==
  ASSUME CallsOK, UNCHANGED <<phase, book, taker, trades, settled>>, phase = "idle"
  PROVE  CallsOK'
BY DEF CallsOK

(* Adding a user.                                                          *)
LEMMA AddUserAccounts ==
  ASSUME AccountsInv, NEW user \in Users, AddUser(user)
  PROVE  AccountsInv'
<1>1. CallsOK'
  BY CallsAlone DEF AddUser, AccountsInv, vars
<1>2. AccountsOK'
  BY DEF AddUser, AccountsInv, AccountsOK
<1>3. Registered'
  BY DEF AddUser, AccountsInv, Registered, vars
<1>. QED
  BY <1>1, <1>2, <1>3 DEF AccountsInv

(* Removing a user, who leaves nothing behind.                             *)
LEMMA RemoveUserAccounts ==
  ASSUME BookInv, AccountsInv, NEW user \in Users, RemoveUser(user)
  PROVE  AccountsInv'
<1>1. CallsOK'
  BY CallsAlone DEF RemoveUser, AccountsInv, callVars
<1>. DEFINE none == [id \in {} |-> Nil]
            nothing == [asset \in Assets |-> 0]
<1>2. /\ balances' = [balances EXCEPT ![user] = nothing]
      /\ locks' = [locks EXCEPT ![user] = none]
      /\ users' = users \ {user} /\ pairs' = pairs
  BY DEF RemoveUser
<1>3. Held(none) /\ \A asset \in Assets : LockedOf(none, asset) = 0
  BY FS_EmptySet, NothingLocked DEF Held, IsLocks
<1>4. Fits(none, nothing) /\ nothing \in [Assets -> 0..QuantityMax] /\ DOMAIN none = {}
  BY <1>3, QuantityMaxAssumption DEF Fits
<1>. HIDE DEF none, nothing
<1>5. AccountsOK'
  BY <1>2, <1>4 DEF AccountsInv, AccountsOK
<1>6. ASSUME NEW pair \in Pairs, NEW id \in DOMAIN orders_map'[pair]
      PROVE  orders_map'[pair][id].user \in users' /\ pair \in pairs'
  <2>1. /\ id \in DOMAIN orders_map[pair] /\ orders_map'[pair][id] = orders_map[pair][id]
        /\ orders_map[pair][id].user # user
    BY DEF RemoveUser, Forget
  <2>. QED
    BY <1>2, <2>1 DEF AccountsInv, Registered
<1>7. \A u \in Users : DOMAIN locks'[u] # {} => u \in users'
  BY <1>2, <1>4 DEF AccountsInv, AccountsOK, Registered
<1>. QED
  BY <1>1, <1>5, <1>6, <1>7 DEF AccountsInv, Registered

(* Deposits and withdrawals.                                               *)
LEMMA FundsAccounts ==
  ASSUME AccountsInv, NEW user \in Users, NEW asset \in Assets, NEW amount \in Amounts,
         Deposit(user, asset, amount) \/ Withdraw(user, asset, amount)
  PROVE  AccountsInv'
<1>1. amount \in Nat
  BY AmountsAssumption
<1>2. CallsOK' /\ Registered'
  BY CallsAlone DEF Deposit, Withdraw, AccountsInv, Registered, vars
<1>. DEFINE old == balances[user][asset]
<1>3. /\ old \in Nat /\ old <= QuantityMax /\ LockedOf(locks[user], asset) \in Nat
      /\ AvailableBalance(user, asset) = old - LockedOf(locks[user], asset)
  BY AvailableIs, AccountsFacts DEF AccountsInv
<1>4. /\ UNCHANGED <<pairs, users, locks>>
      /\ \E new \in 0..QuantityMax : /\ balances' = [balances EXCEPT ![user][asset] = new]
                                     /\ LockedOf(locks[user], asset) <= new
  <2>1. CASE Deposit(user, asset, amount)
    <3>1. LockedOf(locks[user], asset) <= old
      BY AccountsFacts DEF AccountsInv, Fits
    <3>2. balances' = [balances EXCEPT ![user][asset] = old + amount]
      BY <2>1 DEF Deposit
    <3>3. old + amount \in 0..QuantityMax /\ LockedOf(locks[user], asset) <= old + amount
      BY <1>1, <1>3, <2>1, <3>1, QuantityMaxAssumption DEF Deposit
    <3>. QED
      BY <2>1, <3>2, <3>3 DEF Deposit
  <2>2. CASE Withdraw(user, asset, amount)
    <3>1. balances' = [balances EXCEPT ![user][asset] = old - amount]
      BY <2>2 DEF Withdraw
    <3>2. old - amount \in 0..QuantityMax /\ LockedOf(locks[user], asset) <= old - amount
      BY <1>1, <1>3, <2>2, QuantityMaxAssumption DEF Withdraw
    <3>. QED
      BY <2>2, <3>1, <3>2 DEF Withdraw
  <2>. QED
    BY <2>1, <2>2
<1>5. PICK new \in 0..QuantityMax : /\ balances' = [balances EXCEPT ![user][asset] = new]
                                    /\ LockedOf(locks[user], asset) <= new
  BY <1>4
<1>6. balances' \in [Users -> [Assets -> 0..QuantityMax]]
  BY <1>5, AccountsFacts DEF AccountsInv, AccountsOK
<1>7. \A u \in Users, a \in Assets :
        balances'[u][a] = IF u = user /\ a = asset THEN new ELSE balances[u][a]
  BY <1>5, AccountsFacts DEF AccountsInv, AccountsOK
<1>8. \A u \in Users : Fits(locks[u], balances'[u])
  BY <1>5, <1>7, AccountsFacts DEF AccountsInv, Fits
<1>9. AccountsOK'
  BY <1>4, <1>6, <1>8 DEF AccountsInv, AccountsOK
<1>. QED
  BY <1>2, <1>9 DEF AccountsInv

(* Adding a trading pair.                                                  *)
LEMMA AddTradingPairAccounts ==
  ASSUME AccountsInv, NEW pair \in Pairs, AddTradingPair(pair)
  PROVE  AccountsInv'
<1>1. CallsOK'
  BY CallsAlone DEF AddTradingPair, AccountsInv, vars
<1>2. AccountsOK'
  BY DEF AddTradingPair, AccountsInv, AccountsOK
<1>3. Registered'
  BY DEF AddTradingPair, AccountsInv, Registered, vars
<1>. QED
  BY <1>1, <1>2, <1>3 DEF AccountsInv

(* Locks that are released, a set of ids per user.                         *)
LEMMA ReleasedAccounts ==
  ASSUME AccountsOK, pairs' \subseteq Pairs, UNCHANGED <<users, balances>>,
         NEW ids, locks' = [user \in Users |-> Unlocked(locks[user], ids[user])]
  PROVE  /\ AccountsOK'
         /\ \A user \in Users : DOMAIN locks'[user] \subseteq DOMAIN locks[user]
<1>. DEFINE rest == [user \in Users |-> Unlocked(locks[user], ids[user])]
<1>1. \A user \in Users : Fits(rest[user], balances[user]) /\ DOMAIN rest[user] \subseteq DOMAIN locks[user]
  <2>1. ASSUME NEW user \in Users
        PROVE  /\ Fits(Unlocked(locks[user], ids[user]), balances[user])
               /\ DOMAIN Unlocked(locks[user], ids[user]) \subseteq DOMAIN locks[user]
    <3>1. balances[user] \in [Assets -> Nat] /\ Fits(locks[user], balances[user])
      BY AccountsFacts
    <3>2. \A asset \in Assets : balances[user][asset] <= balances[user][asset]
      BY <3>1
    <3>3. Fits(Unlocked(locks[user], ids[user]), balances[user])
      BY <3>1, <3>2, FitsReleased
    <3>. QED
      BY <3>3 DEF Unlocked
  <2>. QED
    BY <2>1
<1>2. locks' = [user \in Users |-> rest[user]]
  OBVIOUS
<1>. HIDE DEF rest
<1>. QED
  BY <1>1, <1>2 DEF AccountsOK

(* Removing a trading pair.                                                *)
LEMMA RemoveTradingPairAccounts ==
  ASSUME BookInv, AccountsInv, NEW pair \in Pairs, RemoveTradingPair(pair)
  PROVE  AccountsInv'
<1>1. CallsOK'
  BY CallsAlone DEF RemoveTradingPair, AccountsInv, callVars
<1>. DEFINE ids == [user \in Users |->
                     {id \in DOMAIN orders_map[pair] : orders_map[pair][id].user = user}]
<1>2. /\ locks' = [user \in Users |-> Unlocked(locks[user], ids[user])]
      /\ pairs' = pairs \ {pair} /\ UNCHANGED <<users, balances>>
      /\ orders_map' = [orders_map EXCEPT ![pair] = [id \in {} |-> Nil]]
  BY DEF RemoveTradingPair
<1>. HIDE DEF ids
<1>3. AccountsOK' /\ \A user \in Users : DOMAIN locks'[user] \subseteq DOMAIN locks[user]
  BY <1>2, ReleasedAccounts DEF AccountsInv, AccountsOK
<1>4. orders_map \in [Pairs -> OrdersMap]
  BY DEF BookInv, Typed
<1>5. Registered'
  BY <1>2, <1>3, <1>4 DEF AccountsInv, Registered
<1>. QED
  BY <1>1, <1>3, <1>5 DEF AccountsInv

(* What the walk does to the flat map: ids are forgotten.                  *)
LEMMA MatchForgets ==
  ASSUME BookInv, Match, NEW pair \in Pairs, NEW id \in DOMAIN orders_map'[pair]
  PROVE  id \in DOMAIN orders_map[pair] /\ orders_map'[pair][id] = orders_map[pair][id]
<1>1. CASE orders_map' = orders_map
  BY <1>1
<1>2. CASE orders_map' # orders_map
  <2>1. PICK gone : orders_map' = [orders_map EXCEPT ![book] = Forget(@, gone)]
    BY <1>2 DEF Match, EnterLevel, SkipResting, PassTurn, ParkLevel, Fill, LeaveLevel, Finish
  <2>2. orders_map \in [Pairs -> OrdersMap]
    BY DEF BookInv, Typed
  <2>. QED
    BY <2>1, <2>2 DEF Forget
<1>. QED
  BY <1>1, <1>2

(* A step that locks for an order of a user, instead of what the order had *)
(* locked before.                                                          *)
LEMMA LockingAccounts ==
  ASSUME AccountsOK, UNCHANGED <<pairs, users, balances>>,
         NEW user \in Users, NEW id \in OrderIds, NEW lock \in Lock,
         locks' = [locks EXCEPT ![user] = WithLock(@, id, lock)],
         lock.amount + LockedOf(Unlocked(locks[user], {id}), lock.asset)
           <= balances[user][lock.asset]
  PROVE  /\ AccountsOK'
         /\ \A u \in Users : u # user => locks'[u] = locks[u]
<1>. DEFINE held == Unlocked(locks[user], {id})
            more == WithLock(held, id, lock)
<1>1. balances[user] \in [Assets -> Nat] /\ Fits(locks[user], balances[user])
  BY AccountsFacts
<1>2. Fits(held, balances[user]) /\ id \notin DOMAIN held
  <2>1. \A asset \in Assets : balances[user][asset] <= balances[user][asset]
    BY <1>1
  <2>. QED
    BY <1>1, <2>1, FitsReleased DEF Unlocked
<1>. HIDE DEF held
<1>3. Fits(more, balances[user])
  BY <1>1, <1>2, FitsLocked DEF held
<1>. HIDE DEF more
<1>4. locks' = [locks EXCEPT ![user] = more]
  BY Relocked DEF more, held
<1>. QED
  BY <1>3, <1>4 DEF AccountsOK

(* Submitting an order.                                                    *)
LEMMA SubmitOrderAccounts ==
  ASSUME BookInv, AccountsInv, NEW pair \in Pairs, NEW o \in NewOrder, SubmitOrder(pair, o)
  PROVE  AccountsInv'
<1>. DEFINE lock == LockFor(pair, o.side, o.price, o.rem)
            asset == Spends(pair, o.side)
<1>1. /\ o.id \in OrderIds /\ o.user \in Users /\ o.side \in Sides
      /\ o.price \in Nat /\ o.rem \in Nat
  BY PricesAssumption, QuantitiesAssumption DEF NewOrder
<1>2. /\ lock \in Lock /\ lock.asset = asset /\ lock.amount = Cost(o.side, o.price, o.rem)
      /\ lock.amount \in Nat /\ asset \in Assets
  <2>. DEFINE side == o.side
              price == o.price
              qty == o.rem
  <2>1. side \in Sides /\ price \in Nat /\ qty \in Nat
    BY <1>1
  <2>. HIDE DEF side, price, qty
  <2>2. /\ Cost(side, price, qty) \in Nat /\ Spends(pair, side) \in Assets
        /\ LockFor(pair, side, price, qty) \in Lock
        /\ LockFor(pair, side, price, qty).asset = Spends(pair, side)
        /\ LockFor(pair, side, price, qty).amount = Cost(side, price, qty)
    BY <2>1, CostType
  <2>. QED
    BY <2>2 DEF side, price, qty
<1>3. /\ locks' = [locks EXCEPT ![o.user] = WithLock(@, o.id, lock)]
      /\ UNCHANGED <<pairs, users, balances, settled>>
      /\ pair \in pairs /\ o.user \in users /\ o.id \notin DOMAIN locks[o.user]
      /\ lock.amount <= AvailableBalance(o.user, asset)
      /\ AddOrder(pair, o)
  BY <1>1, <1>2 DEF SubmitOrder, Fresh
<1>. HIDE DEF lock, asset
<1>4. lock.amount + LockedOf(Unlocked(locks[o.user], {o.id}), lock.asset) <= balances[o.user][lock.asset]
  <2>1. AvailableBalance(o.user, asset) = balances[o.user][asset] - LockedOf(locks[o.user], asset)
    BY <1>1, <1>2, AvailableIs DEF AccountsInv
  <2>2. /\ LockedOf(Unlocked(locks[o.user], {o.id}), asset) <= LockedOf(locks[o.user], asset)
        /\ LockedOf(Unlocked(locks[o.user], {o.id}), asset) \in Nat
        /\ LockedOf(locks[o.user], asset) \in Nat /\ balances[o.user][asset] \in Nat
    <3>1. Held(locks[o.user]) /\ Held(Unlocked(locks[o.user], {o.id}))
      BY <1>1, AccountsFacts, UnlockedLocks DEF AccountsInv
    <3>. QED
      BY <1>1, <1>2, <3>1, AccountsFacts, UnlockedLocks, LockedIsNatural DEF AccountsInv
  <2>. QED
    BY <1>2, <1>3, <2>1, <2>2
<1>5. AccountsOK' /\ \A u \in Users : u # o.user => locks'[u] = locks[u]
  BY <1>1, <1>2, <1>3, <1>4, LockingAccounts DEF AccountsInv
<1>6. CallsOK'
  BY <1>3 DEF AddOrder, AccountsInv, CallsOK
<1>7. \A b \in Pairs : \A id \in DOMAIN orders_map'[b] :
        \/ id \in DOMAIN orders_map[b] /\ orders_map'[b][id] = orders_map[b][id]
        \/ orders_map'[b][id] = o /\ b = pair
  <2>1. orders_map \in [Pairs -> OrdersMap]
    BY DEF BookInv, Typed
  <2>. QED
    BY <1>3, <2>1 DEF AddOrder, bookVars, Remember
<1>8. Registered'
  BY <1>3, <1>5, <1>7 DEF AccountsInv, Registered
<1>. QED
  BY <1>5, <1>6, <1>8 DEF AccountsInv

(* Some locks of one user are released.                                    *)
LEMMA ReleasedOfOne ==
  ASSUME AccountsOK, UNCHANGED <<pairs, users, balances>>, NEW user, NEW gone,
         locks' = [locks EXCEPT ![user] = Unlocked(locks[user], gone)]
  PROVE  /\ AccountsOK'
         /\ \A u \in Users : DOMAIN locks'[u] \subseteq DOMAIN locks[u]
<1>. DEFINE ids == [u \in Users |-> IF u = user THEN gone ELSE {}]
            rest == [u \in Users |-> Unlocked(locks[u], ids[u])]
<1>1. \A u \in Users : Unlocked(locks[u], {}) = locks[u]
  BY AccountsFacts, LockedIsNatural DEF Unlocked
<1>2. \A u \in Users : rest[u] = IF u = user THEN Unlocked(locks[user], gone) ELSE locks[u]
  BY <1>1
<1>3. rest = [u \in Users |-> rest[u]]
  OBVIOUS
<1>4. pairs' \subseteq Pairs
  BY DEF AccountsOK
<1>. HIDE DEF rest
<1>5. locks' = rest
  BY <1>2, <1>3 DEF AccountsOK
<1>. HIDE DEF ids
<1>. QED
  BY <1>4, <1>5, ReleasedAccounts DEF rest

(* Cancelling an order.                                                    *)
LEMMA CancelAccounts ==
  ASSUME BookInv, AccountsInv, NEW pair \in Pairs, NEW id \in OrderIds, CancelAndUnlock(pair, id)
  PROVE  AccountsInv'
<1>. DEFINE user == orders_map[pair][id].user
            gone == {id}
<1>1. /\ locks' = [locks EXCEPT ![user] = Unlocked(locks[user], gone)]
      /\ UNCHANGED <<pairs, users, balances, settled>> /\ CancelOrder(pair, id)
      /\ orders_map' = [orders_map EXCEPT ![pair] = Forget(@, gone)]
  BY DEF CancelAndUnlock, CancelOrder
<1>. HIDE DEF user, gone
<1>2. AccountsOK' /\ \A u \in Users : DOMAIN locks'[u] \subseteq DOMAIN locks[u]
  BY <1>1, ReleasedOfOne DEF AccountsInv
<1>3. CallsOK'
  BY <1>1, CallsAlone DEF CancelOrder, AccountsInv, callVars
<1>4. orders_map \in [Pairs -> OrdersMap]
  BY DEF BookInv, Typed
<1>5. Registered'
  BY <1>1, <1>2, <1>4 DEF AccountsInv, Registered, Forget
<1>. QED
  BY <1>2, <1>3, <1>5 DEF AccountsInv

(* Modifying an order.                                                     *)
LEMMA ModifyAccounts ==
  ASSUME BookInv, WalkInv, AccountsInv, NEW pair \in Pairs, NEW id \in OrderIds,
         NEW price \in Prices, NEW qty \in Quantities, ModifyOrder(pair, id, price, qty)
  PROVE  AccountsInv'
<1>. DEFINE old == orders_map[pair][id]
            new == Amended(old, price, qty)
            locked == ModifyLocks(pair, id, price, qty)
            gone == {id}
            lock == LockFor(pair, old.side, price, qty)
<1>1. /\ phase = "idle" /\ pair \in pairs /\ id \in DOMAIN orders_map[pair]
      /\ UNCHANGED <<trades, pairs, users, balances, settled>>
      /\ locks' = [locks EXCEPT ![old.user] =
                     IF locked THEN WithLock(locks[old.user], id, lock)
                               ELSE Unlocked(locks[old.user], gone)]
      /\ orders_map' = [orders_map EXCEPT ![pair] = IF locked THEN Remember(@, new) ELSE Forget(@, {id})]
  BY DEF ModifyOrder, Amended
<1>2. /\ old \in Order /\ new.user = old.user
      /\ IF locked THEN phase' = "walk" /\ book' = pair /\ taker' = new
                   ELSE UNCHANGED <<phase, book, taker>>
  <2>. HIDE DEF old, new
  <2>1. old = orders_map[pair][id] /\ new = Amended(old, price, qty)
    BY DEF old, new
  <2>. QED
    BY <2>1, ModifyBooks
<1>3. old.user \in Users /\ old.side \in Sides /\ price \in Nat /\ qty \in Nat
  BY <1>2, PricesAssumption, QuantitiesAssumption DEF Order
<1>4. CallsOK'
  BY <1>1, <1>2 DEF AccountsInv, CallsOK
<1>5. /\ AccountsOK'
      /\ \A u \in Users : DOMAIN locks'[u] # {} => DOMAIN locks[u] # {} \/ u = old.user
  <2>1. CASE locked
    <3>. DEFINE side == old.side
    <3>1. side \in Sides
      BY <1>3
    <3>. HIDE DEF side
    <3>2. /\ LockFor(pair, side, price, qty) \in Lock
          /\ LockFor(pair, side, price, qty).asset = Spends(pair, side)
          /\ LockFor(pair, side, price, qty).amount = Cost(side, price, qty)
      BY <1>3, <3>1, CostType
    <3>3. lock \in Lock /\ lock.amount + LockedOf(Unlocked(locks[old.user], {id}), lock.asset)
                             <= balances[old.user][lock.asset]
      BY <2>1, <3>2 DEF ModifyLocks, side
    <3>4. locks' = [locks EXCEPT ![old.user] = WithLock(@, id, lock)]
      BY <1>1, <2>1
    <3>. DEFINE user == old.user
    <3>5. AccountsOK /\ UNCHANGED <<pairs, users, balances>> /\ user \in Users
      BY <1>1, <1>3 DEF AccountsInv
    <3>. HIDE DEF lock, user, old
    <3>6. /\ lock \in Lock /\ locks' = [locks EXCEPT ![user] = WithLock(@, id, lock)]
          /\ lock.amount + LockedOf(Unlocked(locks[user], {id}), lock.asset)
               <= balances[user][lock.asset]
      BY <3>3, <3>4 DEF user
    <3>7. AccountsOK' /\ \A u \in Users : u # user => locks'[u] = locks[u]
      BY <3>5, <3>6, LockingAccounts
    <3>. QED
      BY <3>7 DEF user
  <2>2. CASE ~locked
    <3>. DEFINE user == old.user
    <3>1. locks' = [locks EXCEPT ![user] = Unlocked(locks[user], gone)]
      BY <1>1, <2>2
    <3>. HIDE DEF user, gone
    <3>2. AccountsOK' /\ \A u \in Users : DOMAIN locks'[u] \subseteq DOMAIN locks[u]
      BY <1>1, <3>1, ReleasedOfOne DEF AccountsInv
    <3>. QED
      BY <3>2
  <2>. QED
    BY <2>1, <2>2
<1>. HIDE DEF locked, new
<1>6. \A b \in Pairs : \A i \in DOMAIN orders_map'[b] :
        \/ i \in DOMAIN orders_map[b] /\ orders_map'[b][i] = orders_map[b][i]
        \/ orders_map'[b][i] = new /\ b = pair
  <2>1. orders_map \in [Pairs -> OrdersMap]
    BY DEF BookInv, Typed
  <2>. QED
    BY <1>1, <2>1 DEF Remember, Forget
<1>7. old.user \in users
  BY <1>1 DEF AccountsInv, Registered
<1>. HIDE DEF old
<1>8. \A u \in Users : DOMAIN locks'[u] # {} => u \in users'
  BY <1>1, <1>5, <1>7 DEF AccountsInv, Registered
<1>9. \A b \in Pairs : \A i \in DOMAIN orders_map'[b] :
        orders_map'[b][i].user \in users' /\ b \in pairs'
  <2>1. ASSUME NEW b \in Pairs, NEW i \in DOMAIN orders_map'[b]
        PROVE  orders_map'[b][i].user \in users /\ b \in pairs
    BY <1>1, <1>2, <1>6, <1>7 DEF AccountsInv, Registered
  <2>. QED
    BY <1>1, <2>1
<1>. QED
  BY <1>4, <1>5, <1>8, <1>9 DEF AccountsInv, Registered

(* What is open has something left to fill, and its id to itself.          *)
LEMMA OpenOnce ==
  ASSUME BookInv, NEW b \in Pairs
  PROVE  /\ \A o \in OpenOrders(b) : o \in Order /\ o.rem > 0
         /\ \A o, other \in OpenOrders(b) : o.id = other.id => o = other
<1>1. Typed /\ Agree(orders_map[b], Depths(b)) /\ Depths(b) \in Depth
  BY DepthsType DEF BookInv, Consistent
<1>2. OpenOrders(b) = OrdersIn(Depths(b)) \cup Incoming(b)
  BY <1>1, OpenIs
<1>3. \A o \in OrdersIn(Depths(b)) : o \in Order /\ o.rem > 0 /\ o.id \in DOMAIN orders_map[b]
  BY QueuedOrder
<1>4. \A o \in Incoming(b) : /\ o \in Order /\ o.rem > 0 /\ o = taker
                             /\ o.id \notin DOMAIN orders_map[b]
  BY <1>1 DEF Incoming, Typed, CallOK, BookInv, WalkOK
<1>5. ASSUME NEW o \in OrdersIn(Depths(b)), NEW other \in OrdersIn(Depths(b)), o.id = other.id
      PROVE  o = other
  <2>1. PICK side \in Sides, p \in Prices : \E i \in DOMAIN Depths(b)[side][p] : Depths(b)[side][p][i] = o
    BY <1>1, EntriesOf
  <2>2. PICK i \in DOMAIN Depths(b)[side][p] : Depths(b)[side][p][i] = o
    BY <2>1
  <2>3. PICK s \in Sides, t \in Prices : \E j \in DOMAIN Depths(b)[s][t] : Depths(b)[s][t][j] = other
    BY <1>1, EntriesOf
  <2>4. PICK j \in DOMAIN Depths(b)[s][t] : Depths(b)[s][t][j] = other
    BY <2>3
  <2>5. s = side /\ t = p /\ j = i
    BY <1>1, <1>5, <2>2, <2>4, OneOrder
  <2>. QED
    BY <2>2, <2>4, <2>5
<1>. QED
  BY <1>2, <1>3, <1>4, <1>5

(* An order once qty of it has been filled.                                *)
Reduced(o, qty) == [o EXCEPT !.rem = @ - qty]

(* A fill is a trade of two open orders of two users.                      *)
LEMMA FillBetween ==
  ASSUME BookInv, WalkInv, Fill
  PROVE  \E bid, ask \in OpenOrders(book), qty \in Nat \ {0} :
           /\ bid \in Order /\ ask \in Order /\ bid.side = "Buy" /\ ask.side = "Sell"
           /\ bid.user # ask.user /\ bid.id # ask.id
           /\ cursor.opp \in Nat /\ cursor.opp <= bid.price
           /\ qty <= bid.rem /\ qty <= ask.rem
           /\ trades' = Append(trades, [bid |-> bid.id, ask |-> ask.id, buyer |-> bid.user,
                                        seller |-> ask.user, price |-> cursor.opp, qty |-> qty])
           /\ \A b \in Pairs : \A o :
                o \in OpenOrders(b)' <=>
                  \/ o \in OpenOrders(b) /\ (b = book => o # bid /\ o # ask)
                  \/ b = book /\ bid.rem > qty /\ o = Reduced(bid, qty)
                  \/ b = book /\ ask.rem > qty /\ o = Reduced(ask, qty)
<1>. DEFINE in  == Head(SameQueue)
            out == Head(OppQueue)
            qty == Lesser(in.rem, out.rem)
            bid == IF taker.side = "Buy" THEN in ELSE out
            ask == IF taker.side = "Buy" THEN out ELSE in
            c   == cursor.opp
            left == Abstract!Rest({in, out}, qty)
            t == [bid |-> bid.id, ask |-> ask.id, buyer |-> bid.user,
                  seller |-> ask.user, price |-> c, qty |-> qty]
<1>1. Typed'
  BY NextBookInv DEF Next, Match, BookInv
<1>2. /\ Abstract!Agree(bid, ask, c) /\ {bid, ask} = {in, out}
      /\ in \in OpenOrders(book) /\ out \in OpenOrders(book)
      /\ in \in Order /\ out \in Order /\ qty \in Nat /\ c \in Prices
      /\ qty \in {in.rem, out.rem} /\ qty <= in.rem /\ qty <= out.rem
      /\ \A b \in Pairs : OpenOrders(b)' = IF b = book THEN (OpenOrders(b) \ {in, out}) \cup left
                                             ELSE OpenOrders(b)
  BY <1>1, FillDeals
<1>3. book \in Pairs /\ trades' = Append(trades, t)
  BY WalkTypes DEF BookInv, Fill, InLevel
<1>4. \A o \in OpenOrders(book) : o \in Order /\ o.rem > 0
  BY <1>3, OpenOnce
<1>5. bid.side = "Buy" /\ ask.side = "Sell" /\ bid.user # ask.user /\ bid.price >= c
  BY <1>2 DEF Abstract!Agree
<1>6. \A o : o \in left <=> \E x \in {in, out} : x.rem > qty /\ o = Reduced(x, qty)
  BY DEF Abstract!Rest, Reduced
<1>. HIDE DEF qty, in, out, left
<1>7. /\ bid \in OpenOrders(book) /\ ask \in OpenOrders(book)
      /\ qty <= bid.rem /\ qty <= ask.rem /\ qty \in {bid.rem, ask.rem}
  BY <1>2
<1>8. bid.id # ask.id
  BY <1>3, <1>5, <1>7, OpenOnce
<1>. HIDE DEF bid, ask, c
<1>9. ASSUME NEW b \in Pairs, NEW o
      PROVE  o \in OpenOrders(b)' <=>
                  \/ o \in OpenOrders(b) /\ (b = book => o # bid /\ o # ask)
                  \/ b = book /\ bid.rem > qty /\ o = Reduced(bid, qty)
                  \/ b = book /\ ask.rem > qty /\ o = Reduced(ask, qty)
  BY <1>2, <1>6
<1>10. /\ bid \in Order /\ ask \in Order /\ qty \in Nat \ {0} /\ c \in Nat /\ c <= bid.price
  <2>1. bid \in Order /\ ask \in Order /\ bid.rem > 0 /\ ask.rem > 0
    BY <1>4, <1>7
  <2>2. c \in Nat /\ c <= bid.price
    BY <1>2, <1>5, <2>1, PricesAssumption DEF Order
  <2>. QED
    BY <1>2, <1>7, <2>1, <2>2
<1>11. trades' = Append(trades, [bid |-> bid.id, ask |-> ask.id, buyer |-> bid.user,
                                 seller |-> ask.user, price |-> cursor.opp, qty |-> qty])
  BY <1>3 DEF c
<1>. QED
  BY <1>5, <1>7, <1>8, <1>9, <1>10, <1>11 DEF c

(* A step of the walk.                                                     *)
LEMMA MatchAccounts ==
  ASSUME BookInv, WalkInv, AccountsInv, MatchStep
  PROVE  AccountsInv'
<1>1. Match /\ UNCHANGED <<pairs, users, balances, locks, settled>>
  BY DEF MatchStep, accountVars
<1>2. Typed' /\ phase' \in {"walk", "level", "matched"} /\ phase \in {"walk", "level"} /\ book' = book
  BY <1>1, NextBookInv, MatchWalk
     DEF Next, BookInv, Match, EnterLevel, SkipResting, PassTurn, ParkLevel, Fill, LeaveLevel, Finish,
         SelfTrade, InLevel
<1>3. AccountsOK'
  BY <1>1 DEF AccountsInv, AccountsOK
<1>4. Registered'
  BY <1>1, MatchForgets DEF AccountsInv, Registered
<1>5. settled = 0 /\ book \in pairs
  BY <1>2 DEF AccountsInv, CallsOK
<1>6. settled' \in 0..Len(trades')
  BY <1>1, <1>2, <1>5, LenProperties DEF Typed
<1>7. \A k \in DOMAIN trades' : trades'[k].buyer # trades'[k].seller /\ trades'[k].qty > 0
  <2>1. CASE Fill
    <3>1. PICK bid, ask \in OpenOrders(book), qty \in Nat \ {0} :
            /\ bid.user # ask.user
            /\ trades' = Append(trades, [bid |-> bid.id, ask |-> ask.id, buyer |-> bid.user,
                                         seller |-> ask.user, price |-> cursor.opp, qty |-> qty])
      BY <2>1, FillBetween
    <3>. DEFINE t == [bid |-> bid.id, ask |-> ask.id, buyer |-> bid.user,
                      seller |-> ask.user, price |-> cursor.opp, qty |-> qty]
    <3>2. t.buyer # t.seller /\ t.qty > 0 /\ trades' = Append(trades, t) /\ trades \in Seq(Trade)
      BY <3>1 DEF BookInv, Typed
    <3>. HIDE DEF t
    <3>. QED
      BY <3>2, AppendProperties DEF AccountsInv, CallsOK
  <2>2. CASE ~Fill
    <3>1. trades' = trades
      BY <1>1, <2>2 DEF Match, EnterLevel, SkipResting, PassTurn, ParkLevel, LeaveLevel, Finish
    <3>. QED
      BY <3>1 DEF AccountsInv, CallsOK
  <2>. QED
    BY <2>1, <2>2
<1>8. CallsOK'
  BY <1>1, <1>2, <1>5, <1>6, <1>7 DEF CallsOK
<1>. QED
  BY <1>3, <1>4, <1>8 DEF AccountsInv

(* A trade is settled, or the engine panics.                               *)
LEMMA SettleFacts ==
  ASSUME BookInv, AccountsInv, SettleTrade, NEW t, t = trades[settled + 1]
  PROVE  /\ phase = "matched" /\ settled + 1 \in DOMAIN trades /\ settled + 1 <= Len(trades)
         /\ t \in Trade /\ t.price \in Nat /\ t.qty \in Nat /\ t.price * t.qty \in Nat
         /\ t.buyer \in Users /\ t.seller \in Users /\ t.buyer # t.seller
         /\ book \in Pairs /\ book.base \in Assets /\ book.quote \in Assets
         /\ UNCHANGED <<levels, orders_map, book, taker, cursor, parked, trades, pairs, users>>
         /\ \/ /\ phase' = "matched" /\ settled' = settled + 1 /\ SettlesWell(t)
               /\ \A u \in Users :
                    locks'[u] = IF u = t.buyer THEN AfterDebit(locks[u], t.bid, t.price * t.qty)
                                ELSE IF u = t.seller THEN AfterDebit(locks[u], t.ask, t.qty)
                                ELSE locks[u]
               /\ \A u \in Users, asset \in Assets :
                    balances'[u][asset]
                      = IF u = t.buyer /\ asset = book.base THEN balances[u][asset] + t.qty
                        ELSE IF u = t.seller /\ asset = book.quote
                             THEN balances[u][asset] + t.price * t.qty
                        ELSE balances[u][asset]
               /\ locks' = [u \in Users |-> locks'[u]]
               /\ balances' = [u \in Users |-> [asset \in Assets |-> balances'[u][asset]]]
            \/ /\ phase' = "panicked" /\ ~SettlesWell(t)
               /\ UNCHANGED <<locks, balances, settled>>
<1>. DEFINE notional == t.price * t.qty
<1>1. /\ phase = "matched" /\ settled < Len(trades)
      /\ UNCHANGED <<levels, orders_map, book, taker, cursor, parked, trades, pairs, users>>
      /\ \/ /\ SettlesWell(t)
            /\ locks' = [locks EXCEPT ![t.buyer] = AfterDebit(@, t.bid, notional),
                                      ![t.seller] = AfterDebit(@, t.ask, t.qty)]
            /\ balances' = [balances EXCEPT ![t.buyer][book.base] = @ + t.qty,
                                            ![t.seller][book.quote] = @ + notional]
            /\ settled' = settled + 1
            /\ UNCHANGED phase
         \/ /\ ~SettlesWell(t)
            /\ phase' = "panicked"
            /\ UNCHANGED <<locks, balances, settled>>
  BY DEF SettleTrade
<1>2. trades \in Seq(Trade) /\ settled \in 0..Len(trades)
  BY DEF BookInv, Typed, AccountsInv, CallsOK
<1>3. settled + 1 \in DOMAIN trades /\ settled + 1 <= Len(trades)
  BY <1>1, <1>2, LenProperties
<1>4. t \in Trade /\ t.buyer # t.seller
  BY <1>2, <1>3, ElementOfSeq, LenProperties DEF AccountsInv, CallsOK
<1>5. /\ t.price \in Nat /\ t.qty \in Nat /\ t.buyer \in Users /\ t.seller \in Users
  BY <1>4, PricesAssumption DEF Trade
<1>6. notional \in Nat
  BY <1>5
<1>7. book \in Pairs /\ book.base \in Assets /\ book.quote \in Assets
  <2>1. book \in Pairs
    BY <1>1 DEF BookInv, Typed, CallOK
  <2>. QED
    BY <2>1, PairsAssumption
<1>. HIDE DEF notional
<1>8. CASE SettlesWell(t)
  <2>1. /\ locks' = [locks EXCEPT ![t.buyer] = AfterDebit(@, t.bid, notional),
                                  ![t.seller] = AfterDebit(@, t.ask, t.qty)]
        /\ balances' = [balances EXCEPT ![t.buyer][book.base] = @ + t.qty,
                                        ![t.seller][book.quote] = @ + notional]
        /\ settled' = settled + 1 /\ phase' = "matched"
    BY <1>1, <1>8
  <2>2. /\ locks = [u \in Users |-> locks[u]]
        /\ balances = [u \in Users |-> balances[u]]
        /\ \A u \in Users : balances[u] = [asset \in Assets |-> balances[u][asset]]
    BY AccountsFacts DEF AccountsInv
  <2>3. /\ \A u \in Users :
             locks'[u] = IF u = t.buyer THEN AfterDebit(locks[u], t.bid, notional)
                         ELSE IF u = t.seller THEN AfterDebit(locks[u], t.ask, t.qty)
                         ELSE locks[u]
        /\ locks' = [u \in Users |-> locks'[u]]
    BY <1>4, <1>5, <2>1, <2>2
  <2>4. /\ \A u \in Users :
             balances'[u] = IF u = t.buyer THEN [balances[u] EXCEPT ![book.base] = @ + t.qty]
                            ELSE IF u = t.seller THEN [balances[u] EXCEPT ![book.quote] = @ + notional]
                            ELSE balances[u]
        /\ balances' = [u \in Users |-> balances'[u]]
    BY <1>4, <1>5, <2>1, <2>2
  <2>5. \A u \in Users, asset \in Assets :
          balances'[u][asset]
            = IF u = t.buyer /\ asset = book.base THEN balances[u][asset] + t.qty
              ELSE IF u = t.seller /\ asset = book.quote THEN balances[u][asset] + notional
              ELSE balances[u][asset]
    BY <1>4, <1>5, <2>2, <2>4
  <2>6. \A u \in Users : balances'[u] = [asset \in Assets |-> balances'[u][asset]]
    BY <1>4, <1>5, <2>2, <2>4
  <2>7. balances' = [u \in Users |-> [asset \in Assets |-> balances'[u][asset]]]
    BY <2>4, <2>6
  <2>. QED
    BY <1>1, <1>3, <1>4, <1>5, <1>6, <1>7, <1>8, <2>1, <2>3, <2>5, <2>7 DEF notional
<1>9. CASE ~SettlesWell(t)
  BY <1>1, <1>3, <1>4, <1>5, <1>6, <1>7, <1>9 DEF notional
<1>. QED
  BY <1>8, <1>9

(* The accounts once a trade is settled.                                   *)
LEMMA SettleAccounts ==
  ASSUME BookInv, AccountsInv, SettleTrade
  PROVE  AccountsInv'
<1>. DEFINE t == trades[settled + 1]
            notional == t.price * t.qty
<1>1. /\ phase = "matched" /\ settled + 1 <= Len(trades)
      /\ t.qty \in Nat /\ notional \in Nat
      /\ t.buyer \in Users /\ t.seller \in Users /\ t.buyer # t.seller
      /\ book.base \in Assets /\ book.quote \in Assets
      /\ UNCHANGED <<levels, orders_map, book, taker, cursor, parked, trades, pairs, users>>
      /\ \/ /\ phase' = "matched" /\ settled' = settled + 1 /\ SettlesWell(t)
            /\ \A u \in Users :
                 locks'[u] = IF u = t.buyer THEN AfterDebit(locks[u], t.bid, notional)
                             ELSE IF u = t.seller THEN AfterDebit(locks[u], t.ask, t.qty)
                             ELSE locks[u]
            /\ \A u \in Users, asset \in Assets :
                 balances'[u][asset]
                   = IF u = t.buyer /\ asset = book.base THEN balances[u][asset] + t.qty
                     ELSE IF u = t.seller /\ asset = book.quote
                          THEN balances[u][asset] + notional
                     ELSE balances[u][asset]
            /\ locks' = [u \in Users |-> locks'[u]]
            /\ balances' = [u \in Users |-> [asset \in Assets |-> balances'[u][asset]]]
         \/ /\ phase' = "panicked"
            /\ UNCHANGED <<locks, balances, settled>>
  BY SettleFacts
<1>. HIDE DEF t, notional
<1>2. CASE phase' = "panicked"
  <2>1. UNCHANGED <<locks, balances, settled>>
    BY <1>1, <1>2
  <2>2. AccountsOK' /\ Registered'
    BY <1>1, <2>1 DEF AccountsInv, AccountsOK, Registered
  <2>3. CallsOK'
    BY <1>1, <1>2, <2>1 DEF AccountsInv, CallsOK
  <2>. QED
    BY <2>2, <2>3 DEF AccountsInv
<1>3. CASE phase' = "matched"
  <2>1. /\ t.bid \in DOMAIN locks[t.buyer] /\ notional <= locks[t.buyer][t.bid].amount
        /\ t.ask \in DOMAIN locks[t.seller] /\ t.qty <= locks[t.seller][t.ask].amount
        /\ balances[t.buyer][book.base] + t.qty <= QuantityMax
        /\ balances[t.seller][book.quote] + notional <= QuantityMax
    BY <1>1, <1>3 DEF SettlesWell, LockCovers, CreditFits, notional
  <2>2. \A u \in Users, asset \in Assets :
          balances[u][asset] \in Nat /\ balances[u][asset] <= QuantityMax
    BY AccountsFacts DEF AccountsInv
  <2>3. \A u \in Users, asset \in Assets :
          balances'[u][asset] \in 0..QuantityMax /\ balances[u][asset] <= balances'[u][asset]
    BY <1>1, <1>3, <2>1, <2>2, QuantityMaxAssumption
  <2>4. balances' \in [Users -> [Assets -> 0..QuantityMax]]
    BY <1>1, <1>3, <2>3
  <2>5. \A u \in Users : /\ balances[u] \in [Assets -> Nat] /\ balances'[u] \in [Assets -> Nat]
                         /\ Fits(locks[u], balances[u])
    BY <2>4, AccountsFacts, QuantityMaxAssumption DEF AccountsInv
  <2>6. ASSUME NEW u \in Users
        PROVE  Fits(locks'[u], balances'[u])
    <3>. DEFINE held == locks[u]
                balance == balances[u]
                after == balances'[u]
                bid == t.bid
                ask == t.ask
                qty == t.qty
    <3>0. /\ Fits(held, balance) /\ balance \in [Assets -> Nat] /\ after \in [Assets -> Nat]
          /\ \A asset \in Assets : balance[asset] <= after[asset]
      BY <2>3, <2>5
    <3>1. CASE u = t.buyer
      <4>1. /\ bid \in DOMAIN held /\ notional <= held[bid].amount
            /\ locks'[u] = AfterDebit(held, bid, notional)
        BY <1>1, <1>3, <2>1, <3>1
      <4>. HIDE DEF held, balance, after, bid
      <4>2. Fits(AfterDebit(held, bid, notional), after)
        BY <1>1, <3>0, <4>1, FitsDebited
      <4>. QED
        BY <4>1, <4>2 DEF after
    <3>2. CASE u = t.seller
      <4>1. /\ ask \in DOMAIN held /\ qty <= held[ask].amount /\ qty \in Nat
            /\ locks'[u] = AfterDebit(held, ask, qty)
        BY <1>1, <1>3, <2>1, <3>2
      <4>. HIDE DEF held, balance, after, ask, qty
      <4>2. Fits(AfterDebit(held, ask, qty), after)
        BY <3>0, <4>1, FitsDebited
      <4>. QED
        BY <4>1, <4>2 DEF after
    <3>3. CASE u # t.buyer /\ u # t.seller
      BY <1>1, <1>3, <2>3, <2>5, <3>3, FitsReleased
    <3>. QED
      BY <3>1, <3>2, <3>3
  <2>7. AccountsOK'
    BY <1>1, <1>3, <2>4, <2>6 DEF AccountsInv, AccountsOK
  <2>8. t.buyer \in users /\ t.seller \in users
    BY <1>1, <1>3 DEF SettlesWell
  <2>9. Registered'
    BY <1>1, <1>3, <2>8 DEF AccountsInv, Registered
  <2>10. CallsOK'
    BY <1>1, <1>3 DEF AccountsInv, CallsOK
  <2>. QED
    BY <2>7, <2>9, <2>10 DEF AccountsInv
<1>. QED
  BY <1>1, <1>2, <1>3

(* Answering the caller.                                                   *)
LEMMA AnswerAccounts ==
  ASSUME BookInv, AccountsInv, Answer
  PROVE  AccountsInv'
<1>. DEFINE user == taker.user
            gone == IF phase = "rejected" \/ taker.type = "FAK" THEN {taker.id} ELSE {}
<1>1. /\ phase' = "idle" /\ trades' = << >> /\ settled' = 0
      /\ UNCHANGED <<orders_map, pairs, users, balances>>
  BY DEF Answer, Return
<1>2. locks' = [locks EXCEPT ![user] = Unlocked(locks[user], gone)]
  <2>1. CASE phase = "rejected" \/ taker.type = "FAK"
    BY <2>1 DEF Answer
  <2>2. CASE ~(phase = "rejected" \/ taker.type = "FAK")
    <3>1. locks' = locks
      BY <2>2 DEF Answer
    <3>2. user \in Users
      BY DEF Answer, Return, BookInv, Typed, CallOK, Order
    <3>3. locks[user] = Unlocked(locks[user], {})
      BY <3>2, AccountsFacts, LockedIsNatural DEF AccountsInv, Unlocked
    <3>4. gone = {} /\ locks = [u \in Users |-> locks[u]]
      BY <2>2, AccountsFacts DEF AccountsInv
    <3>. HIDE DEF gone, user
    <3>. QED
      BY <3>1, <3>3, <3>4
  <2>. QED
    BY <2>1, <2>2
<1>. HIDE DEF user, gone
<1>3. AccountsOK' /\ \A u \in Users : DOMAIN locks'[u] \subseteq DOMAIN locks[u]
  BY <1>1, <1>2, ReleasedOfOne DEF AccountsInv
<1>4. Registered'
  BY <1>1, <1>3 DEF AccountsInv, Registered
<1>5. CallsOK'
  BY <1>1, EmptySeq, LenProperties DEF CallsOK
<1>. QED
  BY <1>3, <1>4, <1>5 DEF AccountsInv

(* Every step keeps the accounts.                                          *)
LEMMA EngineAccounts ==
  ASSUME BookInv, WalkInv, AccountsInv, [EngineNext]_engineVars
  PROVE  AccountsInv'
<1>1. CASE UNCHANGED engineVars
  BY <1>1 DEF engineVars, AccountsInv, AccountsOK, Registered, CallsOK
<1>2. ASSUME NEW user \in Users, AddUser(user) \/ RemoveUser(user)
      PROVE  AccountsInv'
  BY <1>2, AddUserAccounts, RemoveUserAccounts
<1>3. ASSUME NEW user \in Users, NEW asset \in Assets, NEW amount \in Amounts,
             Deposit(user, asset, amount) \/ Withdraw(user, asset, amount)
      PROVE  AccountsInv'
  BY <1>3, FundsAccounts
<1>4. ASSUME NEW pair \in Pairs, AddTradingPair(pair) \/ RemoveTradingPair(pair)
      PROVE  AccountsInv'
  BY <1>4, AddTradingPairAccounts, RemoveTradingPairAccounts
<1>5. ASSUME NEW pair \in Pairs, NEW o \in NewOrder, SubmitOrder(pair, o)
      PROVE  AccountsInv'
  BY <1>5, SubmitOrderAccounts
<1>6. ASSUME NEW pair \in Pairs, NEW id \in OrderIds, CancelAndUnlock(pair, id)
      PROVE  AccountsInv'
  BY <1>6, CancelAccounts
<1>7. ASSUME NEW pair \in Pairs, NEW id \in OrderIds, NEW price \in Prices, NEW qty \in Quantities,
             ModifyOrder(pair, id, price, qty)
      PROVE  AccountsInv'
  BY <1>7, ModifyAccounts
<1>8. CASE MatchStep
  BY <1>8, MatchAccounts
<1>9. CASE SettleTrade
  BY <1>9, SettleAccounts
<1>10. CASE Answer
  BY <1>10, AnswerAccounts
<1>. QED
  BY <1>1, <1>2, <1>3, <1>4, <1>5, <1>6, <1>7, <1>8, <1>9, <1>10 DEF EngineNext

(* The invariants of the books and of the accounts hold together.          *)
THEOREM AccountsInvariant == EngineSpec => [](BookInv /\ WalkInv /\ AccountsInv)
<1>1. BookInv /\ WalkInv /\ AccountsInv /\ [EngineNext]_engineVars
        => (BookInv /\ WalkInv /\ AccountsInv)'
  BY EngineBooks, EngineAccounts
<1>. QED
  BY <1>1, InitAccounts, PTL DEF EngineSpec

(* Every variable of the engine has its type, and a balance stays within a *)
(* Quantity through deposits, withdrawals and settlement.                  *)
THEOREM EngineTypeCorrect == EngineSpec => []EngineTypeOK
<1>1. BookInv /\ AccountsInv => EngineTypeOK
  BY TypedIsTypeOK DEF BookInv, AccountsInv, AccountsOK, CallsOK, EngineTypeOK, Fits, Held
<1>. QED
  BY <1>1, AccountsInvariant, PTL

(* A user the engine has removed has no order in any book and nothing      *)
(* locked, and a pair it has removed has no orders.                        *)
THEOREM RemovedLeaveNothing == EngineSpec => []NothingOfTheRemoved
<1>1. AccountsInv => NothingOfTheRemoved
  BY DEF AccountsInv, Registered, NothingOfTheRemoved
<1>. QED
  BY <1>1, AccountsInvariant, PTL

(* No user ever has more locked of an asset than the balance holds, through*)
(* any sequence of orders, modifications, fills, withdrawals and removals. *)
THEOREM LocksNeverExceedFunds == EngineSpec => []LockedWithinBalance
<1>1. AccountsInv => LockedWithinBalance
  BY DEF AccountsInv, AccountsOK, Fits, LockedWithinBalance, LockedBalance
<1>. QED
  BY <1>1, AccountsInvariant, PTL

-----------------------------------------------------------------------------
(* What the trades of a call still take from the locks                     *)

(* What a trade debits the order on a side, and which order that is.       *)
Debit(side, t) == IF side = "Buy" THEN t.price * t.qty ELSE t.qty
Party(side, t) == IF side = "Buy" THEN t.bid ELSE t.ask

(* The debits of an order by the trades after the n-th.                    *)
Debits(ts, side) == [k \in DOMAIN ts |-> Debit(side, ts[k])]
Unsettled(ts, n, side, id) == {k \in DOMAIN ts : k > n /\ Party(side, ts[k]) = id}
Owed(ts, n, side, id) == SumFunctionOnSet(Debits(ts, side), Unsettled(ts, n, side, id))

(* What a trade adds to that.                                              *)
Share(side, t, id) == IF Party(side, t) = id THEN Debit(side, t) ELSE 0

(* A debit is a natural number, and so is what is owed.                    *)
LEMMA OwedType ==
  ASSUME NEW ts \in Seq(Trade), NEW n, NEW side, NEW id
  PROVE  /\ \A k \in DOMAIN ts : ts[k] \in Trade /\ Debit(side, ts[k]) \in Nat
         /\ IsFiniteSet(DOMAIN ts) /\ IsFiniteSet(Unsettled(ts, n, side, id))
         /\ \A k \in DOMAIN ts : Debits(ts, side)[k] = Debit(side, ts[k])
         /\ Owed(ts, n, side, id) \in Nat
<1>1. DOMAIN ts = 1..Len(ts) /\ Len(ts) \in Nat
  BY LenProperties
<1>2. IsFiniteSet(DOMAIN ts) /\ IsFiniteSet(Unsettled(ts, n, side, id))
  <2>1. Unsettled(ts, n, side, id) \subseteq DOMAIN ts
    BY DEF Unsettled
  <2>2. IsFiniteSet(DOMAIN ts)
    BY <1>1, FS_Interval
  <2>. QED
    BY <2>1, <2>2, FS_Subset
<1>3. ASSUME NEW k \in DOMAIN ts
      PROVE  ts[k] \in Trade /\ Debit(side, ts[k]) \in Nat
  <2>1. ts[k] \in Trade
    BY ElementOfSeq, LenProperties
  <2>2. ts[k].price \in Nat /\ ts[k].qty \in Nat
    BY <2>1, PricesAssumption DEF Trade
  <2>3. ts[k].price * ts[k].qty \in Nat
    BY <2>2
  <2>. QED
    BY <2>1, <2>2, <2>3 DEF Debit
<1>4. \A k \in DOMAIN ts : Debits(ts, side)[k] = Debit(side, ts[k])
  BY DEF Debits
<1>5. \A k \in Unsettled(ts, n, side, id) : Debits(ts, side)[k] \in Nat
  BY <1>3, <1>4 DEF Unsettled
<1>6. Owed(ts, n, side, id) \in Nat
  BY <1>2, <1>5, SumOfNaturals DEF Owed
<1>. QED
  BY <1>2, <1>3, <1>4, <1>6

(* Nothing is owed once every trade is settled.                            *)
LEMMA OwedNothing ==
  ASSUME NEW ts \in Seq(Trade), NEW n \in Nat, n >= Len(ts), NEW side, NEW id
  PROVE  Owed(ts, n, side, id) = 0
<1>1. DOMAIN ts = 1..Len(ts) /\ Len(ts) \in Nat
  BY LenProperties
<1>2. Unsettled(ts, n, side, id) = {}
  BY <1>1 DEF Unsettled
<1>. QED
  BY <1>2, SumOverNone DEF Owed

(* A trade more adds its share.                                            *)
LEMMA OwedMore ==
  ASSUME NEW ts \in Seq(Trade), NEW n \in Nat, n <= Len(ts), NEW t \in Trade,
         NEW side, NEW id
  PROVE  Owed(Append(ts, t), n, side, id) = Owed(ts, n, side, id) + Share(side, t, id)
<1>. DEFINE more == Append(ts, t)
            last == Len(ts) + 1
            S == Unsettled(ts, n, side, id)
            T == Unsettled(more, n, side, id)
            f == Debits(ts, side)
            g == Debits(more, side)
<1>1. /\ more \in Seq(Trade) /\ more[last] = t /\ last \in DOMAIN more /\ last \notin DOMAIN ts
      /\ last > n /\ DOMAIN more = DOMAIN ts \cup {last}
      /\ \A k \in DOMAIN ts : more[k] = ts[k]
  BY AppendProperties, LenProperties
<1>. HIDE DEF more
<1>2. /\ IsFiniteSet(S) /\ (\A k \in S : f[k] = g[k] /\ f[k] \in Nat) /\ last \notin S
      /\ (\A k \in T : g[k] \in Nat) /\ g[last] = Debit(side, t) /\ g[last] \in Nat
  <2>1. /\ IsFiniteSet(Unsettled(ts, n, side, id))
        /\ \A k \in DOMAIN ts : Debit(side, ts[k]) \in Nat /\ Debits(ts, side)[k] = Debit(side, ts[k])
    BY OwedType
  <2>2. \A k \in DOMAIN more : /\ Debit(side, more[k]) \in Nat
                               /\ Debits(more, side)[k] = Debit(side, more[k])
    BY <1>1, OwedType
  <2>3. S \subseteq DOMAIN ts /\ T \subseteq DOMAIN more
    BY DEF Unsettled
  <2>. HIDE DEF last
  <2>. QED
    BY <1>1, <2>1, <2>2, <2>3
<1>3. T = IF Party(side, t) = id THEN S \cup {last} ELSE S
  BY <1>1 DEF Unsettled
<1>4. /\ Owed(ts, n, side, id) = SumFunctionOnSet(f, S)
      /\ Owed(Append(ts, t), n, side, id) = SumFunctionOnSet(g, T)
  BY DEF Owed, more
<1>5. Owed(ts, n, side, id) \in Nat
  BY OwedType
<1>. HIDE DEF S, T, f, g, last
<1>6. SumFunctionOnSet(g, S) = SumFunctionOnSet(f, S)
  BY <1>2, SumIsOfTheSame
<1>7. CASE Party(side, t) = id
  <2>1. T = S \cup {last} /\ \A k \in S \cup {last} : g[k] \in Int
    BY <1>2, <1>3, <1>7
  <2>2. SumFunctionOnSet(g, S \cup {last}) = g[last] + SumFunctionOnSet(g, S)
    BY <1>2, <2>1, SumInserted
  <2>. QED
    BY <1>2, <1>4, <1>5, <1>6, <1>7, <2>1, <2>2 DEF Share
<1>8. CASE Party(side, t) # id
  <2>1. T = S /\ Share(side, t, id) = 0
    BY <1>3, <1>8 DEF Share
  <2>. QED
    BY <1>4, <1>5, <1>6, <2>1
<1>. QED
  BY <1>7, <1>8

(* A trade settled takes its share away.                                   *)
LEMMA OwedLess ==
  ASSUME NEW ts \in Seq(Trade), NEW n \in Nat, n + 1 <= Len(ts), NEW side, NEW id
  PROVE  Owed(ts, n, side, id) = Owed(ts, n + 1, side, id) + Share(side, ts[n + 1], id)
<1>. DEFINE next == n + 1
            S == Unsettled(ts, next, side, id)
            T == Unsettled(ts, n, side, id)
            f == Debits(ts, side)
<1>1. next \in DOMAIN ts /\ DOMAIN ts = 1..Len(ts) /\ Len(ts) \in Nat
  BY LenProperties
<1>2. /\ IsFiniteSet(S) /\ (\A k \in T : f[k] \in Nat) /\ next \notin S
      /\ f[next] = Debit(side, ts[next]) /\ f[next] \in Nat
  <2>1. /\ IsFiniteSet(Unsettled(ts, next, side, id))
        /\ \A k \in DOMAIN ts : Debit(side, ts[k]) \in Nat /\ Debits(ts, side)[k] = Debit(side, ts[k])
    BY OwedType
  <2>2. T \subseteq DOMAIN ts /\ next \notin S
    BY DEF Unsettled
  <2>. QED
    BY <1>1, <2>1, <2>2
<1>3. T = IF Party(side, ts[next]) = id THEN S \cup {next} ELSE S
  BY <1>1 DEF Unsettled
<1>4. Owed(ts, next, side, id) = SumFunctionOnSet(f, S) /\ Owed(ts, n, side, id) = SumFunctionOnSet(f, T)
  BY DEF Owed
<1>5. Owed(ts, next, side, id) \in Nat
  BY OwedType
<1>. HIDE DEF S, T, f
<1>6. CASE Party(side, ts[next]) = id
  <2>1. T = S \cup {next} /\ \A k \in S \cup {next} : f[k] \in Int
    BY <1>2, <1>3, <1>6
  <2>. HIDE DEF next
  <2>2. SumFunctionOnSet(f, S \cup {next}) = f[next] + SumFunctionOnSet(f, S)
    BY <1>2, <2>1, SumInserted
  <2>3. Owed(ts, n, side, id) = Owed(ts, next, side, id) + Share(side, ts[next], id)
    BY <1>2, <1>4, <1>5, <1>6, <2>1, <2>2 DEF Share
  <2>. QED
    BY <2>3 DEF next
<1>7. CASE Party(side, ts[next]) # id
  <2>1. T = S /\ Share(side, ts[next], id) = 0
    BY <1>3, <1>7 DEF Share
  <2>. QED
    BY <1>4, <1>5, <2>1
<1>. QED
  BY <1>6, <1>7

(* What is owed covers the share of every trade that is left.              *)
LEMMA OwedCovers ==
  ASSUME NEW ts \in Seq(Trade), NEW n, NEW k \in DOMAIN ts, k > n, NEW side, NEW id,
         Party(side, ts[k]) = id
  PROVE  Debit(side, ts[k]) <= Owed(ts, n, side, id)
<1>. DEFINE S == Unsettled(ts, n, side, id)
            f == Debits(ts, side)
<1>1. k \in S /\ IsFiniteSet(S) /\ f[k] = Debit(side, ts[k]) /\ \A i \in S : f[i] \in Nat
  <2>1. /\ IsFiniteSet(Unsettled(ts, n, side, id))
        /\ \A i \in DOMAIN ts : Debit(side, ts[i]) \in Nat /\ Debits(ts, side)[i] = Debit(side, ts[i])
    BY OwedType
  <2>2. S \subseteq DOMAIN ts /\ k \in S
    BY DEF Unsettled
  <2>. QED
    BY <2>1, <2>2
<1>2. Owed(ts, n, side, id) = SumFunctionOnSet(f, S)
  BY DEF Owed
<1>. HIDE DEF S, f
<1>3. SumFunctionOnSet(f, S) = f[k] + SumFunctionOnSet(f, S \ {k})
  BY <1>1, SumWithout
<1>4. IsFiniteSet(S \ {k}) /\ \A i \in S \ {k} : f[i] \in Nat
  BY <1>1, FS_Subset
<1>5. SumFunctionOnSet(f, S \ {k}) \in Nat
  BY <1>4, SumOfNaturals
<1>. QED
  BY <1>1, <1>2, <1>3, <1>5

-----------------------------------------------------------------------------
(* The ledger: what every lock is for                                      *)

Due(side, id) == Owed(trades, settled, side, id)

Holds(user, id, amount) ==
  id \in DOMAIN locks[user] /\ amount <= locks[user][id].amount

(* Whose order an id has been given to.                                    *)
Owner(user, side, pair) == [user |-> user, side |-> side, pair |-> pair]

OrdersOwned(own) ==
  \A pair \in Pairs : \A o \in OpenOrders(pair) : own[o.id] = Owner(o.user, o.side, pair)

CallOwned(own) ==
  /\ phase # "idle" => own[taker.id] = Owner(taker.user, taker.side, book)
  /\ \A k \in DOMAIN trades : /\ own[trades[k].bid] = Owner(trades[k].buyer, "Buy", book)
                              /\ own[trades[k].ask] = Owner(trades[k].seller, "Sell", book)

LocksOwned(own) ==
  \A user \in Users : \A id \in DOMAIN locks[user] :
    /\ own[id].user = user /\ own[id].pair \in Pairs /\ own[id].side \in Sides
    /\ locks[user][id].asset = Spends(own[id].pair, own[id].side)

(* An open order's lock covers what the order may still trade and what its *)
(* trades have yet to take; a sell order's holds no more than that.        *)
Needs(o) == Cost(o.side, o.price, o.rem) + Due(o.side, o.id)

OrdersBacked ==
  \A pair \in Pairs : \A o \in OpenOrders(pair) :
    /\ Holds(o.user, o.id, Needs(o))
    /\ o.side = "Sell" => locks[o.user][o.id].amount = Needs(o)

(* The locks of both parties cover every trade that is to be settled.      *)
TradesBacked ==
  \A k \in DOMAIN trades : k > settled =>
    /\ Holds(trades[k].buyer, trades[k].bid, Due("Buy", trades[k].bid))
    /\ Holds(trades[k].seller, trades[k].ask, Due("Sell", trades[k].ask))

(* The call's order never came in, or it is over and does not stay.        *)
Over == phase = "rejected" \/ (phase = "matched" /\ ~Rests(taker))
Dropped(id) ==
  id = taker.id /\ (phase = "rejected" \/ (phase = "matched" /\ taker.type = "FAK"))

OverIsGone == Over => \A pair \in Pairs : \A o \in OpenOrders(pair) : o.id # taker.id

(* A seller's lock is that of an open order, to be released by the answer, *)
(* or used up by the trades that are to be settled.                        *)
SellsUsed(own) ==
  phase # "panicked" =>
    \A user \in Users : \A id \in DOMAIN locks[user] : own[id].side = "Sell" =>
      \/ Dropped(id)
      \/ \E o \in OpenOrders(own[id].pair) : o.id = id
      \/ locks[user][id].amount = Due("Sell", id)

(* Nobody keeps an empty lock.                                             *)
LocksHold == \A user \in Users : \A id \in DOMAIN locks[user] : locks[user][id].amount > 0

(* The engine has panicked over the trade it was to settle.                *)
PanicOfSettlement ==
  phase = "panicked" => settled < Len(trades) /\ ~SettlesWell(trades[settled + 1])

Ledger(own) ==
  /\ OrdersOwned(own) /\ CallOwned(own) /\ LocksOwned(own)
  /\ OrdersBacked /\ TradesBacked /\ OverIsGone /\ SellsUsed(own) /\ LocksHold
  /\ PanicOfSettlement

(* What the owners say, field by field.                                    *)
LEMMA Owners ==
  ASSUME NEW own, Ledger(own)
  PROVE  /\ \A pair \in Pairs : \A o \in OpenOrders(pair) :
              own[o.id].user = o.user /\ own[o.id].side = o.side /\ own[o.id].pair = pair
         /\ phase # "idle" =>
              /\ own[taker.id].user = taker.user /\ own[taker.id].side = taker.side
              /\ own[taker.id].pair = book
         /\ \A k \in DOMAIN trades :
              /\ own[trades[k].bid].user = trades[k].buyer /\ own[trades[k].bid].side = "Buy"
              /\ own[trades[k].bid].pair = book
              /\ own[trades[k].ask].user = trades[k].seller /\ own[trades[k].ask].side = "Sell"
              /\ own[trades[k].ask].pair = book
<1>1. OrdersOwned(own) /\ CallOwned(own)
  BY DEF Ledger
<1>2. \A user, side, pair : /\ Owner(user, side, pair).user = user
                           /\ Owner(user, side, pair).side = side
                           /\ Owner(user, side, pair).pair = pair
  BY DEF Owner
<1>. QED
  BY <1>1, <1>2 DEF OrdersOwned, CallOwned

(* Nothing is due where every trade has been settled.                      *)
NothingDue == \A side, id : Due(side, id) = 0

(* So it is between two calls, and after the last settlement of one.       *)
LEMMA NothingIsDue ==
  /\ BookInv /\ AccountsInv /\ settled = Len(trades) => NothingDue
  /\ BookInv /\ AccountsInv /\ phase \in {"idle", "rejected"} => NothingDue
<1>1. ASSUME BookInv, AccountsInv, settled = Len(trades)
      PROVE  NothingDue
  <2>1. trades \in Seq(Trade) /\ Len(trades) \in Nat
    BY <1>1, LenProperties DEF BookInv, Typed
  <2>. QED
    BY <1>1, <2>1, OwedNothing DEF NothingDue, Due
<1>2. AccountsInv /\ phase \in {"idle", "rejected"} => settled = Len(trades)
  BY EmptySeq, LenProperties DEF AccountsInv, CallsOK
<1>. QED
  BY <1>1, <1>2

(* ... in the next state, too.                                             *)
LEMMA NothingIsDueNext ==
  BookInv' /\ AccountsInv' /\ phase' \in {"idle", "walk", "rejected"} /\ trades' = << >> => NothingDue'
<1>1. BookInv /\ AccountsInv /\ trades = << >> => NothingDue
  BY NothingIsDue, EmptySeq, LenProperties DEF AccountsInv, CallsOK
<1>2. (BookInv /\ AccountsInv /\ trades = << >>)' => NothingDue'
  BY <1>1, PTL
<1>. QED
  BY <1>2

(* What open orders are.                                                   *)
OpenTyped ==
  \A pair \in Pairs : \A o \in OpenOrders(pair) :
    /\ o \in Order /\ o.id \in OrderIds /\ o.user \in Users /\ o.side \in Sides
    /\ o.price \in Nat \ {0} /\ o.rem \in Nat \ {0} /\ Cost(o.side, o.price, o.rem) \in Nat \ {0}

(* A price and a quantity that are positive cost something.                *)
LEMMA Positive ==
  ASSUME NEW price \in Nat \ {0}, NEW qty \in Nat \ {0}, NEW side
  PROVE  Cost(side, price, qty) \in Nat \ {0}
<1>1. price * qty \in Nat /\ price * qty # 0
  OBVIOUS
<1>. QED
  BY <1>1 DEF Cost

(* The invariant of the books says so.                                     *)
LEMMA OpenAreTyped == BookInv => OpenTyped
<1>. SUFFICES ASSUME BookInv, NEW pair \in Pairs, NEW o \in OpenOrders(pair)
              PROVE  /\ o \in Order /\ o.id \in OrderIds /\ o.user \in Users /\ o.side \in Sides
                     /\ o.price \in Nat \ {0} /\ o.rem \in Nat \ {0}
                     /\ Cost(o.side, o.price, o.rem) \in Nat \ {0}
  BY DEF OpenTyped
<1>1. o \in Order /\ o.rem > 0
  BY OpenOnce
<1>2. /\ o.id \in OrderIds /\ o.user \in Users /\ o.side \in Sides
      /\ o.price \in Nat \ {0} /\ o.rem \in Nat \ {0}
  <2>1. /\ o.id \in OrderIds /\ o.user \in Users /\ o.side \in Sides
        /\ o.price \in Prices /\ o.rem \in Nat
    BY <1>1 DEF Order
  <2>2. o.price \in Nat \ {0}
    BY <2>1, PricesAssumption
  <2>3. o.rem \in Nat \ {0}
    BY <1>1, <2>1
  <2>. QED
    BY <2>1, <2>2, <2>3
<1>. DEFINE price == o.price
            qty == o.rem
<1>3. price \in Nat \ {0} /\ qty \in Nat \ {0}
  BY <1>2
<1>. HIDE DEF price, qty
<1>4. Cost(o.side, price, qty) \in Nat \ {0}
  BY <1>3, Positive
<1>. QED
  BY <1>1, <1>2, <1>4 DEF price, qty

(* ... in the next state.                                                  *)
LEMMA OpenAreTypedNext == BookInv' => OpenTyped'
BY OpenAreTyped, PTL

(* A call ends, or none is in progress, and orders and locks go away: an   *)
(* order that stays keeps its lock, and a seller's lock that stays keeps   *)
(* its order.                                                              *)
LEMMA LedgerThins ==
  ASSUME BookInv', AccountsInv', NEW own, Ledger(own), NothingDue,
         phase' = "idle", trades' = << >>, phase # "panicked",
         \A b \in Pairs : \A o : o \in OpenOrders(b)' => o \in OpenOrders(b),
         \A user \in Users : \A id \in DOMAIN locks'[user] :
           id \in DOMAIN locks[user] /\ locks'[user][id] = locks[user][id],
         \A b \in Pairs : \A o : o \in OpenOrders(b)' => o.id \in DOMAIN locks'[o.user],
         \A user \in Users : \A id \in DOMAIN locks'[user] : own[id].side = "Sell" =>
           /\ ~Dropped(id)
           /\ \A o \in OpenOrders(own[id].pair) : o.id = id => o \in OpenOrders(own[id].pair)'
  PROVE  Ledger(own)'
<1>1. NothingDue' /\ OpenTyped'
  BY NothingIsDueNext, OpenAreTypedNext
<1>2. OrdersOwned(own)'
  BY DEF Ledger, OrdersOwned
<1>3. CallOwned(own)' /\ TradesBacked' /\ OverIsGone' /\ PanicOfSettlement'
  BY EmptySeq, LenProperties DEF CallOwned, TradesBacked, OverIsGone, Over, PanicOfSettlement
<1>4. LocksOwned(own)' /\ LocksHold'
  BY DEF Ledger, LocksOwned, LocksHold
<1>5. ASSUME NEW b \in Pairs, NEW o \in OpenOrders(b)'
      PROVE  /\ Holds(o.user, o.id, Needs(o))'
             /\ o.side = "Sell" => locks'[o.user][o.id].amount = Needs(o)'
  <2>1. /\ o \in OpenOrders(b) /\ o.id \in DOMAIN locks'[o.user] /\ o.user \in Users
        /\ o.id \in DOMAIN locks[o.user] /\ locks'[o.user][o.id] = locks[o.user][o.id]
    BY <1>1 DEF OpenTyped
  <2>2. Needs(o)' = Needs(o)
    BY <1>1 DEF Needs, NothingDue
  <2>. QED
    BY <2>1, <2>2 DEF Ledger, OrdersBacked, Holds
<1>6. OrdersBacked'
  BY <1>5 DEF OrdersBacked
<1>7. ASSUME NEW user \in Users, NEW id \in DOMAIN locks'[user], own[id].side = "Sell"
      PROVE  \/ \E o \in OpenOrders(own[id].pair)' : o.id = id
             \/ locks'[user][id].amount = Due("Sell", id)'
  <2>1. /\ id \in DOMAIN locks[user] /\ locks'[user][id] = locks[user][id] /\ ~Dropped(id)
        /\ \A o \in OpenOrders(own[id].pair) : o.id = id => o \in OpenOrders(own[id].pair)'
    BY <1>7
  <2>2. \/ \E o \in OpenOrders(own[id].pair) : o.id = id
        \/ locks[user][id].amount = Due("Sell", id)
    BY <1>7, <2>1 DEF Ledger, SellsUsed
  <2>. QED
    BY <1>1, <2>1, <2>2 DEF NothingDue
<1>8. SellsUsed(own)'
  BY <1>7 DEF SellsUsed
<1>. QED
  BY <1>2, <1>3, <1>4, <1>6, <1>8 DEF Ledger

(* Orders, locks and trades stay what they are.                            *)
LEMMA LedgerAlone ==
  ASSUME BookInv, NEW own, Ledger(own), UNCHANGED <<book, taker, trades, settled, locks>>,
         phase \in {"walk", "level", "idle"}, phase' \in {"walk", "level", "idle"},
         phase' # "idle" => phase # "idle",
         \A b \in Pairs : OpenOrders(b)' = OpenOrders(b)
  PROVE  Ledger(own)'
<1>1. \A side, id : Due(side, id)' = Due(side, id)
  BY DEF Due
<1>2. OrdersOwned(own)' /\ CallOwned(own)' /\ LocksOwned(own)' /\ LocksHold'
  BY DEF Ledger, OrdersOwned, CallOwned, LocksOwned, LocksHold
<1>3. OrdersBacked' /\ TradesBacked'
  BY <1>1 DEF Ledger, OrdersBacked, TradesBacked, Holds, Needs
<1>4. OverIsGone' /\ PanicOfSettlement'
  BY DEF OverIsGone, Over, PanicOfSettlement
<1>5. ASSUME NEW user \in Users, NEW id \in DOMAIN locks[user], own[id].side = "Sell"
      PROVE  \/ \E o \in OpenOrders(own[id].pair)' : o.id = id
             \/ locks'[user][id].amount = Due("Sell", id)'
  <2>1. own[id].pair \in Pairs /\ ~Dropped(id)
    BY <1>5 DEF Ledger, LocksOwned, Dropped
  <2>. QED
    BY <1>1, <1>5, <2>1 DEF Ledger, SellsUsed
<1>6. SellsUsed(own)'
  BY <1>5 DEF SellsUsed
<1>. QED
  BY <1>2, <1>3, <1>4, <1>6 DEF Ledger

(* The ledger of the first state.                                          *)
LEMMA InitLedger == EngineInit => \E own : Ledger(own)
<1>. SUFFICES ASSUME EngineInit, NEW own PROVE Ledger(own)
  OBVIOUS
<1>1. BookInv /\ phase = "idle" /\ trades = << >>
  BY InitAccounts DEF EngineInit, Init
<1>2. \A b \in Pairs : OpenOrders(b) = {}
  BY InitOpens DEF EngineInit, Abstract!Init
<1>3. \A user \in Users : DOMAIN locks[user] = {}
  BY DEF EngineInit
<1>. QED
  BY <1>1, <1>2, <1>3, EmptySeq, LenProperties
     DEF Ledger, OrdersOwned, CallOwned, LocksOwned, OrdersBacked, TradesBacked, OverIsGone, Over,
         SellsUsed, LocksHold, PanicOfSettlement

(* The ids an order's map and its queues know are the same: an order the   *)
(* map knows is open, and an open order that rests is known to the map.    *)
LEMMA KnownIsOpen ==
  ASSUME BookInv, WalkInv, phase = "idle", NEW pair \in Pairs
  PROVE  /\ \A id \in DOMAIN orders_map[pair] :
              \E o \in OpenOrders(pair) : /\ o.id = id /\ o.user = orders_map[pair][id].user
                                          /\ o.side = orders_map[pair][id].side
         /\ \A o \in OpenOrders(pair) : /\ o.id \in DOMAIN orders_map[pair]
                                        /\ orders_map[pair][o.id].user = o.user
<1>1. /\ Depths(pair) \in Depth /\ Agree(orders_map[pair], Depths(pair)) /\ Typed
      /\ OpenOrders(pair) = OrdersIn(Depths(pair)) /\ orders_map[pair] \in OrdersMap
  <2>1. Typed /\ parked = NoLevels
    BY IdleBooks DEF BookInv
  <2>. QED
    BY <2>1, IdleBooks, UnparkedDepths, DepthsType DEF BookInv, Consistent
<1>2. ASSUME NEW id \in DOMAIN orders_map[pair]
      PROVE  \E o \in OpenOrders(pair) : /\ o.id = id /\ o.user = orders_map[pair][id].user
                                         /\ o.side = orders_map[pair][id].side
  <2>. DEFINE old == orders_map[pair][id]
              queue == Depths(pair)[old.side][old.price]
  <2>1. PICK i \in DOMAIN queue : queue[i].id = id
    BY <1>1 DEF Agree, Standing
  <2>2. old.side \in Sides /\ old.price \in Prices
    BY <1>1, OrdersMapIsOrdersMap DEF IsOrdersMap, Order
  <2>3. queue[i] \in OpenOrders(pair)
    BY <1>1, <2>1, <2>2, EntriesOf
  <2>4. Known(orders_map[pair], old.side, old.price, queue[i])
    BY <1>1, <2>1, <2>2 DEF Agree, AllKnown
  <2>5. queue[i] \in Order
    BY <1>1, <2>3, EntriesOf
  <2>. HIDE DEF queue
  <2>6. queue[i].user = old.user /\ queue[i].side = old.side
    BY <2>1, <2>4, <2>5 DEF Known, Order
  <2>. QED
    BY <2>1, <2>3, <2>6
<1>3. ASSUME NEW o \in OpenOrders(pair)
      PROVE  o.id \in DOMAIN orders_map[pair] /\ orders_map[pair][o.id].user = o.user
  BY <1>1, QueuedOrder
<1>. QED
  BY <1>2, <1>3

(* Steps that neither books nor locks can tell.                            *)
LEMMA QuietLedger ==
  ASSUME BookInv, WalkInv, NEW own, Ledger(own), UNCHANGED <<vars, settled, locks>>, phase = "idle"
  PROVE  Ledger(own)'
BY BooksAlone, LedgerAlone DEF vars

(* Removing a user.                                                        *)
LEMMA RemoveUserLedger ==
  ASSUME BookInv, WalkInv, AccountsInv, BookInv', AccountsInv', NEW own, Ledger(own),
         NEW user \in Users, RemoveUser(user)
  PROVE  Ledger(own)'
<1>1. /\ phase = "idle" /\ phase' = "idle" /\ trades' = << >>
      /\ \A b \in Pairs : OpenOrders(b)' = {o \in OpenOrders(b) : o.user # user}
  BY RemoveUserBooks DEF RemoveUser, callVars, AccountsInv, CallsOK
<1>2. NothingDue /\ OpenTyped
  BY <1>1, NothingIsDue, OpenAreTyped
<1>3. \A u \in Users : locks'[u] = IF u = user THEN [id \in {} |-> Nil] ELSE locks[u]
  BY DEF RemoveUser, AccountsInv, AccountsOK
<1>4. \A u \in Users : \A id \in DOMAIN locks'[u] :
        u # user /\ id \in DOMAIN locks[u] /\ locks'[u][id] = locks[u][id]
  BY <1>3
<1>5. \A b \in Pairs : \A o : o \in OpenOrders(b)' => o.id \in DOMAIN locks'[o.user]
  BY <1>1, <1>2, <1>3 DEF Ledger, OrdersBacked, Holds, OpenTyped
<1>6. ASSUME NEW u \in Users, NEW id \in DOMAIN locks'[u], own[id].side = "Sell"
      PROVE  /\ ~Dropped(id)
             /\ \A o \in OpenOrders(own[id].pair) : o.id = id => o \in OpenOrders(own[id].pair)'
  <2>1. own[id].user = u /\ own[id].pair \in Pairs /\ u # user
    BY <1>4 DEF Ledger, LocksOwned
  <2>2. \A o \in OpenOrders(own[id].pair) : o.id = id => o.user = u
    BY <2>1, Owners
  <2>. QED
    BY <1>1, <2>1, <2>2 DEF Dropped
<1>7. \A b \in Pairs : \A o : o \in OpenOrders(b)' => o \in OpenOrders(b)
  BY <1>1
<1>. QED
  BY <1>1, <1>2, <1>4, <1>5, <1>6, <1>7, LedgerThins

(* Removing a trading pair.                                                *)
LEMMA RemoveTradingPairLedger ==
  ASSUME BookInv, WalkInv, AccountsInv, BookInv', AccountsInv', NEW own, Ledger(own),
         NEW pair \in Pairs, RemoveTradingPair(pair)
  PROVE  Ledger(own)'
<1>1. /\ phase = "idle" /\ phase' = "idle" /\ trades' = << >>
      /\ \A b \in Pairs : OpenOrders(b)' = IF b = pair THEN {} ELSE OpenOrders(b)
  BY RemoveTradingPairBooks DEF RemoveTradingPair, callVars, AccountsInv, CallsOK
<1>2. NothingDue /\ OpenTyped
  BY <1>1, NothingIsDue, OpenAreTyped
<1>3. \A u \in Users : \A id :
        /\ id \in DOMAIN locks'[u] <=>
             /\ id \in DOMAIN locks[u]
             /\ ~(id \in DOMAIN orders_map[pair] /\ orders_map[pair][id].user = u)
        /\ id \in DOMAIN locks'[u] => locks'[u][id] = locks[u][id]
  BY DEF RemoveTradingPair, Unlocked
<1>4. /\ \A id \in DOMAIN orders_map[pair] :
           \E o \in OpenOrders(pair) : o.id = id /\ o.user = orders_map[pair][id].user
      /\ \A o \in OpenOrders(pair) : /\ o.id \in DOMAIN orders_map[pair]
                                     /\ orders_map[pair][o.id].user = o.user
  BY <1>1, KnownIsOpen
<1>5. ASSUME NEW b \in Pairs, NEW o, o \in OpenOrders(b)'
      PROVE  o.id \in DOMAIN locks'[o.user]
  <2>1. b # pair /\ o \in OpenOrders(b) /\ o.user \in Users /\ o.id \in DOMAIN locks[o.user]
    BY <1>1, <1>2, <1>5 DEF Ledger, OrdersBacked, Holds, OpenTyped
  <2>2. o.id \notin DOMAIN orders_map[pair]
    <3>1. own[o.id].pair = b
      BY <2>1, Owners
    <3>2. \A other \in OpenOrders(pair) : own[other.id].pair = pair
      BY Owners
    <3>. QED
      BY <1>4, <2>1, <3>1, <3>2
  <2>. QED
    BY <1>3, <2>1, <2>2
<1>6. ASSUME NEW u \in Users, NEW id \in DOMAIN locks'[u], own[id].side = "Sell"
      PROVE  /\ ~Dropped(id)
             /\ \A o \in OpenOrders(own[id].pair) : o.id = id => o \in OpenOrders(own[id].pair)'
  <2>1. own[id].user = u /\ own[id].pair \in Pairs
    BY <1>3 DEF Ledger, LocksOwned
  <2>2. \A o \in OpenOrders(own[id].pair) : o.id = id => o.user = u
    BY <2>1, Owners
  <2>3. ~(id \in DOMAIN orders_map[pair] /\ orders_map[pair][id].user = u)
    BY <1>3
  <2>4. own[id].pair = pair => \A o \in OpenOrders(own[id].pair) : o.id # id
    BY <1>4, <2>2, <2>3
  <2>. QED
    BY <1>1, <2>1, <2>4 DEF Dropped
<1>7. \A b \in Pairs : \A o : o \in OpenOrders(b)' => o \in OpenOrders(b)
  BY <1>1
<1>. QED
  BY <1>1, <1>2, <1>3, <1>5, <1>6, <1>7, LedgerThins

(* An order goes away with its lock, whether it is cancelled or could not  *)
(* be placed again.                                                        *)
LEMMA GoneLedger ==
  ASSUME BookInv, WalkInv, AccountsInv, BookInv', AccountsInv', NEW own, Ledger(own),
         NEW pair \in Pairs, NEW id \in DOMAIN orders_map[pair],
         phase = "idle", phase' = "idle", trades' = << >>,
         NEW user, user = orders_map[pair][id].user,
         NEW gone, \A i : i \in gone <=> i = id,
         locks' = [locks EXCEPT ![user] = Unlocked(locks[user], gone)],
         \A b \in Pairs : \A o : o \in OpenOrders(b)' <=> o \in OpenOrders(b) /\ (b = pair => o.id # id)
  PROVE  Ledger(own)'
<1>1. NothingDue /\ OpenTyped
  BY NothingIsDue, OpenAreTyped
<1>2. PICK x \in OpenOrders(pair) : x.id = id /\ x.user = user
  BY KnownIsOpen
<1>3. own[id].user = user /\ own[id].pair = pair
  BY <1>2, Owners
<1>4. user \in Users
  BY <1>1, <1>2 DEF OpenTyped
<1>5. \A u \in Users : \A i :
        /\ i \in DOMAIN locks'[u] <=> i \in DOMAIN locks[u] /\ ~(u = user /\ i = id)
        /\ i \in DOMAIN locks'[u] => locks'[u][i] = locks[u][i]
  BY <1>4 DEF Unlocked, AccountsInv, AccountsOK
<1>6. ASSUME NEW b \in Pairs, NEW o, o \in OpenOrders(b)'
      PROVE  o.id \in DOMAIN locks'[o.user]
  <2>1. o \in OpenOrders(b) /\ o.user \in Users /\ o.id \in DOMAIN locks[o.user]
    BY <1>1, <1>6 DEF Ledger, OrdersBacked, Holds, OpenTyped
  <2>2. own[o.id].pair = b
    BY <2>1, Owners
  <2>3. o.id # id
    BY <1>3, <1>6, <2>2
  <2>. QED
    BY <1>5, <2>1, <2>3
<1>7. ASSUME NEW u \in Users, NEW i \in DOMAIN locks'[u], own[i].side = "Sell"
      PROVE  /\ ~Dropped(i)
             /\ \A o \in OpenOrders(own[i].pair) : o.id = i => o \in OpenOrders(own[i].pair)'
  <2>1. own[i].user = u /\ own[i].pair \in Pairs
    BY <1>5 DEF Ledger, LocksOwned
  <2>2. i # id
    BY <1>3, <1>5, <2>1
  <2>. QED
    BY <2>1, <2>2 DEF Dropped
<1>. QED
  BY <1>1, <1>5, <1>6, <1>7, LedgerThins

(* Cancelling an order.                                                    *)
LEMMA CancelLedger ==
  ASSUME BookInv, WalkInv, AccountsInv, BookInv', AccountsInv', NEW own, Ledger(own),
         NEW pair \in Pairs, NEW id \in OrderIds, CancelAndUnlock(pair, id)
  PROVE  Ledger(own)'
<1>. DEFINE user == orders_map[pair][id].user
            gone == {id}
<1>1. /\ CancelOrder(pair, id) /\ phase = "idle" /\ phase' = "idle" /\ trades' = << >>
      /\ id \in DOMAIN orders_map[pair]
      /\ locks' = [locks EXCEPT ![user] = Unlocked(locks[user], gone)]
  BY DEF CancelAndUnlock, CancelOrder, callVars, AccountsInv, CallsOK
<1>2. \A i : i \in gone <=> i = id
  OBVIOUS
<1>3. \A b \in Pairs : OpenOrders(b)' = {o \in OpenOrders(b) : b = pair => o.id # id}
  BY <1>1, CancelBooks
<1>4. \A b \in Pairs : \A o : o \in OpenOrders(b)' <=> o \in OpenOrders(b) /\ (b = pair => o.id # id)
  BY <1>3
<1>5. user = orders_map[pair][id].user
  OBVIOUS
<1>. HIDE DEF user, gone
<1>. QED
  BY <1>1, <1>2, <1>4, <1>5, GoneLedger

(* Answering the caller.                                                   *)
LEMMA AnswerLedger ==
  ASSUME BookInv, WalkInv, AccountsInv, BookInv', AccountsInv', NEW own, Ledger(own), Answer
  PROVE  Ledger(own)'
<1>1. /\ phase \in {"rejected", "matched"} /\ phase' = "idle" /\ trades' = << >>
      /\ phase = "matched" => settled = Len(trades)
      /\ Typed /\ Typed'
  BY DEF Answer, Return, BookInv
<1>2. NothingDue /\ OpenTyped
  BY <1>1, NothingIsDue, OpenAreTyped
<1>3. \A b \in Pairs : OpenOrders(b)' = OpenOrders(b)
  BY <1>1, ReturnStays DEF Answer, Open
<1>. DEFINE released == phase = "rejected" \/ taker.type = "FAK"
<1>4. taker \in Order /\ taker.user \in Users
  BY <1>1 DEF Typed, CallOK, Order
<1>5. locks' = IF released THEN [locks EXCEPT ![taker.user] = Unlocked(@, {taker.id})] ELSE locks
  BY DEF Answer
<1>6. \A u \in Users : \A i :
        /\ i \in DOMAIN locks'[u] <=>
             i \in DOMAIN locks[u] /\ ~(released /\ u = taker.user /\ i = taker.id)
        /\ i \in DOMAIN locks'[u] => locks'[u][i] = locks[u][i]
  BY <1>4, <1>5 DEF Unlocked, AccountsInv, AccountsOK
<1>7. ASSUME NEW b \in Pairs, NEW o, o \in OpenOrders(b)'
      PROVE  o.id \in DOMAIN locks'[o.user]
  <2>1. o \in OpenOrders(b) /\ o.user \in Users /\ o.id \in DOMAIN locks[o.user]
    BY <1>2, <1>3, <1>7 DEF Ledger, OrdersBacked, Holds, OpenTyped
  <2>2. released => Over
    BY <1>1 DEF Over, Rests
  <2>3. released => o.id # taker.id
    BY <2>1, <2>2 DEF Ledger, OverIsGone
  <2>. QED
    BY <1>6, <2>1, <2>3
<1>8. ASSUME NEW u \in Users, NEW i \in DOMAIN locks'[u], own[i].side = "Sell"
      PROVE  /\ ~Dropped(i)
             /\ \A o \in OpenOrders(own[i].pair) : o.id = i => o \in OpenOrders(own[i].pair)'
  <2>1. own[i].user = u /\ own[i].pair \in Pairs
    BY <1>6 DEF Ledger, LocksOwned
  <2>2. own[taker.id].user = taker.user
    BY <1>1, Owners
  <2>3. Dropped(i) => released /\ i = taker.id
    BY DEF Dropped
  <2>. QED
    BY <1>3, <1>6, <2>1, <2>2, <2>3
<1>9. /\ \A b \in Pairs : \A o : o \in OpenOrders(b)' => o \in OpenOrders(b)
      /\ \A u \in Users : \A i \in DOMAIN locks'[u] :
           i \in DOMAIN locks[u] /\ locks'[u][i] = locks[u][i]
  BY <1>3, <1>6
<1>. QED
  BY <1>1, <1>2, <1>7, <1>8, <1>9, LedgerThins

(* An order is locked for and comes in, or is refused; any earlier order   *)
(* and lock of that id are gone.                                           *)
LEMMA PlacedLedger ==
  ASSUME BookInv', AccountsInv, AccountsInv', NEW own, Ledger(own), NothingDue,
         NEW pair \in Pairs, NEW o, o.id \in OrderIds, o.user \in Users, o.side \in Sides,
         Cost(o.side, o.price, o.rem) \in Nat \ {0},
         NEW now, now[o.id] = Owner(o.user, o.side, pair),
         \A id \in OrderIds : id # o.id => now[id] = own[id],
         phase = "idle", phase' \in {"walk", "rejected"}, book' = pair, taker' = o,
         trades' = << >>,
         \A user \in Users : \A id :
           id \in DOMAIN locks'[user] <=> IF id = o.id THEN user = o.user ELSE id \in DOMAIN locks[user],
         \A user \in Users : \A id \in DOMAIN locks'[user] :
           id # o.id => locks'[user][id] = locks[user][id],
         locks'[o.user][o.id].asset = Spends(pair, o.side),
         locks'[o.user][o.id].amount = Cost(o.side, o.price, o.rem),
         \A b \in Pairs : \A x :
           x \in OpenOrders(b)' <=> \/ x \in OpenOrders(b) /\ x.id # o.id
                                    \/ b = pair /\ x = o /\ phase' = "walk"
  PROVE  Ledger(now)'
<1>1. NothingDue' /\ OpenTyped'
  BY NothingIsDueNext, OpenAreTypedNext
<1>2. now[o.id].user = o.user /\ now[o.id].side = o.side /\ now[o.id].pair = pair
  BY DEF Owner
<1>3. \A user \in Users : \A id \in DOMAIN locks'[user] :
        id \in OrderIds /\ locks'[user][id].amount \in Nat
  BY AccountsFacts, LockedIsNatural DEF AccountsInv, AccountsOK, Fits, Held, IsLocks, Lock
<1>4. ASSUME NEW b \in Pairs, NEW x \in OpenOrders(b)'
      PROVE  now[x.id] = Owner(x.user, x.side, b)
  <2>1. x.id \in OrderIds
    BY <1>1 DEF OpenTyped
  <2>2. CASE x \in OpenOrders(b) /\ x.id # o.id
    BY <2>1, <2>2 DEF Ledger, OrdersOwned
  <2>3. CASE b = pair /\ x = o
    BY <2>3
  <2>. QED
    BY <2>2, <2>3
<1>5. OrdersOwned(now)'
  BY <1>4 DEF OrdersOwned
<1>6. CallOwned(now)' /\ TradesBacked' /\ PanicOfSettlement'
  BY EmptySeq, LenProperties DEF CallOwned, TradesBacked, PanicOfSettlement
<1>7. OverIsGone'
  BY DEF OverIsGone, Over
<1>8. ASSUME NEW user \in Users, NEW id \in DOMAIN locks'[user]
      PROVE  /\ now[id].user = user /\ now[id].pair \in Pairs /\ now[id].side \in Sides
             /\ locks'[user][id].asset = Spends(now[id].pair, now[id].side)
             /\ locks'[user][id].amount > 0
  <2>1. CASE id = o.id
    BY <1>2, <2>1
  <2>2. CASE id # o.id
    <3>1. now[id] = own[id] /\ id \in DOMAIN locks[user] /\ locks'[user][id] = locks[user][id]
      BY <1>3, <2>2
    <3>. QED
      BY <3>1 DEF Ledger, LocksOwned, LocksHold
  <2>. QED
    BY <2>1, <2>2
<1>9. LocksOwned(now)' /\ LocksHold'
  BY <1>8 DEF LocksOwned, LocksHold
<1>10. ASSUME NEW b \in Pairs, NEW x \in OpenOrders(b)'
       PROVE  /\ Holds(x.user, x.id, Needs(x))'
              /\ x.side = "Sell" => locks'[x.user][x.id].amount = Needs(x)'
  <2>1. x.user \in Users /\ x.id \in OrderIds
    BY <1>1 DEF OpenTyped
  <2>2. CASE x \in OpenOrders(b) /\ x.id # o.id
    <3>1. Needs(x)' = Needs(x)
      BY <1>1 DEF Needs, NothingDue
    <3>2. x.id \in DOMAIN locks[x.user] /\ x.id \in DOMAIN locks'[x.user]
      BY <2>1, <2>2 DEF Ledger, OrdersBacked, Holds
    <3>. QED
      BY <2>1, <2>2, <3>1, <3>2 DEF Ledger, OrdersBacked, Holds
  <2>3. CASE x = o
    <3>1. Needs(x)' = Cost(o.side, o.price, o.rem)
      <4>1. Due(x.side, x.id)' = 0
        BY <1>1 DEF NothingDue
      <4>. QED
        BY <2>3, <4>1 DEF Needs
    <3>. QED
      BY <2>1, <2>3, <3>1 DEF Holds
  <2>. QED
    BY <2>2, <2>3
<1>11. OrdersBacked'
  BY <1>10 DEF OrdersBacked
<1>12. ASSUME NEW user \in Users, NEW id \in DOMAIN locks'[user], now[id].side = "Sell"
       PROVE  \/ Dropped(id)'
              \/ \E x \in OpenOrders(now[id].pair)' : x.id = id
              \/ locks'[user][id].amount = Due("Sell", id)'
  <2>1. CASE id = o.id
    <3>1. phase' = "walk" => o \in OpenOrders(pair)'
      OBVIOUS
    <3>. QED
      BY <1>2, <2>1, <3>1 DEF Dropped
  <2>2. CASE id # o.id
    <3>1. now[id] = own[id] /\ id \in DOMAIN locks[user] /\ locks'[user][id] = locks[user][id]
      BY <1>3, <2>2
    <3>2. own[id].pair \in Pairs
      BY <3>1 DEF Ledger, LocksOwned
    <3>3. ~Dropped(id)
      BY DEF Dropped
    <3>4. CASE \E x \in OpenOrders(own[id].pair) : x.id = id
      BY <2>2, <3>1, <3>2, <3>4
    <3>5. CASE locks[user][id].amount = Due("Sell", id)
      BY <1>1, <3>1, <3>5 DEF NothingDue
    <3>. QED
      BY <1>12, <3>1, <3>3, <3>4, <3>5 DEF Ledger, SellsUsed
  <2>. QED
    BY <2>1, <2>2
<1>13. SellsUsed(now)'
  BY <1>12 DEF SellsUsed
<1>. QED
  BY <1>5, <1>6, <1>7, <1>9, <1>11, <1>13 DEF Ledger

(* Submitting an order.                                                    *)
LEMMA SubmitOrderLedger ==
  ASSUME BookInv, WalkInv, AccountsInv, BookInv', AccountsInv', NEW own, Ledger(own),
         NEW pair \in Pairs, NEW o \in NewOrder, SubmitOrder(pair, o)
  PROVE  \E now : Ledger(now)'
<1>. DEFINE now == [id \in OrderIds |-> IF id = o.id THEN Owner(o.user, o.side, pair) ELSE own[id]]
<1>1. /\ phase = "idle" /\ AddOrder(pair, o) /\ book' = pair /\ taker' = o /\ trades' = << >>
      /\ IF Refused(pair, o) THEN phase' = "rejected" ELSE phase' = "walk"
      /\ Typed'
  BY DEF SubmitOrder, AddOrder, AccountsInv, CallsOK, BookInv
<1>2. NothingDue
  BY <1>1, NothingIsDue
<1>3. o.id \in OrderIds /\ o.user \in Users /\ o.side \in Sides
  BY DEF NewOrder
<1>4. Cost(o.side, o.price, o.rem) \in Nat \ {0}
  <2>. DEFINE price == o.price
              qty == o.rem
  <2>1. price \in Nat \ {0} /\ qty \in Nat \ {0}
    BY PricesAssumption, QuantitiesAssumption DEF NewOrder
  <2>. HIDE DEF price, qty
  <2>2. Cost(o.side, price, qty) \in Nat \ {0}
    BY <2>1, Positive
  <2>. QED
    BY <2>2 DEF price, qty
<1>5. /\ \A user \in Users : o.id \notin DOMAIN locks[user]
      /\ \A b \in Pairs : o.id \notin DOMAIN orders_map[b]
  BY DEF SubmitOrder, Fresh
<1>6. /\ \A user \in Users : \A id :
           id \in DOMAIN locks'[user] <=> IF id = o.id THEN user = o.user ELSE id \in DOMAIN locks[user]
      /\ \A user \in Users : \A id \in DOMAIN locks'[user] :
           id # o.id => locks'[user][id] = locks[user][id]
      /\ locks'[o.user][o.id] = LockFor(pair, o.side, o.price, o.rem)
  <2>1. locks' = [locks EXCEPT ![o.user] = WithLock(@, o.id, LockFor(pair, o.side, o.price, o.rem))]
    BY DEF SubmitOrder
  <2>2. locks = [user \in Users |-> locks[user]]
    BY AccountsFacts DEF AccountsInv
  <2>. QED
    BY <1>3, <1>5, <2>1, <2>2 DEF WithLock
<1>7. /\ locks'[o.user][o.id].asset = Spends(pair, o.side)
      /\ locks'[o.user][o.id].amount = Cost(o.side, o.price, o.rem)
  BY <1>6 DEF LockFor
<1>8. \A b \in Pairs : \A x \in OpenOrders(b) : x.id # o.id
  BY <1>1, <1>5, KnownIsOpen
<1>9. \A b \in Pairs : \A x :
        x \in OpenOrders(b)' <=> \/ x \in OpenOrders(b) /\ x.id # o.id
                                 \/ b = pair /\ x = o /\ phase' = "walk"
  <2>1. \A b \in Pairs : OpenOrders(b)' = IF b = pair /\ ~Refused(pair, o) THEN OpenOrders(b) \cup {o}
                                          ELSE OpenOrders(b)
    BY <1>1, AddOrderPlaces
  <2>. QED
    BY <1>1, <1>8, <2>1
<1>10. now[o.id] = Owner(o.user, o.side, pair) /\ \A id \in OrderIds : id # o.id => now[id] = own[id]
  BY <1>3
<1>11. phase' \in {"walk", "rejected"}
  BY <1>1
<1>. HIDE DEF now
<1>12. Ledger(now)'
  BY <1>1, <1>2, <1>3, <1>4, <1>6, <1>7, <1>9, <1>10, <1>11, PlacedLedger
<1>. QED
  BY <1>12

(* Modifying an order.                                                     *)
LEMMA ModifyLedger ==
  ASSUME BookInv, WalkInv, AccountsInv, BookInv', AccountsInv', NEW own, Ledger(own),
         NEW pair \in Pairs, NEW id \in OrderIds, NEW price \in Prices, NEW qty \in Quantities,
         ModifyOrder(pair, id, price, qty)
  PROVE  Ledger(own)'
<1>. DEFINE old == orders_map[pair][id]
            new == Amended(old, price, qty)
            locked == ModifyLocks(pair, id, price, qty)
            user == old.user
            gone == {id}
            lock == LockFor(pair, old.side, price, qty)
<1>1. /\ phase = "idle" /\ trades' = << >> /\ id \in DOMAIN orders_map[pair]
      /\ locks' = [locks EXCEPT ![user] = IF locked THEN WithLock(locks[user], id, lock)
                                          ELSE Unlocked(locks[user], gone)]
  BY DEF ModifyOrder, AccountsInv, CallsOK
<1>2. /\ old \in Order /\ new \in Order /\ new.id = id /\ new.side = old.side /\ new.user = user
      /\ new.price = price /\ new.rem = qty
      /\ IF locked THEN phase' = "walk" /\ book' = pair /\ taker' = new
                   ELSE UNCHANGED <<phase, book, taker>>
      /\ \A b \in Pairs : \A o :
           o \in OpenOrders(b)' <=> \/ b = pair /\ o = new /\ locked
                                    \/ o \in OpenOrders(b) /\ (b = pair => o.id # id)
  <2>1. old = orders_map[pair][id] /\ new = Amended(old, price, qty)
    OBVIOUS
  <2>. HIDE DEF old, new
  <2>. QED
    BY <2>1, ModifyBooks DEF user
<1>3. /\ user = orders_map[pair][id].user /\ \A i : i \in gone <=> i = id
      /\ lock.asset = Spends(pair, old.side) /\ lock.amount = Cost(old.side, price, qty)
  BY DEF LockFor
<1>4. user \in Users /\ old.side \in Sides /\ price \in Nat \ {0} /\ qty \in Nat \ {0}
  BY <1>2, PricesAssumption, QuantitiesAssumption DEF Order
<1>. HIDE DEF old, new, user, gone, lock, locked
<1>5. CASE ~locked
  <2>1. /\ locks' = [locks EXCEPT ![user] = Unlocked(locks[user], gone)] /\ phase' = "idle"
        /\ \A b \in Pairs : \A o : o \in OpenOrders(b)' <=> o \in OpenOrders(b) /\ (b = pair => o.id # id)
    BY <1>1, <1>2, <1>5
  <2>2. /\ phase = "idle" /\ trades' = << >> /\ id \in DOMAIN orders_map[pair]
        /\ user = orders_map[pair][id].user /\ \A i : i \in gone <=> i = id
    BY <1>1, <1>3
  <2>. QED
    BY <2>1, <2>2, GoneLedger
<1>6. CASE locked
  <2>1. PICK x \in OpenOrders(pair) : x.id = id /\ x.user = orders_map[pair][id].user
                                      /\ x.side = orders_map[pair][id].side
    BY <1>1, KnownIsOpen
  <2>2. own[id] = Owner(user, old.side, pair)
    BY <2>1 DEF Ledger, OrdersOwned, user, old
  <2>3. own[id].user = user /\ own[id].pair = pair
    BY <2>2 DEF Owner
  <2>4. /\ \A u \in Users : \A i :
             i \in DOMAIN locks'[u] <=> IF i = new.id THEN u = new.user ELSE i \in DOMAIN locks[u]
        /\ \A u \in Users : \A i \in DOMAIN locks'[u] : i # new.id => locks'[u][i] = locks[u][i]
        /\ locks'[new.user][new.id] = lock
    <3>1. locks' = [locks EXCEPT ![user] = WithLock(locks[user], id, lock)]
      BY <1>1, <1>6
    <3>2. locks = [u \in Users |-> locks[u]]
      BY AccountsFacts DEF AccountsInv
    <3>3. \A u \in Users : u # user => id \notin DOMAIN locks[u]
      BY <2>3 DEF Ledger, LocksOwned
    <3>4. \A u \in Users : locks'[u] = IF u = user THEN WithLock(locks[user], id, lock) ELSE locks[u]
      BY <1>4, <3>1, <3>2
    <3>5. /\ DOMAIN WithLock(locks[user], id, lock) = DOMAIN locks[user] \cup {id}
          /\ \A i \in DOMAIN locks[user] \cup {id} :
               WithLock(locks[user], id, lock)[i] = IF i = id THEN lock ELSE locks[user][i]
      BY DEF WithLock
    <3>6. ASSUME NEW u \in Users, NEW i
          PROVE  /\ i \in DOMAIN locks'[u] <=> IF i = id THEN u = user ELSE i \in DOMAIN locks[u]
                 /\ i \in DOMAIN locks'[u] /\ i # id => locks'[u][i] = locks[u][i]
      <4>1. CASE u = user
        BY <3>4, <3>5, <4>1
      <4>2. CASE u # user
        BY <3>3, <3>4, <4>2
      <4>. QED
        BY <4>1, <4>2
    <3>7. locks'[user][id] = lock
      BY <1>4, <3>4, <3>5
    <3>. QED
      BY <1>2, <3>6, <3>7
  <2>5. \A b \in Pairs : \A o :
          o \in OpenOrders(b)' <=> \/ o \in OpenOrders(b) /\ o.id # new.id
                                   \/ b = pair /\ o = new /\ phase' = "walk"
    <3>1. \A b \in Pairs : \A o \in OpenOrders(b) : o.id = id => b = pair
      BY <2>3, Owners
    <3>. QED
      BY <1>2, <1>6, <3>1
  <2>6. Cost(new.side, new.price, new.rem) \in Nat \ {0}
    BY <1>2, <1>4, Positive
  <2>7. /\ new.id \in OrderIds /\ new.user \in Users /\ new.side \in Sides
        /\ own[new.id] = Owner(new.user, new.side, pair)
        /\ phase' \in {"walk", "rejected"} /\ book' = pair /\ taker' = new
        /\ locks'[new.user][new.id].asset = Spends(pair, new.side)
        /\ locks'[new.user][new.id].amount = Cost(new.side, new.price, new.rem)
    BY <1>2, <1>3, <1>4, <1>6, <2>2, <2>4
  <2>8. NothingDue /\ \A i \in OrderIds : i # new.id => own[i] = own[i]
    BY <1>1, NothingIsDue
  <2>. QED
    BY <1>1, <2>4, <2>5, <2>6, <2>7, <2>8, PlacedLedger
<1>. QED
  BY <1>5, <1>6

(* The walk is over: what is left of an order that does not rest is not    *)
(* open any more.                                                          *)
LEMMA FinishLedger ==
  ASSUME BookInv, WalkInv, BookInv', NEW own, Ledger(own), Finish, UNCHANGED <<settled, locks>>
  PROVE  Ledger(own)'
<1>1. /\ phase = "walk" /\ phase' = "matched" /\ UNCHANGED <<book, taker, trades, orders_map>>
      /\ Typed /\ Typed' /\ taker \in Order
      /\ ~(taker.type = "FOK" /\ taker.rem > 0)
  BY FinishWalk DEF Finish, BookInv, Typed, CallOK
<1>2. \A side, id : Due(side, id)' = Due(side, id)
  BY <1>1 DEF Due
<1>3. \A b \in Pairs : /\ OpenOrders(b)' = OrdersIn(Depths(b))
                       /\ OpenOrders(b) = OrdersIn(Depths(b)) \cup Incoming(b)
                       /\ OpenOrders(b)' = {o \in OpenOrders(b) : Rests(o)}
  BY <1>1, FinishDiscards
<1>4. \A b \in Pairs : \A o : o \in OpenOrders(b)' => o \in OpenOrders(b)
  BY <1>3
<1>5. OrdersOwned(own)' /\ CallOwned(own)' /\ LocksOwned(own)' /\ LocksHold'
  BY <1>1, <1>4 DEF Ledger, OrdersOwned, CallOwned, LocksOwned, LocksHold
<1>6. OrdersBacked' /\ TradesBacked' /\ PanicOfSettlement'
  BY <1>1, <1>2, <1>4 DEF Ledger, OrdersBacked, TradesBacked, Holds, Needs, PanicOfSettlement
<1>7. ASSUME ~Rests(taker), NEW b \in Pairs, NEW o \in OpenOrders(b)'
      PROVE  o.id # taker.id
  <2>1. o \in OrdersIn(Depths(b)) /\ o \in OpenOrders(b)
    BY <1>3, <1>7
  <2>2. o.id \in DOMAIN orders_map[b] /\ own[o.id].pair = b
    BY <2>1, QueuedOrder, Owners
  <2>3. own[taker.id].pair = book
    BY <1>1, Owners
  <2>4. taker.id \notin DOMAIN orders_map[book]
    BY <1>1, <1>7 DEF BookInv, WalkOK
  <2>. QED
    BY <2>2, <2>3, <2>4
<1>8. OverIsGone'
  <2>1. Over' => ~Rests(taker)
    BY <1>1 DEF Over, Rests
  <2>. QED
    BY <1>1, <1>7, <2>1 DEF OverIsGone
<1>9. ASSUME NEW user \in Users, NEW id \in DOMAIN locks[user], own[id].side = "Sell"
      PROVE  \/ Dropped(id)'
             \/ \E o \in OpenOrders(own[id].pair)' : o.id = id
             \/ locks'[user][id].amount = Due("Sell", id)'
  <2>1. own[id].pair \in Pairs /\ ~Dropped(id)
    BY <1>1 DEF Ledger, LocksOwned, Dropped
  <2>2. CASE locks[user][id].amount = Due("Sell", id)
    BY <1>2, <2>2
  <2>3. ASSUME NEW o \in OpenOrders(own[id].pair), o.id = id
        PROVE  \/ Dropped(id)'
               \/ o \in OpenOrders(own[id].pair)'
    <3>1. CASE Rests(o)
      BY <1>3, <2>1, <3>1
    <3>2. CASE ~Rests(o)
      <4>1. o \notin OrdersIn(Depths(own[id].pair))
        BY <2>1, <3>2, QueuedOrder
      <4>2. o \in Incoming(own[id].pair)
        BY <1>3, <2>1, <4>1
      <4>3. o = taker /\ o.rem > 0
        BY <4>2 DEF Incoming
      <4>4. taker.type = "FAK"
        BY <1>1, <3>2, <4>3, OrderTypesAssumption DEF Order, Rests
      <4>. QED
        BY <1>1, <2>3, <4>3, <4>4 DEF Dropped
    <3>. QED
      BY <3>1, <3>2
  <2>. QED
    BY <1>1, <1>9, <2>1, <2>2, <2>3 DEF Ledger, SellsUsed
<1>10. SellsUsed(own)'
  BY <1>9 DEF SellsUsed
<1>. QED
  BY <1>5, <1>6, <1>8, <1>10 DEF Ledger

(* What an order costs before a fill covers what it costs after and the    *)
(* fill, at a price that is no higher.                                     *)
LEMMA FillWithinCost ==
  ASSUME NEW price \in Nat, NEW rem \in Nat, NEW qty \in Nat, qty <= rem, NEW c \in Nat, c <= price
  PROVE  /\ price * (rem - qty) + c * qty <= price * rem
         /\ price * (rem - qty) \in Nat /\ c * qty \in Nat /\ price * rem \in Nat
<1>1. price * (rem - qty) \in Nat /\ c * qty \in Nat /\ price * rem \in Nat /\ price * qty \in Nat
  OBVIOUS
<1>2. price * (rem - qty) = price * rem - price * qty
  OBVIOUS
<1>3. c * qty <= price * qty
  <2>1. PICK d \in Nat : price = c + d
    <3>1. price - c \in Nat /\ price = c + (price - c)
      OBVIOUS
    <3>. QED
      BY <3>1
  <2>2. (c + d) * qty = c * qty + d * qty /\ d * qty \in Nat
    OBVIOUS
  <2>. QED
    BY <1>1, <2>1, <2>2
<1>. QED
  BY <1>1, <1>2, <1>3

(* A fill: what the order trades now, its lock has to pay for later.       *)
LEMMA FillLedger ==
  ASSUME BookInv, WalkInv, AccountsInv, BookInv', NEW own, Ledger(own), Fill,
         UNCHANGED <<settled, locks>>
  PROVE  Ledger(own)'
<1>1. PICK bid, ask \in OpenOrders(book), qty \in Nat \ {0} :
        /\ bid \in Order /\ ask \in Order /\ bid.side = "Buy" /\ ask.side = "Sell"
        /\ bid.user # ask.user /\ bid.id # ask.id
        /\ cursor.opp \in Nat /\ cursor.opp <= bid.price
        /\ qty <= bid.rem /\ qty <= ask.rem
        /\ trades' = Append(trades, [bid |-> bid.id, ask |-> ask.id, buyer |-> bid.user,
                                     seller |-> ask.user, price |-> cursor.opp, qty |-> qty])
        /\ \A b \in Pairs : \A o :
             o \in OpenOrders(b)' <=>
               \/ o \in OpenOrders(b) /\ (b = book => o # bid /\ o # ask)
               \/ b = book /\ bid.rem > qty /\ o = Reduced(bid, qty)
               \/ b = book /\ ask.rem > qty /\ o = Reduced(ask, qty)
  BY FillBetween
<1>. DEFINE c == cursor.opp
            t == [bid |-> bid.id, ask |-> ask.id, buyer |-> bid.user,
                  seller |-> ask.user, price |-> c, qty |-> qty]
            last == Len(trades) + 1
<1>2. /\ phase = "level" /\ phase' = "level" /\ book' = book /\ settled = 0
      /\ taker'.id = taker.id /\ taker'.user = taker.user /\ taker'.side = taker.side
      /\ book \in Pairs /\ trades \in Seq(Trade) /\ trades' \in Seq(Trade)
  <2>. DEFINE q == Lesser(Head(SameQueue).rem, Head(OppQueue).rem)
  <2>1. q = Lesser(Head(SameQueue).rem, Head(OppQueue).rem)
    OBVIOUS
  <2>. HIDE DEF q
  <2>2. phase = "level" /\ taker'.id = taker.id /\ taker'.user = taker.user /\ taker'.side = taker.side
    BY <2>1, FillFacts
  <2>3. phase' = phase /\ book' = book
    BY DEF Fill
  <2>. QED
    BY <2>2, <2>3, WalkTypes DEF BookInv, Typed, AccountsInv, CallsOK
<1>3. /\ t.bid = bid.id /\ t.ask = ask.id /\ t.buyer = bid.user /\ t.seller = ask.user
      /\ t.price = c /\ t.qty = qty /\ trades' = Append(trades, t)
      /\ c \in Nat /\ c <= bid.price /\ qty \in Nat /\ qty > 0
  BY <1>1
<1>. HIDE DEF t, c
<1>4. /\ DOMAIN trades' = DOMAIN trades \cup {last} /\ last \notin DOMAIN trades
      /\ trades'[last] = t /\ \A k \in DOMAIN trades : trades'[k] = trades[k]
      /\ t \in Trade
  <2>1. /\ DOMAIN trades' = DOMAIN trades \cup {last} /\ last \notin DOMAIN trades
        /\ trades'[last] = t /\ \A k \in DOMAIN trades : trades'[k] = trades[k]
    BY <1>2, <1>3, AppendProperties, LenProperties
  <2>2. last \in DOMAIN trades'
    BY <2>1
  <2>3. trades'[last] \in Trade
    BY <1>2, <2>2, ElementOfSeq, LenProperties
  <2>. QED
    BY <2>1, <2>3
<1>. HIDE DEF last
<1>5. \A side, id : /\ Due(side, id)' = Due(side, id) + Share(side, t, id)
                    /\ Due(side, id) \in Nat
  <2>1. settled \in Nat /\ settled <= Len(trades) /\ settled' = settled
    BY <1>2, LenProperties
  <2>2. ASSUME NEW side, NEW id
        PROVE  /\ Owed(trades', settled, side, id) = Owed(trades, settled, side, id) + Share(side, t, id)
               /\ Owed(trades, settled, side, id) \in Nat
    <3>1. Owed(trades', settled, side, id) = Owed(trades, settled, side, id) + Share(side, t, id)
      <4>1. /\ trades \in Seq(Trade) /\ settled \in Nat /\ settled <= Len(trades) /\ t \in Trade
            /\ trades' = Append(trades, t)
        BY <1>2, <1>3, <1>4, <2>1
      <4>2. ASSUME NEW n \in Nat, n <= Len(trades)
            PROVE  Owed(trades', n, side, id) = Owed(trades, n, side, id) + Share(side, t, id)
        BY <4>1, <4>2, OwedMore
      <4>. QED
        BY <4>1, <4>2
    <3>2. Owed(trades, settled, side, id) \in Nat
      BY <1>2, OwedType
    <3>. QED
      BY <3>1, <3>2
  <2>. QED
    BY <2>1, <2>2 DEF Due
<1>6. /\ \A id : Share("Buy", t, id) = IF id = bid.id THEN c * qty ELSE 0
      /\ \A id : Share("Sell", t, id) = IF id = ask.id THEN qty ELSE 0
  BY <1>3 DEF Share, Party, Debit
<1>7. /\ OpenTyped /\ \A user \in Users : \A id \in DOMAIN locks[user] : locks[user][id].amount \in Nat
  BY OpenAreTyped, AccountsFacts, LockedIsNatural DEF AccountsInv, Held, IsLocks, Lock
<1>8. /\ own[bid.id].user = bid.user /\ own[bid.id].side = "Buy" /\ own[bid.id].pair = book
      /\ own[ask.id].user = ask.user /\ own[ask.id].side = "Sell" /\ own[ask.id].pair = book
      /\ own[bid.id] = Owner(bid.user, "Buy", book) /\ own[ask.id] = Owner(ask.user, "Sell", book)
  <2>1. own[bid.id] = Owner(bid.user, "Buy", book) /\ own[ask.id] = Owner(ask.user, "Sell", book)
    BY <1>1, <1>2 DEF Ledger, OrdersOwned
  <2>. QED
    BY <1>1, <1>2, <2>1, Owners
<1>9. ASSUME NEW b \in Pairs, NEW o \in OpenOrders(b), b = book => o # bid /\ o # ask
      PROVE  o.id # bid.id /\ o.id # ask.id
  <2>1. CASE b = book
    BY <1>2, <1>9, <2>1, OpenOnce
  <2>2. CASE b # book
    BY <1>8, <2>2, Owners
  <2>. QED
    BY <2>1, <2>2
<1>10. /\ Reduced(bid, qty).id = bid.id /\ Reduced(bid, qty).user = bid.user
       /\ Reduced(bid, qty).side = "Buy" /\ Reduced(bid, qty).price = bid.price
       /\ Reduced(bid, qty).rem = bid.rem - qty
       /\ Reduced(ask, qty).id = ask.id /\ Reduced(ask, qty).user = ask.user
       /\ Reduced(ask, qty).side = "Sell" /\ Reduced(ask, qty).price = ask.price
       /\ Reduced(ask, qty).rem = ask.rem - qty
  BY <1>1 DEF Reduced, Order
<1>11. ASSUME NEW b \in Pairs, NEW o \in OpenOrders(b)'
       PROVE  own[o.id] = Owner(o.user, o.side, b)
  BY <1>1, <1>8, <1>10 DEF Ledger, OrdersOwned
<1>12. OrdersOwned(own)'
  BY <1>11 DEF OrdersOwned
<1>13. CallOwned(own)'
  <2>1. own[taker.id] = Owner(taker.user, taker.side, book)
    BY <1>2 DEF Ledger, CallOwned
  <2>2. \A k \in DOMAIN trades' :
          /\ own[trades'[k].bid] = Owner(trades'[k].buyer, "Buy", book)
          /\ own[trades'[k].ask] = Owner(trades'[k].seller, "Sell", book)
    BY <1>3, <1>4, <1>8 DEF Ledger, CallOwned
  <2>. QED
    BY <1>2, <2>1, <2>2 DEF CallOwned
<1>14. LocksOwned(own)' /\ LocksHold' /\ OverIsGone' /\ PanicOfSettlement'
  BY <1>2 DEF Ledger, LocksOwned, LocksHold, OverIsGone, Over, PanicOfSettlement
<1>15. /\ Needs(bid) = bid.price * bid.rem + Due("Buy", bid.id)
       /\ Needs(ask) = ask.rem + Due("Sell", ask.id)
       /\ Holds(bid.user, bid.id, Needs(bid)) /\ Holds(ask.user, ask.id, Needs(ask))
       /\ locks[ask.user][ask.id].amount = Needs(ask)
       /\ bid.user \in Users /\ ask.user \in Users
       /\ bid.price \in Nat /\ bid.rem \in Nat /\ ask.rem \in Nat
  BY <1>1, <1>2, <1>7 DEF Needs, Cost, Ledger, OrdersBacked, OpenTyped
<1>16. /\ bid.price * (bid.rem - qty) + c * qty <= bid.price * bid.rem
       /\ bid.price * (bid.rem - qty) \in Nat /\ c * qty \in Nat /\ bid.price * bid.rem \in Nat
  <2>. DEFINE price == bid.price
              rem == bid.rem
  <2>1. price \in Nat /\ rem \in Nat /\ qty \in Nat /\ qty <= rem /\ c \in Nat /\ c <= price
    BY <1>1, <1>3, <1>15
  <2>. HIDE DEF price, rem
  <2>2. /\ price * (rem - qty) + c * qty <= price * rem
        /\ price * (rem - qty) \in Nat /\ c * qty \in Nat /\ price * rem \in Nat
    BY <2>1, FillWithinCost
  <2>. QED
    BY <2>2 DEF price, rem
<1>17. ASSUME NEW b \in Pairs, NEW o \in OpenOrders(b)'
       PROVE  /\ Holds(o.user, o.id, Needs(o))'
              /\ o.side = "Sell" => locks'[o.user][o.id].amount = Needs(o)'
  <2>1. CASE o \in OpenOrders(b) /\ (b = book => o # bid /\ o # ask)
    <3>1. o.id # bid.id /\ o.id # ask.id /\ o.side \in Sides
      BY <1>7, <1>9, <2>1 DEF OpenTyped
    <3>2. Share(o.side, t, o.id) = 0
      BY <1>6, <3>1 DEF Sides
    <3>3. Due(o.side, o.id)' = Due(o.side, o.id)
      BY <1>5, <3>2
    <3>4. Needs(o)' = Needs(o)
      BY <3>3 DEF Needs
    <3>. QED
      BY <2>1, <3>4 DEF Ledger, OrdersBacked, Holds
  <2>2. CASE o = Reduced(bid, qty)
    <3>1. Needs(o)' = bid.price * (bid.rem - qty) + Due("Buy", bid.id)'
      BY <1>10, <2>2 DEF Needs, Cost
    <3>2. Due("Buy", bid.id)' = Due("Buy", bid.id) + c * qty /\ Due("Buy", bid.id) \in Nat
      BY <1>5, <1>6
    <3>3. Needs(o)' <= Needs(bid) /\ Needs(o)' \in Nat /\ Needs(bid) \in Nat
      <4>. DEFINE before == bid.price * bid.rem
                  after == bid.price * (bid.rem - qty)
                  paid == c * qty
                  due == Due("Buy", bid.id)
                  need == Needs(o)'
      <4>1. /\ after + paid <= before /\ after \in Nat /\ paid \in Nat /\ before \in Nat /\ due \in Nat
            /\ need = after + (due + paid) /\ Needs(bid) = before + due
        BY <1>15, <1>16, <3>1, <3>2
      <4>. HIDE DEF before, after, paid, due, need
      <4>2. need <= Needs(bid) /\ need \in Nat /\ Needs(bid) \in Nat
        BY <4>1
      <4>. QED
        BY <4>2 DEF need
    <3>4. Holds(bid.user, bid.id, Needs(o)')
      BY <1>7, <1>15, <3>3 DEF Holds
    <3>. QED
      BY <1>10, <2>2, <3>4 DEF Holds
  <2>3. CASE o = Reduced(ask, qty)
    <3>1. Needs(o)' = (ask.rem - qty) + Due("Sell", ask.id)'
      BY <1>10, <2>3 DEF Needs, Cost
    <3>2. Due("Sell", ask.id)' = Due("Sell", ask.id) + qty /\ Due("Sell", ask.id) \in Nat
      BY <1>5, <1>6
    <3>3. Needs(o)' = Needs(ask)
      BY <1>3, <1>15, <3>1, <3>2
    <3>. QED
      BY <1>10, <1>15, <2>3, <3>3 DEF Holds
  <2>. QED
    BY <1>1, <2>1, <2>2, <2>3
<1>18. OrdersBacked'
  BY <1>17 DEF OrdersBacked
<1>19. /\ Holds(bid.user, bid.id, Due("Buy", bid.id)') /\ Holds(ask.user, ask.id, Due("Sell", ask.id)')
  <2>. DEFINE dueBid == Due("Buy", bid.id)
              dueAsk == Due("Sell", ask.id)
              after == bid.price * (bid.rem - qty)
              paid == c * qty
              before == bid.price * bid.rem
  <2>1. /\ Due("Buy", bid.id)' = dueBid + paid /\ Due("Sell", ask.id)' = dueAsk + qty
        /\ dueBid \in Nat /\ dueAsk \in Nat
        /\ after + paid <= before /\ after \in Nat /\ paid \in Nat /\ before \in Nat
        /\ Needs(bid) = before + dueBid /\ Needs(ask) = ask.rem + dueAsk
        /\ qty \in Nat /\ qty <= ask.rem /\ ask.rem \in Nat
    BY <1>1, <1>5, <1>6, <1>15, <1>16
  <2>. HIDE DEF dueBid, dueAsk, after, paid, before
  <2>2. /\ dueBid + paid <= Needs(bid) /\ dueAsk + qty <= Needs(ask)
        /\ dueBid + paid \in Nat /\ dueAsk + qty \in Nat /\ Needs(bid) \in Nat /\ Needs(ask) \in Nat
    BY <2>1
  <2>. QED
    BY <1>7, <1>15, <2>1, <2>2 DEF Holds
<1>20. ASSUME NEW k \in DOMAIN trades', k > settled, NEW old, old = trades'[k]
       PROVE  /\ Holds(old.buyer, old.bid, Due("Buy", old.bid)')
              /\ Holds(old.seller, old.ask, Due("Sell", old.ask)')
  <2>1. CASE k = last
    <3>1. old = t
      BY <1>4, <1>20, <2>1
    <3>2. old.bid = bid.id /\ old.ask = ask.id /\ old.buyer = bid.user /\ old.seller = ask.user
      BY <1>3, <3>1
    <3>. QED
      BY <1>19, <3>2
  <2>2. CASE k \in DOMAIN trades
    <3>1. old = trades[k]
      BY <1>4, <1>20, <2>2
    <3>2. /\ Holds(old.buyer, old.bid, Due("Buy", old.bid))
          /\ Holds(old.seller, old.ask, Due("Sell", old.ask))
          /\ own[old.bid].user = old.buyer /\ own[old.ask].user = old.seller
      BY <1>20, <2>2, <3>1, Owners DEF Ledger, TradesBacked
    <3>3. Holds(old.buyer, old.bid, Due("Buy", old.bid)')
      <4>1. CASE old.bid = bid.id
        BY <1>8, <1>19, <3>2, <4>1
      <4>2. CASE old.bid # bid.id
        BY <1>5, <1>6, <3>2, <4>2
      <4>. QED
        BY <4>1, <4>2
    <3>4. Holds(old.seller, old.ask, Due("Sell", old.ask)')
      <4>1. CASE old.ask = ask.id
        BY <1>8, <1>19, <3>2, <4>1
      <4>2. CASE old.ask # ask.id
        BY <1>5, <1>6, <3>2, <4>2
      <4>. QED
        BY <4>1, <4>2
    <3>. QED
      BY <3>3, <3>4
  <2>. QED
    BY <1>4, <2>1, <2>2
<1>21. TradesBacked'
  BY <1>2, <1>20 DEF TradesBacked, Holds, Due
<1>22. ASSUME NEW user \in Users, NEW id \in DOMAIN locks[user], own[id].side = "Sell"
       PROVE  \/ \E o \in OpenOrders(own[id].pair)' : o.id = id
              \/ locks'[user][id].amount = Due("Sell", id)'
  <2>1. own[id].pair \in Pairs /\ ~Dropped(id) /\ own[id].user = user
    BY <1>2 DEF Ledger, LocksOwned, Dropped
  <2>2. CASE id # ask.id
    <3>1. CASE locks[user][id].amount = Due("Sell", id)
      BY <1>5, <1>6, <2>2, <3>1
    <3>2. ASSUME NEW o \in OpenOrders(own[id].pair), o.id = id
          PROVE  o \in OpenOrders(own[id].pair)'
      <4>1. o # ask /\ o # bid
        BY <1>8, <1>22, <2>2, <3>2
      <4>. QED
        BY <1>1, <2>1, <4>1
    <3>. QED
      BY <1>2, <1>22, <2>1, <3>1, <3>2 DEF Ledger, SellsUsed
  <2>3. CASE id = ask.id
    <3>1. user = ask.user /\ own[id].pair = book
      BY <1>8, <2>1, <2>3
    <3>2. CASE ask.rem > qty
      <4>1. Reduced(ask, qty) \in OpenOrders(own[id].pair)'
        BY <1>1, <1>2, <3>1, <3>2
      <4>. QED
        BY <1>10, <2>3, <4>1
    <3>3. CASE ~(ask.rem > qty)
      <4>1. ask.rem = qty
        BY <1>1, <1>15, <3>3
      <4>2. Due("Sell", ask.id)' = Due("Sell", ask.id) + qty /\ Due("Sell", ask.id) \in Nat
        BY <1>5, <1>6
      <4>3. locks[user][id].amount = Due("Sell", id)'
        BY <1>3, <1>15, <2>3, <3>1, <4>1, <4>2
      <4>. QED
        BY <4>3
    <3>. QED
      BY <3>2, <3>3
  <2>. QED
    BY <2>2, <2>3
<1>23. SellsUsed(own)'
  BY <1>22 DEF SellsUsed
<1>. QED
  BY <1>12, <1>13, <1>14, <1>18, <1>21, <1>23 DEF Ledger

(* A step of the walk.                                                     *)
LEMMA MatchLedger ==
  ASSUME BookInv, WalkInv, AccountsInv, BookInv', NEW own, Ledger(own), MatchStep
  PROVE  Ledger(own)'
<1>1. Match /\ UNCHANGED <<settled, locks>> /\ Typed'
  BY DEF MatchStep, accountVars, BookInv
<1>2. CASE Fill
  BY <1>1, <1>2, FillLedger
<1>3. CASE Finish
  BY <1>1, <1>3, FinishLedger
<1>4. CASE ~Fill /\ ~Finish
  <2>1. /\ phase \in {"walk", "level"} /\ phase' \in {"walk", "level"}
        /\ UNCHANGED <<book, taker, trades>>
    BY <1>1, <1>4
       DEF Match, EnterLevel, SkipResting, PassTurn, ParkLevel, LeaveLevel, SelfTrade, InLevel
  <2>2. Open' = Open
    BY <1>1, <1>4, MatchStays
  <2>3. \A b \in Pairs : OpenOrders(b)' = OpenOrders(b)
    BY <2>2 DEF Open
  <2>. QED
    BY <1>1, <2>1, <2>3, LedgerAlone
<1>. QED
  BY <1>2, <1>3, <1>4

(* What settling a trade takes from a lock.                                *)
Spent(t, user, id) ==
  IF user = t.buyer /\ id = t.bid THEN t.price * t.qty
  ELSE IF user = t.seller /\ id = t.ask THEN t.qty
  ELSE 0

(* ... which is what it contributed to what was due, and no lock stays     *)
(* that has nothing left.                                                  *)
LEMMA SettleSpends ==
  ASSUME BookInv, AccountsInv, AccountsInv', NEW own, Ledger(own), SettleTrade,
         NEW t, t = trades[settled + 1], SettlesWell(t)
  PROVE  \A user \in Users : \A id :
           /\ Spent(t, user, id) \in Nat
           /\ id \in DOMAIN locks[user] =>
                /\ locks[user][id].amount \in Nat /\ Spent(t, user, id) <= locks[user][id].amount
                /\ Due(own[id].side, id) = Due(own[id].side, id)' + Spent(t, user, id)
                /\ Due(own[id].side, id)' \in Nat
           /\ id \in DOMAIN locks'[user] <=>
                id \in DOMAIN locks[user] /\ locks[user][id].amount # Spent(t, user, id)
           /\ id \in DOMAIN locks'[user] =>
                /\ locks'[user][id].amount = locks[user][id].amount - Spent(t, user, id)
                /\ locks'[user][id].asset = locks[user][id].asset
<1>. DEFINE notional == t.price * t.qty
<1>1. /\ settled + 1 \in DOMAIN trades /\ settled + 1 <= Len(trades) /\ trades' = trades
      /\ settled' = settled + 1 /\ settled \in Nat /\ trades \in Seq(Trade)
      /\ t \in Trade /\ t.qty \in Nat /\ notional \in Nat
      /\ t.buyer \in Users /\ t.seller \in Users /\ t.buyer # t.seller
      /\ \A u \in Users :
           locks'[u] = IF u = t.buyer THEN AfterDebit(locks[u], t.bid, notional)
                       ELSE IF u = t.seller THEN AfterDebit(locks[u], t.ask, t.qty)
                       ELSE locks[u]
  BY SettleFacts DEF BookInv, Typed, AccountsInv, CallsOK
<1>2. /\ t.bid \in DOMAIN locks[t.buyer] /\ notional <= locks[t.buyer][t.bid].amount
      /\ t.ask \in DOMAIN locks[t.seller] /\ t.qty <= locks[t.seller][t.ask].amount
  BY DEF SettlesWell, LockCovers
<1>3. \A user \in Users : \A id \in DOMAIN locks[user] :
        /\ locks[user][id] \in Lock /\ locks[user][id].amount \in Nat /\ locks[user][id].amount > 0
        /\ own[id].user = user /\ own[id].side \in Sides
  BY AccountsFacts, LockedIsNatural DEF AccountsInv, Held, IsLocks, Lock, Ledger, LocksHold, LocksOwned
<1>4. /\ own[t.bid].user = t.buyer /\ own[t.bid].side = "Buy"
      /\ own[t.ask].user = t.seller /\ own[t.ask].side = "Sell"
  BY <1>1, Owners
<1>5. \A side, id : /\ Due(side, id) = Due(side, id)' + Share(side, t, id)
                    /\ Due(side, id)' \in Nat
  <2>1. ASSUME NEW side, NEW id, NEW n \in Nat, n + 1 <= Len(trades)
        PROVE  /\ Owed(trades, n, side, id) = Owed(trades, n + 1, side, id) + Share(side, trades[n + 1], id)
               /\ Owed(trades, n + 1, side, id) \in Nat
    <3>1. Owed(trades, n, side, id) = Owed(trades, n + 1, side, id) + Share(side, trades[n + 1], id)
      BY <1>1, <2>1, OwedLess
    <3>2. Owed(trades, n + 1, side, id) \in Nat
      BY <1>1, OwedType
    <3>. QED
      BY <3>1, <3>2
  <2>. QED
    BY <1>1, <2>1 DEF Due
<1>6. ASSUME NEW user \in Users, NEW id \in DOMAIN locks[user]
      PROVE  Share(own[id].side, t, id) = Spent(t, user, id)
  <2>1. own[id].user = user /\ own[id].side \in {"Buy", "Sell"}
    BY <1>3 DEF Sides
  <2>2. CASE own[id].side = "Buy"
    BY <1>4, <2>1, <2>2 DEF Share, Party, Debit, Spent
  <2>3. CASE own[id].side = "Sell"
    BY <1>1, <1>4, <2>1, <2>3 DEF Share, Party, Debit, Spent
  <2>. QED
    BY <2>1, <2>2, <2>3
<1>. HIDE DEF notional
<1>7. \A user \in Users : Held(locks[user])
  BY AccountsFacts DEF AccountsInv
<1>8. ASSUME NEW held, Held(held), \A i \in DOMAIN held : held[i].amount > 0,
             NEW key \in DOMAIN held, NEW debit \in Nat, debit <= held[key].amount,
             NEW after, after = AfterDebit(held, key, debit), NEW i
      PROVE  /\ i \in DOMAIN after <=> i \in DOMAIN held /\ held[i].amount # (IF i = key THEN debit ELSE 0)
             /\ i \in DOMAIN after =>
                  /\ after[i].amount = held[i].amount - (IF i = key THEN debit ELSE 0)
                  /\ after[i].asset = held[i].asset
  <2>1. \A j \in DOMAIN held : held[j].amount \in Nat /\ held[j].amount > 0
    BY <1>8, LockedIsNatural
  <2>2. /\ DOMAIN after = IF held[key].amount = debit THEN DOMAIN held \ {key} ELSE DOMAIN held
        /\ \A j \in DOMAIN after :
             /\ after[j].asset = held[j].asset
             /\ after[j].amount = IF j = key THEN held[j].amount - debit ELSE held[j].amount
    <3>1. DOMAIN after = IF held[key].amount = debit THEN DOMAIN held \ {key} ELSE DOMAIN held
      BY <1>8 DEF AfterDebit, Unlocked
    <3>2. ASSUME NEW j \in DOMAIN after
          PROVE  /\ after[j].asset = held[j].asset
                 /\ after[j].amount = IF j = key THEN held[j].amount - debit ELSE held[j].amount
      <4>1. held[j] \in Lock /\ j \in DOMAIN held /\ held = [k \in DOMAIN held |-> held[k]]
        BY <1>8, <3>1, <3>2 DEF Held, IsLocks
      <4>2. CASE held[key].amount = debit
        <5>1. after = Unlocked(held, {key}) /\ j # key
          BY <1>8, <3>1, <3>2, <4>2 DEF AfterDebit
        <5>. QED
          BY <4>1, <5>1 DEF Unlocked
      <4>3. CASE held[key].amount # debit
        <5>1. after = [held EXCEPT ![key].amount = @ - debit]
          BY <1>8, <4>3 DEF AfterDebit
        <5>2. after[j] = IF j = key THEN [held[key] EXCEPT !.amount = @ - debit] ELSE held[j]
          BY <1>8, <4>1, <5>1
        <5>. QED
          BY <4>1, <5>2 DEF Lock
      <4>. QED
        BY <4>2, <4>3
    <3>. QED
      BY <3>1, <3>2
  <2>3. CASE i = key
    BY <2>1, <2>2, <2>3
  <2>4. CASE i # key
    BY <2>1, <2>2, <2>4
  <2>. QED
    BY <2>3, <2>4
<1>9. ASSUME NEW user \in Users, NEW id
      PROVE  /\ id \in DOMAIN locks'[user] <=>
                  id \in DOMAIN locks[user] /\ locks[user][id].amount # Spent(t, user, id)
             /\ id \in DOMAIN locks'[user] =>
                  /\ locks'[user][id].amount = locks[user][id].amount - Spent(t, user, id)
                  /\ locks'[user][id].asset = locks[user][id].asset
  <2>1. CASE user = t.buyer
    <3>1. locks'[user] = AfterDebit(locks[user], t.bid, notional)
      BY <1>1, <2>1
    <3>2. Spent(t, user, id) = IF id = t.bid THEN notional ELSE 0
      BY <1>1, <2>1 DEF Spent, notional
    <3>3. t.bid \in DOMAIN locks[user] /\ notional \in Nat /\ notional <= locks[user][t.bid].amount
      BY <1>1, <1>2, <2>1
    <3>4. Held(locks[user]) /\ \A i \in DOMAIN locks[user] : locks[user][i].amount > 0
      BY <1>3, <1>7
    <3>. QED
      BY <1>8, <3>1, <3>2, <3>3, <3>4
  <2>2. CASE user = t.seller
    <3>1. locks'[user] = AfterDebit(locks[user], t.ask, t.qty)
      BY <1>1, <2>2
    <3>2. Spent(t, user, id) = IF id = t.ask THEN t.qty ELSE 0
      BY <1>1, <2>2 DEF Spent, notional
    <3>3. t.ask \in DOMAIN locks[user] /\ t.qty \in Nat /\ t.qty <= locks[user][t.ask].amount
      BY <1>1, <1>2, <2>2
    <3>4. Held(locks[user]) /\ \A i \in DOMAIN locks[user] : locks[user][i].amount > 0
      BY <1>3, <1>7
    <3>. QED
      BY <1>8, <3>1, <3>2, <3>3, <3>4
  <2>3. CASE user # t.buyer /\ user # t.seller
    <3>1. locks'[user] = locks[user] /\ Spent(t, user, id) = 0
      BY <1>1, <2>3 DEF Spent
    <3>2. id \in DOMAIN locks[user] => locks[user][id].amount \in Nat /\ locks[user][id].amount > 0
      BY <1>3
    <3>. QED
      BY <3>1, <3>2
  <2>. QED
    BY <2>1, <2>2, <2>3
<1>10. ASSUME NEW user \in Users, NEW id
      PROVE  /\ Spent(t, user, id) \in Nat
             /\ id \in DOMAIN locks[user] => Spent(t, user, id) <= locks[user][id].amount
  <2>1. CASE user = t.buyer /\ id = t.bid
    BY <1>1, <1>2, <2>1 DEF Spent, notional
  <2>2. CASE user = t.seller /\ id = t.ask
    BY <1>1, <1>2, <2>2 DEF Spent
  <2>3. CASE ~(user = t.buyer /\ id = t.bid) /\ ~(user = t.seller /\ id = t.ask)
    <3>1. Spent(t, user, id) = 0
      BY <2>3 DEF Spent
    <3>. QED
      BY <1>3, <3>1
  <2>. QED
    BY <2>1, <2>2, <2>3
<1>11. ASSUME NEW user \in Users, NEW id \in DOMAIN locks[user]
       PROVE  /\ Due(own[id].side, id) = Due(own[id].side, id)' + Spent(t, user, id)
              /\ Due(own[id].side, id)' \in Nat
  BY <1>5, <1>6
<1>. QED
  BY <1>3, <1>9, <1>10, <1>11

(* The engine settles a trade, or panics over it.                          *)
LEMMA SettleLedger ==
  ASSUME BookInv, WalkInv, AccountsInv, AccountsInv', NEW own, Ledger(own), SettleTrade
  PROVE  Ledger(own)'
<1>1. PICK t : t = trades[settled + 1]
  OBVIOUS
<1>2. /\ phase = "matched" /\ settled + 1 \in DOMAIN trades /\ settled + 1 <= Len(trades)
      /\ UNCHANGED <<levels, orders_map, book, taker, cursor, parked, trades, pairs, users>>
      /\ \/ phase' = "matched" /\ settled' = settled + 1 /\ SettlesWell(t)
         \/ phase' = "panicked" /\ ~SettlesWell(t) /\ UNCHANGED <<locks, balances, settled>>
  BY <1>1, SettleFacts
<1>3. \A b \in Pairs : OpenOrders(b)' = OpenOrders(b)
  BY SettleBooks
<1>4. OpenTyped /\ trades \in Seq(Trade) /\ settled \in Nat
  BY OpenAreTyped DEF BookInv, Typed, AccountsInv, CallsOK
<1>5. OrdersOwned(own)' /\ CallOwned(own)'
  BY <1>2, <1>3 DEF Ledger, OrdersOwned, CallOwned
<1>6. CASE ~SettlesWell(t)
  <2>1. phase' = "panicked" /\ UNCHANGED <<locks, balances, settled>>
    BY <1>2, <1>6
  <2>2. \A side, id : Due(side, id)' = Due(side, id)
    BY <1>2, <2>1 DEF Due
  <2>3. LocksOwned(own)' /\ LocksHold' /\ OverIsGone' /\ SellsUsed(own)'
    BY <2>1 DEF Ledger, LocksOwned, LocksHold, OverIsGone, Over, SellsUsed
  <2>4. OrdersBacked' /\ TradesBacked'
    BY <1>2, <1>3, <2>1, <2>2 DEF Ledger, OrdersBacked, TradesBacked, Holds, Needs
  <2>5. PanicOfSettlement'
    <3>1. ~SettlesWell(t)'
      BY <1>2, <1>6, <2>1 DEF SettlesWell, LockCovers, CreditFits
    <3>2. settled < Len(trades)
      BY <1>2, <1>4, LenProperties
    <3>. QED
      BY <1>1, <1>2, <2>1, <3>1, <3>2 DEF PanicOfSettlement
  <2>. QED
    BY <1>5, <2>3, <2>4, <2>5 DEF Ledger
<1>7. CASE SettlesWell(t)
  <2>1. phase' = "matched" /\ settled' = settled + 1
    BY <1>2, <1>7
  <2>2. \A user \in Users : \A id :
          /\ Spent(t, user, id) \in Nat
          /\ id \in DOMAIN locks[user] =>
               /\ locks[user][id].amount \in Nat /\ Spent(t, user, id) <= locks[user][id].amount
               /\ Due(own[id].side, id) = Due(own[id].side, id)' + Spent(t, user, id)
               /\ Due(own[id].side, id)' \in Nat
          /\ id \in DOMAIN locks'[user] <=>
               id \in DOMAIN locks[user] /\ locks[user][id].amount # Spent(t, user, id)
          /\ id \in DOMAIN locks'[user] =>
               /\ locks'[user][id].amount = locks[user][id].amount - Spent(t, user, id)
               /\ locks'[user][id].asset = locks[user][id].asset
    BY <1>1, <1>7, SettleSpends
  <2>3. LocksOwned(own)'
    BY <2>2 DEF Ledger, LocksOwned
  <2>4. LocksHold'
    BY <2>2 DEF LocksHold
  <2>5. OverIsGone' /\ PanicOfSettlement'
    BY <1>2, <1>3, <2>1 DEF Ledger, OverIsGone, Over, Rests, PanicOfSettlement
  <2>6. ASSUME NEW user \in Users, NEW id \in DOMAIN locks[user], NEW need \in Nat, need > 0,
               need + Spent(t, user, id) <= locks[user][id].amount
        PROVE  /\ Holds(user, id, need)'
               /\ need + Spent(t, user, id) = locks[user][id].amount => locks'[user][id].amount = need
    BY <2>2, <2>6 DEF Holds
  <2>7. ASSUME NEW b \in Pairs, NEW o \in OpenOrders(b)
        PROVE  /\ Holds(o.user, o.id, Needs(o))'
               /\ o.side = "Sell" => locks'[o.user][o.id].amount = Needs(o)'
    <3>. DEFINE cost == Cost(o.side, o.price, o.rem)
                spent == Spent(t, o.user, o.id)
    <3>1. /\ o.user \in Users /\ own[o.id].side = o.side /\ cost \in Nat \ {0}
          /\ o.id \in DOMAIN locks[o.user] /\ Needs(o) <= locks[o.user][o.id].amount
          /\ o.side = "Sell" => locks[o.user][o.id].amount = Needs(o)
      BY <1>4, Owners DEF OpenTyped, Ledger, OrdersBacked, Holds
    <3>2. /\ Due(o.side, o.id) = Due(o.side, o.id)' + spent
          /\ Due(o.side, o.id)' \in Nat /\ spent \in Nat
      BY <2>2, <3>1
    <3>3. Needs(o) = cost + Due(o.side, o.id) /\ Needs(o)' = cost + Due(o.side, o.id)'
      BY DEF Needs
    <3>. HIDE DEF cost, spent
    <3>4. Needs(o)' \in Nat /\ Needs(o)' > 0 /\ Needs(o)' + spent = Needs(o)
      BY <3>1, <3>2, <3>3
    <3>5. PICK need \in Nat : need = Needs(o)'
      BY <3>4
    <3>6. /\ need > 0 /\ need + spent <= locks[o.user][o.id].amount
          /\ o.side = "Sell" => need + spent = locks[o.user][o.id].amount
      BY <3>1, <3>4, <3>5
    <3>7. /\ Holds(o.user, o.id, need)'
          /\ o.side = "Sell" => locks'[o.user][o.id].amount = need
      BY <2>6, <3>1, <3>5, <3>6 DEF spent
    <3>. QED
      BY <3>5, <3>7 DEF Holds
  <2>8. OrdersBacked'
    BY <1>3, <2>7 DEF OrdersBacked
  <2>9. ASSUME NEW k \in DOMAIN trades, k > settled + 1, NEW user \in Users, NEW side \in Sides, NEW id,
               Holds(user, id, Due(side, id)), own[id].side = side, Party(side, trades[k]) = id
        PROVE  Holds(user, id, Due(side, id))'
    <3>1. PICK need : need = Due(side, id)'
      OBVIOUS
    <3>2. id \in DOMAIN locks[user] /\ Due(side, id) <= locks[user][id].amount
      BY <2>9 DEF Holds
    <3>3. need \in Nat /\ Due(side, id) = need + Spent(t, user, id)
      BY <2>2, <2>9, <3>1, <3>2
    <3>4. Debit(side, trades[k]) <= need
      BY <1>2, <1>4, <2>1, <2>9, <3>1, OwedCovers DEF Due
    <3>5. Debit(side, trades[k]) \in Nat /\ Debit(side, trades[k]) > 0
      <4>. DEFINE price == trades[k].price
                  qty == trades[k].qty
      <4>1. trades[k] \in Trade /\ qty > 0
        BY <1>4, ElementOfSeq, LenProperties DEF AccountsInv, CallsOK
      <4>2. price \in Nat \ {0} /\ qty \in Nat \ {0}
        <5>1. trades[k].price \in Prices /\ trades[k].qty \in Nat
          BY <4>1 DEF Trade
        <5>2. price \in Prices /\ qty \in Nat /\ qty > 0
          BY <4>1, <5>1
        <5>. HIDE DEF price, qty
        <5>. QED
          BY <5>2, PricesAssumption
      <4>. HIDE DEF price, qty
      <4>3. price * qty \in Nat /\ price * qty > 0
        BY <4>2
      <4>. QED
        BY <4>2, <4>3 DEF Debit, price, qty
    <3>6. need > 0 /\ need + Spent(t, user, id) <= locks[user][id].amount
      BY <3>2, <3>3, <3>4, <3>5
    <3>7. Holds(user, id, need)'
      BY <2>6, <3>2, <3>3, <3>6
    <3>. QED
      BY <3>1, <3>7 DEF Holds
  <2>10. ASSUME NEW k \in DOMAIN trades, k > settled + 1
         PROVE  /\ Holds(trades[k].buyer, trades[k].bid, Due("Buy", trades[k].bid))'
                /\ Holds(trades[k].seller, trades[k].ask, Due("Sell", trades[k].ask))'
    <3>1. PICK old : old = trades[k]
      OBVIOUS
    <3>2. old \in Trade /\ k > settled
      BY <1>4, <2>10, <3>1, ElementOfSeq, LenProperties
    <3>3. /\ Holds(old.buyer, old.bid, Due("Buy", old.bid))
          /\ Holds(old.seller, old.ask, Due("Sell", old.ask))
          /\ own[old.bid].side = "Buy" /\ own[old.ask].side = "Sell"
          /\ old.buyer \in Users /\ old.seller \in Users
      BY <3>1, <3>2, Owners DEF Ledger, TradesBacked, Trade
    <3>4. Party("Buy", old) = old.bid /\ Party("Sell", old) = old.ask
      BY DEF Party
    <3>5. /\ Holds(old.buyer, old.bid, Due("Buy", old.bid))'
          /\ Holds(old.seller, old.ask, Due("Sell", old.ask))'
      BY <2>9, <2>10, <3>1, <3>3, <3>4 DEF Sides
    <3>. QED
      BY <1>2, <3>1, <3>5
  <2>11. TradesBacked'
    BY <1>2, <2>1, <2>10 DEF TradesBacked
  <2>12. ASSUME NEW user \in Users, NEW id \in DOMAIN locks'[user], own[id].side = "Sell"
         PROVE  \/ Dropped(id)'
                \/ \E o \in OpenOrders(own[id].pair)' : o.id = id
                \/ locks'[user][id].amount = Due("Sell", id)'
    <3>1. id \in DOMAIN locks[user] /\ own[id].pair \in Pairs
      BY <2>2 DEF Ledger, LocksOwned
    <3>2. \/ Dropped(id)
          \/ \E o \in OpenOrders(own[id].pair) : o.id = id
          \/ locks[user][id].amount = Due("Sell", id)
      BY <1>2, <2>12, <3>1 DEF Ledger, SellsUsed
    <3>3. Dropped(id) => Dropped(id)'
      BY <1>2, <2>1 DEF Dropped
    <3>4. locks[user][id].amount = Due("Sell", id) => locks'[user][id].amount = Due("Sell", id)'
      BY <2>2, <2>12, <3>1
    <3>. QED
      BY <1>3, <3>1, <3>2, <3>3, <3>4
  <2>13. SellsUsed(own)'
    BY <2>12 DEF SellsUsed
  <2>. QED
    BY <1>5, <2>3, <2>4, <2>5, <2>8, <2>11, <2>13 DEF Ledger
<1>. QED
  BY <1>6, <1>7

(* Every step of the engine keeps a ledger, for the ids given out so far.  *)
LEMMA EngineLedger ==
  ASSUME BookInv, WalkInv, AccountsInv, NEW own, Ledger(own), [EngineNext]_engineVars
  PROVE  \E now : Ledger(now)'
<1>0. BookInv' /\ WalkInv' /\ AccountsInv'
  BY EngineBooks, EngineAccounts
<1>1. CASE UNCHANGED engineVars
  <2>1. UNCHANGED vars /\ UNCHANGED <<users, balances, locks, settled>>
    BY <1>1 DEF engineVars, vars
  <2>2. \A b \in Pairs : OpenOrders(b)' = OpenOrders(b)
    BY <2>1, BooksAlone
  <2>3. UNCHANGED <<phase, book, taker, trades>>
    BY <2>1 DEF vars
  <2>4. \A side, id : Due(side, id)' = Due(side, id)
    BY <2>1, <2>3 DEF Due
  <2>5. OrdersOwned(own)' /\ CallOwned(own)' /\ LocksOwned(own)' /\ LocksHold'
    BY <2>1, <2>2, <2>3 DEF Ledger, OrdersOwned, CallOwned, LocksOwned, LocksHold
  <2>6. OrdersBacked' /\ TradesBacked'
    BY <2>1, <2>2, <2>3, <2>4 DEF Ledger, OrdersBacked, TradesBacked, Holds, Needs
  <2>7. OverIsGone' /\ PanicOfSettlement'
    BY <2>1, <2>2, <2>3
       DEF Ledger, OverIsGone, Over, Rests, PanicOfSettlement, SettlesWell, LockCovers, CreditFits
  <2>8. ASSUME phase # "panicked", NEW user \in Users, NEW id \in DOMAIN locks[user],
               own[id].side = "Sell"
        PROVE  \/ Dropped(id)'
               \/ \E o \in OpenOrders(own[id].pair)' : o.id = id
               \/ locks'[user][id].amount = Due("Sell", id)'
    <3>1. own[id].pair \in Pairs /\ (Dropped(id) => Dropped(id)')
      BY <2>3, <2>8 DEF Ledger, LocksOwned, Dropped
    <3>. QED
      BY <2>1, <2>2, <2>4, <2>8, <3>1 DEF Ledger, SellsUsed
  <2>9. SellsUsed(own)'
    BY <2>1, <2>3, <2>8 DEF SellsUsed
  <2>10. Ledger(own)'
    BY <2>5, <2>6, <2>7, <2>9 DEF Ledger
  <2>. QED
    BY <2>10
<1>2. ASSUME NEW user \in Users, AddUser(user) \/ RemoveUser(user)
      PROVE  \E now : Ledger(now)'
  <2>1. AddUser(user) => phase = "idle" /\ UNCHANGED <<vars, settled, locks>>
    BY DEF AddUser
  <2>2. Ledger(own)'
    BY <1>0, <1>2, <2>1, QuietLedger, RemoveUserLedger
  <2>. QED
    BY <2>2
<1>3. ASSUME NEW user \in Users, NEW asset \in Assets, NEW amount \in Amounts,
             Deposit(user, asset, amount) \/ Withdraw(user, asset, amount)
      PROVE  \E now : Ledger(now)'
  <2>1. phase = "idle" /\ UNCHANGED <<vars, settled, locks>>
    BY <1>3 DEF Deposit, Withdraw
  <2>2. Ledger(own)'
    BY <2>1, QuietLedger
  <2>. QED
    BY <2>2
<1>4. ASSUME NEW pair \in Pairs, AddTradingPair(pair) \/ RemoveTradingPair(pair)
      PROVE  \E now : Ledger(now)'
  <2>1. AddTradingPair(pair) => phase = "idle" /\ UNCHANGED <<vars, settled, locks>>
    BY DEF AddTradingPair
  <2>2. Ledger(own)'
    BY <1>0, <1>4, <2>1, QuietLedger, RemoveTradingPairLedger
  <2>. QED
    BY <2>2
<1>5. ASSUME NEW pair \in Pairs, NEW o \in NewOrder, SubmitOrder(pair, o)
      PROVE  \E now : Ledger(now)'
  BY <1>0, <1>5, SubmitOrderLedger
<1>6. ASSUME NEW pair \in Pairs, NEW id \in OrderIds, CancelAndUnlock(pair, id)
      PROVE  \E now : Ledger(now)'
  <2>1. Ledger(own)'
    BY <1>0, <1>6, CancelLedger
  <2>. QED
    BY <2>1
<1>7. ASSUME NEW pair \in Pairs, NEW id \in OrderIds, NEW price \in Prices, NEW qty \in Quantities,
             ModifyOrder(pair, id, price, qty)
      PROVE  \E now : Ledger(now)'
  <2>1. Ledger(own)'
    BY <1>0, <1>7, ModifyLedger
  <2>. QED
    BY <2>1
<1>8. CASE MatchStep
  <2>1. Ledger(own)'
    BY <1>0, <1>8, MatchLedger
  <2>. QED
    BY <2>1
<1>9. CASE SettleTrade
  <2>1. Ledger(own)'
    BY <1>0, <1>9, SettleLedger
  <2>. QED
    BY <2>1
<1>10. CASE Answer
  <2>1. Ledger(own)'
    BY <1>0, <1>10, AnswerLedger
  <2>. QED
    BY <2>1
<1>. QED
  BY <1>1, <1>2, <1>3, <1>4, <1>5, <1>6, <1>7, <1>8, <1>9, <1>10 DEF EngineNext

(* The inductive invariant of the engine: the books, the accounts and a    *)
(* ledger that says of every lock which order it is for.                   *)
EngineInv == BookInv /\ WalkInv /\ AccountsInv /\ \E own : Ledger(own)

(* It holds through whatever the engine does.                              *)
THEOREM EngineInvariant == EngineSpec => []EngineInv
<1>1. EngineInit => EngineInv
  BY InitAccounts, InitLedger DEF EngineInv
<1>2. EngineInv /\ [EngineNext]_engineVars => EngineInv'
  <2>. SUFFICES ASSUME EngineInv, [EngineNext]_engineVars PROVE EngineInv'
    OBVIOUS
  <2>1. PICK own : Ledger(own)
    BY DEF EngineInv
  <2>2. \E now : Ledger(now)'
    BY <2>1, EngineLedger DEF EngineInv
  <2>3. BookInv' /\ WalkInv' /\ AccountsInv'
    BY EngineBooks, EngineAccounts DEF EngineInv
  <2>. QED
    BY <2>2, <2>3 DEF EngineInv
<1>. QED
  BY <1>1, <1>2, PTL DEF EngineSpec

(* A lock holds no more than the balance, which fits in a Quantity.        *)
LEMMA LockWithin ==
  ASSUME AccountsInv, NEW user \in Users, NEW id \in DOMAIN locks[user]
  PROVE  locks[user][id].amount \in Nat /\ locks[user][id].amount <= QuantityMax
<1>. DEFINE held == locks[user]
            asset == held[id].asset
            others == LockedOf(Unlocked(held, {id}), asset)
            all == LockedOf(held, asset)
            balance == balances[user][asset]
            amount == held[id].amount
<1>1. Held(held) /\ held[id] \in Lock /\ amount \in Nat /\ asset \in Assets
  BY AccountsFacts DEF AccountsInv, Held, IsLocks, Lock
<1>2. all = others + AmountIn(held[id], asset)
  BY <1>1, LockedApart
<1>3. AmountIn(held[id], asset) = amount
  BY DEF AmountIn
<1>4. others \in Nat
  <2>1. Held(Unlocked(held, {id}))
    BY <1>1, UnlockedLocks
  <2>. QED
    BY <2>1, LockedIsNatural
<1>5. all <= balance /\ balance \in Nat /\ balance <= QuantityMax
  BY <1>1, AccountsFacts DEF AccountsInv, Fits
<1>. HIDE DEF others, all, balance
<1>6. amount <= QuantityMax
  BY <1>1, <1>2, <1>3, <1>4, <1>5, QuantityMaxAssumption
<1>. QED
  BY <1>1, <1>6

(* Between two calls the orders of a side of a book are open, and of that  *)
(* side.                                                                   *)
LEMMA OrdersAreOpen ==
  ASSUME BookInv, WalkInv, phase = "idle", NEW pair \in Pairs, NEW side \in Sides,
         NEW o \in Orders(pair, side)
  PROVE  o \in OpenOrders(pair) /\ o.side = side
<1>. DEFINE sides == levels[pair][side]
<1>1. /\ Depths(pair) \in Depth /\ Agree(orders_map[pair], Depths(pair)) /\ Typed
      /\ OpenOrders(pair) = OrdersIn(Depths(pair)) /\ parked = NoLevels
      /\ levels[pair] \in [Sides -> BookSide]
      /\ \A p \in Prices : Depths(pair)[side][p] = Queue(pair, side, p)
  <2>1. Typed /\ parked = NoLevels
    BY IdleBooks DEF BookInv
  <2>. QED
    BY <2>1, IdleBooks, UnparkedDepths, DepthsType DEF BookInv, Consistent
<1>2. PICK p \in DOMAIN sides : o \in Range(sides[p])
  BY DEF Orders
<1>3. p \in Prices
  BY <1>1, BookSideIsSide DEF IsSide
<1>4. Depths(pair)[side][p] = sides[p]
  BY <1>1, <1>3, UnparkedQueue DEF QueueAt
<1>. HIDE DEF sides
<1>5. PICK i \in DOMAIN sides[p] : sides[p][i] = o
  BY <1>2 DEF Range
<1>6. o \in OrdersIn(Depths(pair))
  BY <1>1, <1>3, <1>4, <1>5, EntriesOf
<1>7. Known(orders_map[pair], side, p, o)
  BY <1>1, <1>3, <1>4, <1>5 DEF Agree, AllKnown
<1>. QED
  BY <1>1, <1>6, <1>7 DEF Known

(* Between two calls every resting order is covered by its own lock: a sell*)
(* order by exactly what it still sells, a buy order by at least what it   *)
(* would cost at its limit, after any sequence of fills and modifications. *)
THEOREM LocksCoverOrders == EngineSpec => []OrdersCovered
<1>1. EngineInv => OrdersCovered
  <2>. SUFFICES ASSUME EngineInv, phase = "idle", NEW pair \in Pairs, NEW side \in Sides,
                       NEW o \in Orders(pair, side)
                PROVE  /\ LockCovers(o.user, o.id, Spends(pair, side), Cost(side, o.price, o.rem))
                       /\ side = "Sell" => locks[o.user][o.id].amount = o.rem
    BY DEF OrdersCovered
  <2>1. PICK own : Ledger(own)
    BY DEF EngineInv
  <2>2. NothingDue /\ OpenTyped /\ o \in OpenOrders(pair) /\ o.side = side
    BY NothingIsDue, OpenAreTyped, OrdersAreOpen DEF EngineInv
  <2>3. Needs(o) = Cost(side, o.price, o.rem)
    <3>1. Cost(o.side, o.price, o.rem) \in Nat /\ Due(o.side, o.id) = 0
      BY <2>2 DEF OpenTyped, NothingDue
    <3>. QED
      BY <2>2, <3>1 DEF Needs
  <2>4. /\ o.id \in DOMAIN locks[o.user] /\ Needs(o) <= locks[o.user][o.id].amount
        /\ side = "Sell" => locks[o.user][o.id].amount = Needs(o)
    BY <2>1, <2>2 DEF Ledger, OrdersBacked, Holds
  <2>5. locks[o.user][o.id].asset = Spends(pair, side)
    <3>1. own[o.id].pair = pair /\ own[o.id].side = side
      BY <2>1, <2>2, Owners
    <3>. QED
      BY <2>1, <2>2, <2>4, <3>1 DEF Ledger, LocksOwned, OpenTyped
  <2>6. side = "Sell" => Cost(side, o.price, o.rem) = o.rem
    BY DEF Cost
  <2>. QED
    BY <2>3, <2>4, <2>5, <2>6 DEF LockCovers
<1>. QED
  BY <1>1, EngineInvariant, PTL

(* A lock that outlives its order is a buyer's, for what was bought below  *)
(* the limit: a cancelled, refused or killed order and a fully filled sell *)
(* order leave nothing locked.                                             *)
THEOREM OnlyBuyersLeaveLocks == EngineSpec => []LeftoverLocksAreBuyers
<1>1. EngineInv => LeftoverLocksAreBuyers
  <2>. SUFFICES ASSUME EngineInv, phase = "idle", NEW user \in Users, NEW id \in DOMAIN locks[user],
                       \A pair \in Pairs : id \notin DOMAIN orders_map[pair]
                PROVE  /\ locks[user][id].amount > 0
                       /\ \E pair \in Pairs : locks[user][id].asset = pair.quote
    BY DEF LeftoverLocksAreBuyers
  <2>1. PICK own : Ledger(own)
    BY DEF EngineInv
  <2>2. NothingDue /\ locks[user][id].amount > 0
    BY <2>1, NothingIsDue DEF EngineInv, Ledger, LocksHold
  <2>3. /\ own[id].pair \in Pairs /\ own[id].side \in Sides
        /\ locks[user][id].asset = Spends(own[id].pair, own[id].side)
    BY <2>1 DEF Ledger, LocksOwned
  <2>4. \A o \in OpenOrders(own[id].pair) : o.id # id
    BY <2>3, KnownIsOpen DEF EngineInv
  <2>5. own[id].side # "Sell"
    <3>1. ~Dropped(id) /\ Due("Sell", id) = 0
      BY <2>2 DEF Dropped, NothingDue
    <3>2. locks[user][id].amount \in Nat
      BY LockWithin DEF EngineInv
    <3>. QED
      BY <2>1, <2>2, <2>4, <3>1, <3>2 DEF Ledger, SellsUsed
  <2>6. own[id].side = "Buy"
    BY <2>3, <2>5 DEF Sides
  <2>. QED
    BY <2>2, <2>3, <2>6 DEF Spends
<1>. QED
  BY <1>1, EngineInvariant, PTL

(* Settlement can fail for one reason only, that a credited balance        *)
(* overflows: the parties, the locks and the notionals are always in order,*)
(* however many trades a call makes.                                       *)
THEOREM OnlyOverflowPanics == EngineSpec => []SettlementFailsOnlyOnOverflow
<1>1. EngineInv => SettlementFailsOnlyOnOverflow
  <2>. SUFFICES ASSUME EngineInv, phase = "panicked", NEW t, t = trades[settled + 1],
                       CreditFits(t.buyer, book.base, t.qty),
                       CreditFits(t.seller, book.quote, t.price * t.qty)
                PROVE  FALSE
    BY DEF SettlementFailsOnlyOnOverflow
  <2>1. PICK own : Ledger(own)
    BY DEF EngineInv
  <2>2. settled < Len(trades) /\ ~SettlesWell(t)
    BY <2>1 DEF Ledger, PanicOfSettlement
  <2>3. trades \in Seq(Trade) /\ settled \in Nat
    BY DEF EngineInv, BookInv, Typed, AccountsInv, CallsOK
  <2>4. settled + 1 \in DOMAIN trades /\ settled + 1 > settled
    BY <2>2, <2>3, LenProperties
  <2>5. t \in Trade /\ t.buyer \in Users /\ t.seller \in Users
    <3>1. t \in Trade
      BY <2>3, <2>4, ElementOfSeq, LenProperties
    <3>. QED
      BY <3>1 DEF Trade
  <2>6. /\ Holds(t.buyer, t.bid, Due("Buy", t.bid)) /\ Holds(t.seller, t.ask, Due("Sell", t.ask))
        /\ own[t.bid].side = "Buy" /\ own[t.bid].pair = book
        /\ own[t.ask].side = "Sell" /\ own[t.ask].pair = book
    BY <2>1, <2>4, Owners DEF Ledger, TradesBacked
  <2>7. /\ t.bid \in DOMAIN locks[t.buyer] /\ Due("Buy", t.bid) <= locks[t.buyer][t.bid].amount
        /\ t.ask \in DOMAIN locks[t.seller] /\ Due("Sell", t.ask) <= locks[t.seller][t.ask].amount
    BY <2>6 DEF Holds
  <2>8. /\ locks[t.buyer][t.bid].asset = book.quote /\ locks[t.seller][t.ask].asset = book.base
    BY <2>1, <2>5, <2>6, <2>7 DEF Ledger, LocksOwned, Spends
  <2>9. /\ Debit("Buy", t) <= Due("Buy", t.bid) /\ Debit("Sell", t) <= Due("Sell", t.ask)
    <3>1. Party("Buy", t) = t.bid /\ Party("Sell", t) = t.ask
      BY DEF Party
    <3>. QED
      BY <2>3, <2>4, <3>1, OwedCovers DEF Due
  <2>10. /\ Debit("Buy", t) \in Nat /\ Due("Buy", t.bid) \in Nat
         /\ Debit("Sell", t) \in Nat /\ Due("Sell", t.ask) \in Nat
    BY <2>3, <2>4, OwedType DEF Due
  <2>11. /\ locks[t.buyer][t.bid].amount \in Nat /\ locks[t.buyer][t.bid].amount <= QuantityMax
         /\ locks[t.seller][t.ask].amount \in Nat
    BY <2>5, <2>7, LockWithin DEF EngineInv
  <2>. DEFINE notional == t.price * t.qty
  <2>12. notional = Debit("Buy", t) /\ t.qty = Debit("Sell", t)
    BY DEF Debit
  <2>. HIDE DEF notional
  <2>13. /\ notional <= QuantityMax /\ notional <= locks[t.buyer][t.bid].amount
         /\ t.qty <= locks[t.seller][t.ask].amount
    BY <2>7, <2>9, <2>10, <2>11, <2>12, QuantityMaxAssumption
  <2>14. t.buyer \in users /\ t.seller \in users
    BY <2>5, <2>7 DEF EngineInv, AccountsInv, Registered
  <2>. QED
    BY <2>2, <2>7, <2>8, <2>13, <2>14 DEF SettlesWell, LockCovers, notional
<1>. QED
  BY <1>1, EngineInvariant, PTL

(* A modification that passes the check of the available funds also gets   *)
(* its new lock: it never ends with the old order cancelled and the new one*)
(* not placed.                                                             *)
THEOREM ModifyKeepsTheOrder == EngineSpec => []ModifyNeverLosesTheOrder
<1>1. EngineInv => ModifyNeverLosesTheOrder
  <2>. SUFFICES ASSUME EngineInv, phase = "idle", NEW pair \in pairs, NEW id \in DOMAIN orders_map[pair],
                       NEW price \in Prices, NEW qty \in Quantities,
                       ModifyAffordable(pair, id, price, qty)
                PROVE  ModifyLocks(pair, id, price, qty)
    BY DEF ModifyNeverLosesTheOrder
  <2>. DEFINE old == orders_map[pair][id]
              held == locks[old.user]
              asset == Spends(pair, old.side)
              cost == Cost(old.side, price, qty)
              others == LockedOf(Unlocked(held, {id}), asset)
  <2>1. PICK own : Ledger(own)
    BY DEF EngineInv
  <2>2. pair \in Pairs /\ OpenTyped
    BY OpenAreTyped DEF EngineInv, AccountsInv, AccountsOK
  <2>3. PICK o \in OpenOrders(pair) : o.id = id /\ o.user = old.user /\ o.side = old.side
    BY <2>2, KnownIsOpen DEF EngineInv
  <2>4. old.user \in Users /\ old.side \in Sides
    BY <2>2, <2>3 DEF OpenTyped
  <2>5. id \in DOMAIN held /\ held[id].asset = asset
    <3>1. o.id \in DOMAIN locks[o.user] /\ own[o.id].pair = pair /\ own[o.id].side = o.side
      BY <2>1, <2>2, <2>3, Owners DEF Ledger, OrdersBacked, Holds
    <3>. QED
      BY <2>1, <2>3, <2>4, <3>1 DEF Ledger, LocksOwned
  <2>6. Held(held) /\ held[id].amount \in Nat /\ AmountIn(held[id], asset) = held[id].amount
    BY <2>4, <2>5, AccountsFacts, LockWithin DEF EngineInv, AccountsInv, AmountIn
  <2>7. price \in Nat /\ qty \in Nat
    BY PricesAssumption, QuantitiesAssumption
  <2>8. cost \in Nat /\ asset \in Assets
    BY <2>2, <2>4, <2>7, CostType
  <2>9. LockedOf(held, asset) = others + held[id].amount
    BY <2>5, <2>6, LockedApart
  <2>10. others \in Nat
    <3>1. Held(Unlocked(held, {id}))
      BY <2>6, UnlockedLocks
    <3>. QED
      BY <3>1, LockedIsNatural
  <2>11. /\ AvailableBalance(old.user, asset) = balances[old.user][asset] - LockedOf(held, asset)
         /\ balances[old.user][asset] \in Nat
    BY <2>4, <2>8, AvailableIs, AccountsFacts DEF EngineInv, AccountsInv
  <2>12. cost <= AvailableBalance(old.user, asset) + held[id].amount
    BY <2>5 DEF ModifyAffordable
  <2>13. cost + others <= balances[old.user][asset]
    <3>. DEFINE available == AvailableBalance(old.user, asset)
                balance == balances[old.user][asset]
                all == LockedOf(held, asset)
                amount == held[id].amount
    <3>1. /\ cost \in Nat /\ others \in Nat /\ amount \in Nat /\ balance \in Nat
          /\ all = others + amount /\ available = balance - all /\ cost <= available + amount
      BY <2>6, <2>8, <2>9, <2>10, <2>11, <2>12
    <3>. HIDE DEF cost, others, amount, balance, all, available
    <3>2. cost + others <= balance
      BY <3>1
    <3>. QED
      BY <3>2 DEF balance
  <2>. QED
    BY <2>13 DEF ModifyLocks
<1>. QED
  BY <1>1, EngineInvariant, PTL
==============================================================================
