------------------------------ MODULE CoreEngine ------------------------------
(***************************************************************************)
(* The matching engine of engine/src/engine/mod.rs with the accounts of    *)
(* engine/src/user/mod.rs: the books of OrderBook, one per trading pair,   *)
(* composed with the users' balances and the funds locked for their        *)
(* orders.  An order is locked for, matched (OrderBook's walk), settled    *)
(* trade by trade once the whole walk is over, and answered.               *)
(*                                                                         *)
(* Order ids come from the snowflake generator, so a new order's id is one *)
(* that nothing in the engine remembers.                                   *)
(***************************************************************************)
EXTENDS OrderBook

CONSTANTS
  Assets,      \* what balances are kept in
  Amounts,     \* amounts of a deposit or a withdrawal
  QuantityMax  \* u32::MAX, above which a balance or a notional does not go

ASSUME PairsAssumption == Pairs \subseteq [base: Assets, quote: Assets]
ASSUME QuantityMaxAssumption == QuantityMax \in Nat
ASSUME AmountsAssumption == Amounts \subseteq Nat

VARIABLES
  pairs,     \* the trading pairs that have a book
  users,     \* the users the engine knows
  balances,  \* balances[user][asset]: total balance, locked funds included
  locks,     \* locks[user]: order id -> the funds locked for that order
  settled    \* how many of `trades' have been settled

accountVars == <<pairs, users, balances, locks, settled>>
engineVars == <<levels, orders_map, phase, book, taker, cursor, parked, trades,
                pairs, users, balances, locks, settled>>

-----------------------------------------------------------------------------
(* Funds                                                                   *)

Lock == [asset: Assets, amount: Nat]

(* What the locks of a user hold of an asset.                              *)
LockedOf(held, asset) ==
  SumFunctionOnSet([id \in DOMAIN held |-> held[id].amount],
                   {id \in DOMAIN held : held[id].asset = asset})

LockedBalance(user, asset) ==
  LockedOf(locks[user], asset)

(* Mutant of AvailableBalance: locked funds are available, too.            *)
AllOfTheBalance(user, asset) == balances[user][asset]

(* saturating_sub: never below zero.                                       *)
AvailableBalance(user, asset) ==
  LET locked == LockedBalance(user, asset)
  IN  IF locked <= balances[user][asset] THEN balances[user][asset] - locked ELSE 0

(* The asset an order spends.                                              *)
Spends(pair, side) == IF side = "Buy" THEN pair.quote ELSE pair.base

(* Mutant of Cost: a buy order locks its quantity, not its notional.       *)
QuantityAsCost(side, price, qty) == qty

(* lock_amount_for: what an order over qty at `price' has to have locked.  *)
Cost(side, price, qty) == IF side = "Buy" THEN price * qty ELSE qty

LockFor(pair, side, price, qty) ==
  [asset |-> Spends(pair, side), amount |-> Cost(side, price, qty)]

(* The locks of a user with one more, or without one.                      *)
WithLock(held, id, lock) ==
  [i \in DOMAIN held \cup {id} |-> IF i = id THEN lock ELSE held[i]]

Unlocked(held, ids) == [i \in DOMAIN held \ ids |-> held[i]]

(* validate_order: the notional fits in a Quantity.                        *)
ValidOrder(price, qty) == price * qty <= QuantityMax

-----------------------------------------------------------------------------
(* Users and their balances                                                *)

AddUser(user) ==
  /\ phase = "idle"
  /\ user \notin users
  /\ users' = users \cup {user}
  /\ UNCHANGED <<vars, pairs, balances, locks, settled>>

(* Mutant of RemoveUser: the user's orders stay in the books.              *)
RemoveAccountOnly(user) ==
  /\ phase = "idle"
  /\ user \in users
  /\ users' = users \ {user}
  /\ balances' = [balances EXCEPT ![user] = [asset \in Assets |-> 0]]
  /\ locks' = [locks EXCEPT ![user] = [id \in {} |-> Nil]]
  /\ UNCHANGED <<vars, pairs, settled>>

(* The user's orders leave every book, and the account goes.               *)
RemoveUser(user) ==
  /\ phase = "idle"
  /\ user \in users
  /\ levels' = [pair \in Pairs |->
                 [side \in Sides |-> WithoutUser(levels[pair][side], user)]]
  /\ orders_map' = [pair \in Pairs |->
                     Forget(orders_map[pair],
                            {id \in DOMAIN orders_map[pair] : orders_map[pair][id].user = user})]
  /\ users' = users \ {user}
  /\ balances' = [balances EXCEPT ![user] = [asset \in Assets |-> 0]]
  /\ locks' = [locks EXCEPT ![user] = [id \in {} |-> Nil]]
  /\ UNCHANGED <<callVars, pairs, settled>>

(* A deposit that would overflow the balance is rejected.                  *)
Deposit(user, asset, amount) ==
  /\ phase = "idle"
  /\ user \in users
  /\ balances[user][asset] + amount <= QuantityMax
  /\ balances' = [balances EXCEPT ![user][asset] = @ + amount]
  /\ UNCHANGED <<vars, pairs, users, locks, settled>>

(* A withdrawal takes available funds only.                                *)
Withdraw(user, asset, amount) ==
  /\ phase = "idle"
  /\ user \in users
  /\ amount <= AvailableBalance(user, asset)
  /\ balances' = [balances EXCEPT ![user][asset] = @ - amount]
  /\ UNCHANGED <<vars, pairs, users, locks, settled>>

-----------------------------------------------------------------------------
(* Trading pairs                                                           *)

AddTradingPair(pair) ==
  /\ phase = "idle"
  /\ pair \notin pairs
  /\ pairs' = pairs \cup {pair}
  /\ UNCHANGED <<vars, users, balances, locks, settled>>

(* The book goes, and the funds locked for its orders are released.        *)
RemoveTradingPair(pair) ==
  /\ phase = "idle"
  /\ pair \in pairs
  /\ pairs' = pairs \ {pair}
  /\ levels' = [levels EXCEPT ![pair] = [side \in Sides |-> NoLevels]]
  /\ orders_map' = [orders_map EXCEPT ![pair] = [id \in {} |-> Nil]]
  /\ locks' = [user \in Users |->
                Unlocked(locks[user],
                         {id \in DOMAIN orders_map[pair] : orders_map[pair][id].user = user})]
  /\ UNCHANGED <<callVars, users, balances, settled>>

-----------------------------------------------------------------------------
(* Orders                                                                  *)

(* Nothing in the engine remembers this id.                                *)
Fresh(id) ==
  /\ \A pair \in Pairs : id \notin DOMAIN orders_map[pair]
  /\ \A user \in Users : id \notin DOMAIN locks[user]

(* add_order up to the walk: the whole order is locked for first.          *)
SubmitOrder(pair, o) ==
  /\ Fresh(o.id)
  /\ pair \in pairs
  /\ o.user \in users
  /\ ValidOrder(o.price, o.rem)
  /\ Cost(o.side, o.price, o.rem) <= AvailableBalance(o.user, Spends(pair, o.side))
  /\ locks' = [locks EXCEPT ![o.user] =
                WithLock(@, o.id, LockFor(pair, o.side, o.price, o.rem))]
  /\ AddOrder(pair, o)
  /\ UNCHANGED <<pairs, users, balances, settled>>

(* The engine's cancel_order: out of the book, and the lock released.      *)
CancelAndUnlock(pair, id) ==
  /\ pair \in pairs
  /\ CancelOrder(pair, id)
  /\ locks' = [locks EXCEPT ![orders_map[pair][id].user] = Unlocked(@, {id})]
  /\ UNCHANGED <<pairs, users, balances, settled>>

(* Mutant of ModifyAffordable: the locks of other orders are overlooked.   *)
AffordableFromTotal(pair, id, price, qty) ==
  LET old == orders_map[pair][id]
  IN  Cost(old.side, price, qty) <= balances[old.user][Spends(pair, old.side)]

(* modify_order's pre-check: the old lock counts towards the new one.      *)
ModifyAffordable(pair, id, price, qty) ==
  LET old == orders_map[pair][id]
      old_locked == IF id \in DOMAIN locks[old.user] THEN locks[old.user][id].amount ELSE 0
  IN  Cost(old.side, price, qty)
        <= AvailableBalance(old.user, Spends(pair, old.side)) + old_locked

(* The lock that follows, once the old order's is released.                *)
ModifyLocks(pair, id, price, qty) ==
  LET old == orders_map[pair][id]
      held == Unlocked(locks[old.user], {id})
      asset == Spends(pair, old.side)
  IN  Cost(old.side, price, qty) + LockedOf(held, asset) <= balances[old.user][asset]

(* modify_order: the order leaves the book and comes back at the end of    *)
(* the queue at its new price, under the same id, to be matched again.     *)
(* Were the new lock refused, the order would be gone.                     *)
ModifyOrder(pair, id, price, qty) ==
  /\ phase = "idle"
  /\ pair \in pairs
  /\ id \in DOMAIN orders_map[pair]
  /\ ValidOrder(price, qty)
  /\ ModifyAffordable(pair, id, price, qty)
  /\ LET old == orders_map[pair][id]
         new == [old EXCEPT !.price = price, !.rem = qty]
         cancelled == Removed(levels[pair][old.side], old.price, id)
         locked == ModifyLocks(pair, id, price, qty)
     IN  /\ levels' = [levels EXCEPT ![pair][old.side] =
                        IF locked THEN Inserted(cancelled, new) ELSE cancelled]
         /\ orders_map' = [orders_map EXCEPT ![pair] =
                            IF locked THEN Remember(@, new) ELSE Forget(@, {id})]
         /\ locks' = [locks EXCEPT ![old.user] =
                       IF locked THEN WithLock(@, id, LockFor(pair, old.side, price, qty))
                                 ELSE Unlocked(@, {id})]
         /\ IF locked
            THEN phase' = "walk" /\ book' = pair /\ taker' = new
            ELSE UNCHANGED <<phase, book, taker>>
  /\ UNCHANGED <<cursor, parked, trades, pairs, users, balances, settled>>

(* A step of the walk.                                                     *)
MatchStep == Match /\ UNCHANGED accountVars

-----------------------------------------------------------------------------
(* Settlement                                                              *)

(* apply_fill takes `debit' off the lock of an order and credits what the  *)
(* order receives.  It fails if the lock does not cover the debit or the   *)
(* credited balance would overflow.                                        *)
LockCovers(user, id, asset, debit) ==
  /\ id \in DOMAIN locks[user]
  /\ locks[user][id].asset = asset
  /\ debit <= locks[user][id].amount

(* Mutants of AfterDebit: the first fill releases the whole lock; a lock   *)
(* that has been spent stays, empty.                                       *)
ReleasedByFirstFill(held, id, debit) == Unlocked(held, {id})

KeptWhenSpent(held, id, debit) == [held EXCEPT ![id].amount = @ - debit]

AfterDebit(held, id, debit) ==
  IF held[id].amount = debit THEN Unlocked(held, {id})
  ELSE [held EXCEPT ![id].amount = @ - debit]

(* Mutant of CreditFits: credits are not checked for overflow.             *)
CreditUnchecked(user, asset, credit) == TRUE

CreditFits(user, asset, credit) == balances[user][asset] + credit <= QuantityMax

SettlesWell(t) ==
  LET notional == t.price * t.qty
  IN  /\ t.buyer \in users /\ t.seller \in users
      /\ notional <= QuantityMax
      /\ LockCovers(t.buyer, t.bid, book.quote, notional)
      /\ LockCovers(t.seller, t.ask, book.base, t.qty)
      /\ CreditFits(t.buyer, book.base, t.qty)
      /\ CreditFits(t.seller, book.quote, notional)

(* settle_trades, one trade: the buyer's fill, then the seller's.  Any     *)
(* failure is a panic, which ends the process: what it had half done by    *)
(* then is not kept.                                                       *)
SettleTrade ==
  /\ phase = "matched"
  /\ settled < Len(trades)
  /\ LET t == trades[settled + 1]
         notional == t.price * t.qty
     IN  \/ /\ SettlesWell(t)
            /\ locks' = [locks EXCEPT ![t.buyer] = AfterDebit(@, t.bid, notional),
                                      ![t.seller] = AfterDebit(@, t.ask, t.qty)]
            /\ balances' = [balances EXCEPT ![t.buyer][book.base] = @ + t.qty,
                                            ![t.seller][book.quote] = @ + notional]
            /\ settled' = settled + 1
            /\ UNCHANGED phase
         \/ /\ ~SettlesWell(t)
            /\ phase' = "panicked"
            /\ UNCHANGED <<locks, balances, settled>>
  /\ UNCHANGED <<levels, orders_map, book, taker, cursor, parked, trades, pairs, users>>

(* The call is answered.  What is left of the lock of a fill-and-kill or   *)
(* of a refused order is released.                                         *)
Answer ==
  /\ phase = "matched" => settled = Len(trades)
  /\ Return
  /\ settled' = 0
  /\ locks' = IF phase = "rejected" \/ taker.type = "FAK"
              THEN [locks EXCEPT ![taker.user] = Unlocked(@, {taker.id})]
              ELSE locks
  /\ UNCHANGED <<pairs, users, balances>>

-----------------------------------------------------------------------------
EngineInit ==
  /\ Init
  /\ pairs = {}
  /\ users = {}
  /\ balances = [user \in Users |-> [asset \in Assets |-> 0]]
  /\ locks = [user \in Users |-> [id \in {} |-> Nil]]
  /\ settled = 0

EngineNext ==
  \/ \E user \in Users : AddUser(user) \/ RemoveUser(user)
  \/ \E user \in Users, asset \in Assets, amount \in Amounts :
       Deposit(user, asset, amount) \/ Withdraw(user, asset, amount)
  \/ \E pair \in Pairs : AddTradingPair(pair) \/ RemoveTradingPair(pair)
  \/ \E pair \in Pairs, o \in NewOrder : SubmitOrder(pair, o)
  \/ \E pair \in Pairs, id \in OrderIds : CancelAndUnlock(pair, id)
  \/ \E pair \in Pairs, id \in OrderIds, price \in Prices, qty \in Quantities :
       ModifyOrder(pair, id, price, qty)
  \/ MatchStep
  \/ SettleTrade
  \/ Answer

EngineSpec == EngineInit /\ [][EngineNext]_engineVars

-----------------------------------------------------------------------------
(* Properties                                                              *)

IsLocks(held) ==
  /\ DOMAIN held \subseteq OrderIds
  /\ held \in [DOMAIN held -> Lock]

(* Every variable has its type.  A balance stays within a Quantity.        *)
EngineTypeOK ==
  /\ TypeOK
  /\ pairs \subseteq Pairs
  /\ users \subseteq Users
  /\ balances \in [Users -> [Assets -> 0..QuantityMax]]
  /\ locks = [user \in Users |-> locks[user]]
  /\ \A user \in Users : IsLocks(locks[user])
  /\ settled \in 0..Len(trades)

(* The books and the accounts know the same users and pairs: a user the    *)
(* engine has removed has no order in any book and nothing locked, and a   *)
(* pair it has removed has no orders.  Settlement looks both parties of a  *)
(* fill up and panics if one is missing.                                   *)
NothingOfTheRemoved ==
  /\ \A user \in Users \ users :
       /\ DOMAIN locks[user] = {}
       /\ \A pair \in Pairs : \A id \in DOMAIN orders_map[pair] :
            orders_map[pair][id].user # user
  /\ \A pair \in Pairs \ pairs : DOMAIN orders_map[pair] = {}

(* No user ever has more locked of an asset than the balance holds, through*)
(* locks, modifications, fills, withdrawals and removals: the subtraction  *)
(* behind the available balance never saturates.                           *)
LockedWithinBalance ==
  \A user \in Users, asset \in Assets :
    LockedBalance(user, asset) <= balances[user][asset]

(* Between two calls every resting order is covered by its own lock: a sell*)
(* order by exactly what it still sells, a buy order by at least what it   *)
(* would cost at its limit.                                                *)
OrdersCovered ==
  phase = "idle" =>
    \A pair \in Pairs, side \in Sides : \A o \in Orders(pair, side) :
      /\ LockCovers(o.user, o.id, Spends(pair, side), Cost(side, o.price, o.rem))
      /\ side = "Sell" => locks[o.user][o.id].amount = o.rem

(* A lock that outlives its order is a buyer's: what an order bought below *)
(* its limit leaves of it.  Cancelled, refused and killed orders and fully *)
(* filled sell orders leave nothing locked.                                *)
LeftoverLocksAreBuyers ==
  phase = "idle" =>
    \A user \in Users : \A id \in DOMAIN locks[user] :
      (\A pair \in Pairs : id \notin DOMAIN orders_map[pair]) =>
        /\ locks[user][id].amount > 0
        /\ \E pair \in Pairs : locks[user][id].asset = pair.quote

(* The only way settlement can fail is that a credited balance overflows:  *)
(* parties, locks and notionals are always in order, however many fills one*)
(* call makes and in whatever order they are settled.                      *)
SettlementFailsOnlyOnOverflow ==
  phase = "panicked" =>
    LET t == trades[settled + 1]
    IN  \/ ~CreditFits(t.buyer, book.base, t.qty)
        \/ ~CreditFits(t.seller, book.quote, t.price * t.qty)

(* A modification that passes the pre-check also gets its new lock, so it  *)
(* never ends with the old order cancelled and the new one not placed.     *)
ModifyNeverLosesTheOrder ==
  phase = "idle" =>
    \A pair \in pairs : \A id \in DOMAIN orders_map[pair] :
      \A price \in Prices, qty \in Quantities :
        ValidOrder(price, qty) /\ ModifyAffordable(pair, id, price, qty) =>
          ModifyLocks(pair, id, price, qty)

-----------------------------------------------------------------------------
(* What the documentation says of the engine and the runs refute           *)

TotalBalance(asset) ==
  SumFunctionOnSet([user \in Users |-> balances[user][asset]], Users)

(* A fill moves funds from one user to the other: settling a trade changes *)
(* no asset's total.                                                       *)
FillsConserveFunds ==
  [][settled' = settled + 1 =>
       \A asset \in Assets : TotalBalance(asset)' = TotalBalance(asset)]_engineVars

(* A lock is removed when its order is cancelled or fully filled: between  *)
(* two calls every lock is that of an open order.                          *)
LocksAreOfOpenOrders ==
  phase = "idle" =>
    \A user \in Users : \A id \in DOMAIN locks[user] :
      \E pair \in Pairs : id \in DOMAIN orders_map[pair]

(* Fills derive from locked and validated balances: settlement never fails.*)
SettlementNeverFails == phase # "panicked"
=============================================================================
