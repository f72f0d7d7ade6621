# Vertex Exchange: specification, model checking and proofs

This directory specifies the matching engine of Vertex Exchange in TLA+, checks it with TLC
and proves facts about it with TLAPS. Paths below are relative to the repository;
`PROJECT.json` maps every definition to the lines it translates.

## 1. The system

A matching engine in Rust (`engine/`) does the trading; a gateway in Go (`api-gateway/`) gives
it a REST and WebSocket face and keeps a database. They talk over gRPC (commands) and a Redis
stream (fills).

```
 HTTP/WS clients -> gateway handlers --gRPC--> engine actor -> WalEngine -> CoreEngine -> OrderBook
                      |  |  |                     |               |
                      |  |  registry, cache       |               +-> log file
                      |  Postgres <- fills consumer <- Redis stream <- fill publisher
                      +-> WebSocket hub <- onFill, depth throttle
```

| Component | State | Operations | Correct when |
|---|---|---|---|
| **Order book** `engine/src/orderbook` | per pair: `bids_map`, `asks_map` (price to FIFO queue), `orders_map` (id to order) | `add_order` (`match_order` for resting orders, `match_against_opposite` for FAK and FOK), `cancel_order`, `cancel_orders_for_user` | the three maps agree; calls return; fills are between different users, at a price both accept; FOK is all or nothing; price-time priority |
| **Core engine** `engine/src/engine`, `user` | books by pair; users with `balances` and `locked_orders` | `add_order`, `cancel_order`, `modify_order`, `settle_trades`, deposit, withdraw, add and remove users and pairs | locks cover orders and stay within balances; funds are conserved; settlement does not fail; a refused modification changes nothing |
| **Write-ahead log** `engine/src/wal` | a file of JSON lines, the sequence number | append before (cancel: after) each command, replay on start | recovery restores every command that was answered, in order, once |
| **Snowflake** `engine/src/snowflake_id` | last timestamp, sequence | `next_id` | ids are never reused, also over restarts |
| **Engine actor** `engine/src/grpc`, `main.rs` | a command channel (100) | serves one command at a time, publishes fills, replies; a panic ends the process | every command is answered or the process ends |
| **Fill publisher** `engine/src/redis` | a channel (1024), the stream (about 10 000 entries) | batches fills into `XADD`s, drops a batch that fails | fills leave in the order they were made, and only a fault or the length of the stream takes one |
| **Fills consumer** `internal/fills`, `db/fills.go` | consumer group, batches in flight, `trades` and `orders` rows | read, push to `onFill`, persist, acknowledge | every fill it is given is applied to the database once, unless a fault leaves it pending |
| **Order handlers** `internal/server/orders.go`, `db/store.go`, `liveorders` | rows of `orders`, the registry of live orders | submit, cancel, modify, hydrate on start | database, registry and engine agree once fills are drained |
| **WebSocket hub** `internal/ws`, `server/ws.go` | topic subscriptions, one channel per client | subscribe, broadcast, unsubscribe | no send on a closed channel; slow clients are dropped once |
| **Depth throttle** `server/depth_throttle.go` | last firing, timer, dirty flag per pair | `Request`, timer | the last request is followed by a refresh; at most one per interval |
| **Balance cache** `internal/balancecache` | cached available balances | get, set, invalidate | a stale entry never refuses an order for longer than its lifetime |
| **Rate limiter** `internal/ratelimit` | token buckets | `Allow`, sweep | never more than burst + rate * time |
| auth, config, clients, tools, scripts | none of their own | | |

Hard behaviours, in the order of what they can cost:

- *Matching around self-trades.* A user's orders never trade with each other: the walk rotates
  queues, counts skips and turns against lengths taken when a level was entered, and sets
  whole levels aside. Termination, priority and what is left crossed hang on these counters.
- *Three maps kept in step by hand*, in five places, in the middle of a walk.
- *Settlement after the fact.* Fills are settled once the walk is over; by then the book has
  changed, so the only answer to a failure is a panic.
- *Crash and recovery*: log-before-mutate except for cancellations, no truncation of a torn
  tail, corrupt entries skipped, a panicking entry replayed.
- *Fills are asynchronous*: an order can be filled before the gateway has a row for it; a fill
  can race with cancelling, modifying, restarting; deliveries are lost or repeated.
- *Goroutines*: hub and throttle share maps and channels between goroutines.

`PROJECT.json` lists each of these as a hazard at its line, with the properties that would
catch it going wrong, or the reason why there is none.

## 2. What is here

| Module | What it is |
|---|---|
| `Levels` | the containers: sides as functions from the prices that have a level to queues, and what the code does to them |
| `OrderBook` | the order book, one action per step of `add_order`'s walk and per other operation; its properties |
| `OpenOrders` | abstract specification: what a matching engine promises of the orders that are open, without levels, queues or lookups |
| `CoreEngine` | the engine: `OrderBook` extended with users, balances, locks and settlement; its properties |
| `Snowflake` | the id generator and the clock it reads: steps, for `Recovery` |
| `Recovery` | the engine process with its log: serving, crashing, replaying; its properties |
| `Fills` | the way of a fill from the engine into the database: steps, for `GatewayOrders` |
| `GatewayOrders` | handlers, rows and registry of orders, composed with `Fills`; its properties |
| `Hub` | the WebSocket hub and its clients: steps, for `GatewayPush` |
| `GatewayPush` | who broadcasts through the hub: `OnFill`, the depth throttle and its fetches; its properties |
| `MCOrderBook`, `MCCoreEngine`, `MCRecovery`, `MCGatewayOrders`, `MCGatewayPush` | instances for TLC |
| `DataLemmas` | facts about numbers, finite sets and sums that the proofs share |
| `OrderBookProofs`, `BookProofs`, `WalkProofs` | theorems about the book: types and queues; the three maps; levels, quantities, crossed orders and the refinement |
| `EngineProofs` | theorems about books and accounts together |
| `RecoveryProofs`, `GatewayProofs`, `PushProofs` | theorems about the log and the ids, about fills, rows and live orders, about hub and throttle |

`CoreEngine` composes books with accounts, `Recovery` a log with a generator and *any*
deterministic engine, `GatewayOrders` handlers with the pipeline of fills, `GatewayPush` the
sources of broadcasts with the hub. The four do not share a state space: `CoreEngine` is one of
`Recovery`'s engines (a command that panics is its failing settlement), and of the engine
`GatewayOrders` keeps how much of an order is open.

### OrderBook and the code

`levels[pair][side]` is `bids_map` and `asks_map`, `orders_map[pair]` the flat lookup. A call of
`add_order` is a sequence of steps; the book has other values between them that no caller
sees, which is where its own code has to be right. `phase` is where the call stands:

```
idle --AddOrder--> rejected --Return--> idle                       (None)
             \---> walk <-> level      walk --Finish--> matched --Return--> idle   (Some(trades))
                                                   \--> panicked    (FOK safety net)
```

| Action | Code |
|---|---|
| `AddOrder` | `add_order` up to the call of a matching function: duplicate id, `can_match`, FOK pre-check, insertion |
| `EnterLevel` | the head of the outer loop and the counters of the inner one (`cursor`) |
| `SkipResting`, `PassTurn`, `ParkLevel` | the three outcomes of the self-trade branch |
| `Fill` | the rest of the inner loop |
| `LeaveLevel` | the removal of empty levels after it |
| `Finish` | re-insertion of `self_trade_levels` (`parked`), the FOK safety net |
| `CancelOrder`, `CancelOrdersForUser` | the operations of these names |

`match_order` and `match_against_opposite` are one walk. The second is the first with a
same-side queue that holds the incoming order and nothing else (`SameQueue`), which is what
its loops do line by line: one turn (`same_len = 1`), the same skip counter, the same parking.

Abstracted: quantities and prices are naturals from small sets (the engine admits positive ones
only, `PricesAssumption`, `QuantitiesAssumption`); trade ids, timestamps and order status,
which nothing in the book reads; the read-only depth snapshot. `GFD` orders are
treated as `GTC` by the code and by the model. A book without a trading pair is an empty book;
`CoreEngine` keeps the pairs apart.

### CoreEngine and the code

`users`, `balances`, `locks` are the `HashMap` of `User`s with `balances` and `locked_orders`; an
asset that is missing is 0. `SubmitOrder` is the engine's `add_order` up to the walk,
`ModifyOrder` is `modify_order` up to it, with the failure of the second lock that would lose
the order; `MatchStep` is the walk; `SettleTrade` is one turn of `settle_trades`, with the
panic as a phase of its own; `Answer` is the end of both functions, with the release of the
leftover lock of FAK and of refused orders. `QuantityMax` is `u32::MAX`: deposits, notionals and
credits are checked against it as the code does.

Order ids are fresh (`Fresh`): the gRPC layer draws them from the snowflake generator. The
handlers refuse a zero price or quantity; `modify_order` with another user or side is refused
and changes nothing, so `ModifyOrder` takes both from the old order.

### Recovery and the code

`file` is the log as a sequence of pieces, one per write: a whole entry or a part of one, with
its line end or without. The reader's view of a piece depends on its neighbours, for the file is
reopened for appending as it is (`AloneOnLine`). `pc` is where the process stands:

```
down, stopped --Start--> replaying --OpenWriter--> idle --Receive--> received
received --DrawOrderId--> drawn --Log--> logged --ExecuteLogged--> executed --Answer--> idle
received --CancelFirst--> cancelled --Log--> executed
any --CommandPanics, WriteFails--> panicked --FailFast--> stopped;  any --Kill, PowerLoss--> down
```

| Action | Code |
|---|---|
| `SkipLine`, `StopReading`, `ReplayLine`, `ReplayPanics`, `OpenWriter` | the iterator of `WalReader` and the loop of `WalEngine::new` |
| `Log`, `WriteFails`, `CutShort` | `WalWriter::write`, and what is in the file when it does not come to its end |
| `DrawOrderId`, `CancelFirst`, `ExecuteLogged`, `CommandPanics`, `Answer` | an arm of `run_engine` with the method of `WalEngine` it calls |
| `FailFast`, `Shutdown` | the end of `run_engine` and of `main`, which returns `Ok` after a panic too |
| `BeginSpin`, `NextId`, `ClockBehind` | `next_id`: the wait for the next millisecond, the draw, the panic |

What commands do is left open: `Execute`, `Panics` and `Trades` are constants. The instance has a
deposit, a taking order that trades (and panics in one state) and a cancellation, which do not
commute. `allowed` is history: the engines that take back no answer.

### Fills, GatewayOrders and the code

A fill is a number, in the order of their making, with what `made` says of it. It goes through
`unsent` (the call that waits in `publish_fills`), `channel`, `sending`, `stream`, `reading`,
`told`, `persist_ch`, `persisting` into `trades`; each step between two of them is an action with
the name of what the code does there, each fault beside the step it can hit. `cursor`, `pending` and `acked`
are the consumer group's last delivered entry, what it was given and did not acknowledge, and what it did.
`Commit` is the transaction of `PersistFillBatch`; `applied` counts how often it took a fill off the orders.

A fill that does not come to the table has one of four fates, which the model keeps apart: `lost`, it was in the
engine or in Redis when these failed; `trimmed`, an `XADD` cut it off the stream before the gateway was given it, with
nothing failed (`MAXLEN ~`); `passed`, it was in the stream before there was a group; `stranded`, the gateway was given it and
a failing read, a failing transaction or a stop left it pending in Redis (`GivesUp`).

`handler[h]` is where a handler of `server/orders.go` stands: between its call of the engine, its
write to the table and its write to the registry anything else may happen. `rows` and `registry`
hold what `updateOrdersBatch` and `ApplyFill` read and write, `After` is the CASE of both. `left` and
`filled` are the engine's truth about an order. `TellFill` is the part of `OnFill` that
touches orders; what it broadcasts is in `GatewayPush`.

### Hub, GatewayPush and the code

A broadcast holds the read lock from `BeginCast` to `EndCast`; others may hold it too, `Subscribe` and
`UnsubscribeAll` may not (`CanLock`). `Visit` is one turn of its loop, `Drop` the default branch of the
`select`, two statements later. A client's `pc` and `writer` are its `Serve` with the read loop, and
its write loop. A send on a closed channel, or closing one twice, is a panic: on the goroutine
of a broadcast nobody recovers it (`crashed`), in `Serve` chi's `Recoverer` does (`"panicked"`). A write
to the subscription map while another broadcast ranges over it may end the process, or may not.

`Request`, `TimerFires` and `StartFetch` are the throttle, in ticks; `ReadBook` and `CastDepth` are
`broadcastDepth` on a goroutine of `Fetchers`; `FillComes` to `FillEnds` are `OnFill` on the consumer's.

## 3. What the runs check

| Run | Property | Bounds | Shows |
|---|---|---|---|
| `OrderBook_safety` | `TypeOK`, `BookAgrees`, `ParkedApart`, `NoEmptyLevel`, `FokAllOrNothing`, `CrossedOnlyBySelf`, `FakTakesAllItCan`, `ImplementsOpenOrders`, `CallReturns` | 4 ids, 2 users, prices 1..2, quantities 1..2, GTC, FAK and FOK | safety and termination of the walk at every step; the book implements `OpenOrders` |
| `CoreEngine_safety` | `EngineTypeOK`, `NothingOfTheRemoved`, `LockedWithinBalance`, `OrdersCovered`, `LeftoverLocksAreBuyers`, `SettlementFailsOnlyOnOverflow`, `ModifyNeverLosesTheOrder` | 3 ids, 2 users, 1 pair, prices and quantities 1..2, `QuantityMax = 3`, GTC, FAK and FOK | books and accounts together |
| `Recovery_safety` | `RecoveryTypeOK`, `LogExplainsEngine`, `SeqsIncrease`, `PoisonIsLast`, `RecoveryKeepsAnswers`, `IdsAreFresh`, `ComesBack` | 3 commands, 3 pieces, 2 faults, 2 ids per millisecond, 2 milliseconds | crash, restart and the numbering of entries and ids |
| `Gateway_safety` | `GatewayTypeOK`, `AckedAreRecorded`, `AppliedOnce`, `FillsAccounted`, `TrimmedAreFarBehind`, `NeverMoreThanFilled`, `LiveOrdersAreTracked`, `ToldInOrder`, `ClosedRowsStayClosed` | 2 orders of quantity 2, 2 handlers, 2 faults, rooms 1, batches of 2 | what becomes of fills, rows and live orders |
| `Push_safety` | `PushTypeOK`, `NoGaps`, `CrashNeedsSlowClient`, `TheGoneAreForgotten`, `FetchesApart`, `RequestsAreAnswered`, `DeadClientsLeave` | 1 client, 3 broadcasting goroutines, room 1, interval 2, 2 requests, 1 fill | hub and throttle |
| `OrderBook_crossed` | `NoStrangersCross` | 4 ids, 2 users, GTC | **violated**, see below |
| `OrderBook_oldest` | `OldestMatchesFirst` | ids 1..4 that grow, 3 users, 1 price | **violated** |
| `CoreEngine_conserve` | `FillsConserveFunds` | 3 ids, 2 users, GTC | **violated** |
| `CoreEngine_leftover` | `LocksAreOfOpenOrders` | as above | **violated** |
| `CoreEngine_overflow` | `SettlementNeverFails` | as above | **violated** |
| `Recovery_restart` | `RestartRestoresState` | as `Recovery_safety` | **violated** |
| `Gateway_redelivery` | `RedeliveredOnRestart` | 2 orders of quantity 1, 1 handler, 1 fill, 1 fault, under `FairSpec` | **violated** |

*Why the bounds are enough.* Two users are what self-trade prevention tells apart: "mine"
and "not mine". Four orders give a level with a self-trade, a stranger behind it, a second
order of the same side waiting for its turn, and the incoming one; two prices give a level to
park and a level to go on to, and a buy order that executes below its limit. Quantities 1 and
2 give partial fills on either side: what is left of an order stays in a level whose skips and turns are
counted against the length it had on entry. `KnownIdsOnce` bounds what a call may say of an order whose
id is in the book: it is refused whatever else it is, and refusing leads back to where it came from, so one such
order stands for all. In `CoreEngine` a `QuantityMax` of 3 lets a deposit reach
the limit and a fill go over it, and 2 * 2 is a notional that does not fit. Ids and users are
symmetric; the symmetry is used for safety only. Deadlock is checked for the book. For the
engine it is not, for a settlement panic ends the process.

In `Recovery` three pieces are the torn line, what is written behind it, and an entry before or
after them; two faults are a crash and the one that matters next (another crash, a
loss of power, a rotten line, a clock set back), and two ids per millisecond make the sequence
wrap. Deadlock is off because the clock ends at `LastMillis`, and a generator may wait for the
millisecond after.

In `GatewayOrders` every fill is between the two orders, so each order is filled in one piece, in
two, or not at all; two handlers race with each other and with the fills of their orders. Queues
with room for one entry are full and empty in turn; batches of two are split and joined on the way;
two faults are for example a failed transaction and the restart at which its fills are not
asked for again; a stream of one entry is cut at the second fill. A call trades with one other order at most (several fills of one call are
in `CoreEngine`), and one order is modified, once. The bounds on fills are not reached before the orders are used
up. Deadlock is off: when all is drained nothing need happen. `Gateway_safety` checks safety only, which is why orders
and handlers may be symmetric; `Gateway_redelivery` checks an eventuality and has no symmetry. One fill and one stop
of the gateway are its whole story.

In `GatewayPush` a second client would not be told from the first by any step of the
hub: clients meet in no variable but the map, and a crash is of one client's channel. What can
collide are broadcasts, and there are three goroutines to make them, on the client's two topics. Room for one
message makes a client slow at the second. An interval of two ticks lets a request
come at its beginning, in it and at its end, and a timer be late. Deadlock is off: a crashed gateway stops.

*Fairness.* `CallReturns` needs none. It says of every step of a call that it lowers a measure, a tuple of
naturals (`ToGo`) in lexicographic order, so a call cannot take steps for ever; and with deadlock checked it
always has a next one until it returns, being one synchronous function on the engine's only task.
`Gateway_redelivery` is checked under `FairSpec`: every task of the pipeline goes on while it can, and the gateway
is started again (`restart: on-failure` in docker-compose.yml), so that it is not for a lack of steps that
nothing is redelivered. Nobody is obliged to use a handler.
`ComesBack` assumes that a failed process is started again (`restart: on-failure` in
docker-compose.yml), that replaying and serving go on, and that the clock does; a process that
stopped, on request or after a panic, need not be started. `Push_safety` assumes that goroutines run,
that time passes and timers run off, that a call to the engine returns within its three seconds
and a write to a peer within its ten. A peer is obliged to leave only when nobody pings it any more, so
that the read deadline passes. Strong fairness is assumed of the write lock: Go's `RWMutex` blocks
new readers once a writer waits. Nobody is obliged to connect, to fill or to request.

*Refinement.* `OpenOrders` knows for each pair the set of open orders and lets an order come in
under an unused id, two orders of different users trade at a price within both limits, up to
what the smaller one wants, and orders be withdrawn; FAK may be dropped only when no
counterpart is left, FOK never. The mapping takes all queues, the parked levels included, and
the incoming order that never rests for as long as it is being matched. Rotating, parking,
entering and leaving levels are stutters.

### What the code does differently from what it says

1. `NoStrangersCross` - `orderbook/mod.rs:18` says matching continues until no more resting
   orders match. A level is parked with counters taken on entry, and an order of the side that
   has had its turn gets no other; TLC shows a call that returns with the incoming order resting
   crossed with another user's order. (`CrossedOnlyBySelf`, which passes, says that the order it
   crosses then belongs to a user with orders on both sides of the book.)
2. `OldestMatchesFirst` - `orderbook/mod.rs:8` says the oldest order of a level matches
   first. Rotated orders are not put back.
3. `FillsConserveFunds` - `engine/mod.rs:75-77` says the buyer pays and the notional is
   conserved. `apply_fill` takes the debit off the lock and not off the balance, so both
   parties keep what they sold.
4. `LocksAreOfOpenOrders` - `user/mod.rs:25-26` says a lock goes when its order is fully filled.
   A buy order filled below its limit leaves the rest of its lock behind.
   (`LeftoverLocksAreBuyers`, which passes, says no other lock is left.)
5. `SettlementNeverFails` - `engine/mod.rs:79-80` says settlement cannot legitimately fail. A
   credit can overflow. (`SettlementFailsOnlyOnOverflow`, which passes, says nothing else can
   happen.)
6. `RestartRestoresState` - `main.rs:28` says the log restores the state on restart. A write that was cut
   short leaves a line without an end; the next process appends to that line, and the entry that
   it answered for is skipped at the restart after. (`RecoveryKeepsAnswers`, which passes, says
   that with no such line the engine that comes up has every answer.)
7. `RedeliveredOnRestart` - `fills/consumer.go:128-131` says that a batch that fails to persist is redelivered,
   on restart, and 28-29 that nothing is lost because Redis keeps what is not acknowledged. `Run` reads with `">"`
   only, in a new process as in the old one: what is pending is kept and never asked for. (`FillsAccounted`,
   which passes, says that such fills are pending still and not in the table. That they stay there is also why
   `AppliedOnce` holds: `updateOrdersBatch` would subtract a batch again that was stored and not acknowledged. Its mutant
   `ResumedAtPending` is that redelivery, and TLC breaks three properties with it.)

Met while modelling, and part of the models, without runs of their own:

- A modified order's row and live state are overwritten with the new quantity after the engine
  answered, whatever fills of it arrived first, and a row that another handler cancelled is opened again.
  `NeverMoreThanFilled`, `ClosedRowsStayClosed` and `LiveOrdersAreTracked` leave orders out that were modified.
- A client that a broadcast drops from one topic stays in its other one with its channel closed. The next
  broadcast there panics and ends the gateway, where `ws/hub.go:38-39` has it dropped.
  `CrashNeedsSlowClient` says that this is the only way.
- A fill that is told before its order is in the registry leaves an entry there that no fill will remove.

## 4. What is proved

Every invariant and action property of the passing runs, and the refinement of `OpenOrders`, is a
theorem: it holds for all values of the constants that the named assumptions allow, and for calls,
queues, logs and batches of any length. Each inductive invariant was checked by TLC on the
instance of the run named with it before it was proved. The proofs take nothing on trust but the assumptions,
the standard modules' theorems and the backends.

Two things come back in all of them. *Recursion*: `Without`, `Replayed` and `FlattenSeq` are recursive
functions, and the provers cannot instantiate the library's induction theorems. `DataLemmas`
has what is used instead: a set of naturals that holds 0 and with every number its successor holds them
all (`NaturalsClosed`), and the same for finite sets (`SubsetsClosed`). With it a recursion is
turned into a relation between neighbours (`IsKept`, `ReplayedSteps`, `IsFlat`), which is what the proofs then use.
*Sums*: the quantity a fill-or-kill order can have, what a lock still owes and what the fills of
an order add up to are `SumFunctionOnSet`s; `SumWithout`, `SumOfPart`, `SumAtMost` and their neighbours
are proved for every finite set.

### The book

Assumptions: `OrderTypesAssumption`, `PricesAssumption`, `QuantitiesAssumption`.

| Theorem | Statement |
|---|---|
| `OrderBookProofs!TypeCorrect` | `Spec => []TypeOK` |
| `BookProofs!BookInvariant` | `Spec => []BookInv` |
| `BookProofs!BookAlwaysAgrees` | `Spec => []BookAgrees` |
| `BookProofs!ParkedStaysApart` | `Spec => []ParkedApart` |
| `WalkProofs!WalkInvariant` | `Spec => [](BookInv /\ WalkInv /\ FokAllOrNothing)` |
| `WalkProofs!NoLevelIsEmpty` | `Spec => []NoEmptyLevel` |
| `WalkProofs!FokFillsOrIsRefused` | `Spec => []FokAllOrNothing` |
| `WalkProofs!FakStopsAtItsOwn` | `Spec => []FakTakesAllItCan` |
| `WalkProofs!LeftCrossedBySelfOnly` | `Spec => []CrossedOnlyBySelf` |
| `WalkProofs!BookImplementsOpenOrders` | `Spec => ImplementsOpenOrders` |
| `WalkProofs!EveryCallReturns` | `Spec => CallReturns` |

*Type correctness* is inductive by itself, since `TypeOK` says that the levels the cursor points
at exist. `Typed` is `TypeOK` with sets of functions in place of quantifiers, which the provers
handle better (`TypedIsTypeOK`).

*`BookAgrees` is not inductive.* `BookInv` strengthens it with `Typed` and `WalkOK`: nothing is
parked outside the walk; no level exists at a parked price (`ParkedApart`, without which
re-inserting loses orders); an order that never rests is unknown to the lookup (without which
its fill would remove another order's entry) and takes a single turn. The proof forgets
levels: `Depths(pair)` are the queues with the parked ones on top, empty where there is no
level, so that parking, pruning, entering and re-inserting do not change it at all. `Agree`
states the invariant for a lookup and such queues. Every step is then one of four things:

- the queues stay or are rotated, or orders leave queues and lookup together - `Thins` relates
  the queues by an injection that misses only the removed ids, and `ThinningAgrees` is the one
  lemma behind rotations, cancellations and removals of users;
- an order joins one queue and the lookup (`EnqueueAgrees`);
- the front of a queue is reduced, or is filled and goes (`FillFrontAgrees`), twice for `Fill`;
- nothing that the queues could tell (`QuietConsistent`).

`NextBookInv` has one step per action. The `*Consistent` lemmas show for each action which of
the four it is.

*The walk* (`OrderBook_safety`). `WalkInv` is what the counters of the
walk are for. `LevelsOK`: levels are finitely many and none is empty, but the two that are being matched. `CrossOK`: these two
cross. `LoneOK`, for an order that never rests: what it has parked is its own user's; what it has skipped
is its own user's and stands at the end of the queue, no shorter than `opp_len` allows; and what is left
of a fill-or-kill order is still there to be had (`AvailableIn`). A fill takes as much off the sum as off
the order, rotating takes nothing, and a level is parked only when it offers nothing, so the
sum is never too small. When the walk ends with something left of such an order, its finite side
has a best level (`BestPrice`), which is out of reach: so the sum is 0, which a fill-or-kill order contradicts, and what
is in reach is parked, which is what `FakTakesAllItCan` asks.

*Crossed orders* (`OrderBook_safety`). An order that rests shares its side with others, so the parked
levels may be anybody's. `PassedOK` says of whom: a user is `Beside` the walk who has an order on the
incoming side, or has traded there since the call began. Whoever was skipped, whoever stood in a level at which a turn was passed, and
whoever is parked is `Beside`; the walk takes nobody off the incoming side but by a trade
(`BesideStays`). At the end no level left crosses one of the incoming side (`WalkEndsUncrossed`), so what
crosses was parked.

*The refinement* is shown step by step. `OpenIs` says what the mapping is in terms of queues: the orders of
`Depths`, and the incoming one while it is matched without resting. A step that thins queues
leaves the orders it does not take (`ThinningLeaves`): a rotation none, so it is a stutter; a cancellation
some, so it is a `Withdraw`. A new order is a `Place` (`AddOrderPlaces`); a fill is a `Trade` at a price both
accept, and touches two orders only (`FillDeals`); the end of the walk withdraws a fill-and-kill
order that has nobody left to trade with (`FinishDiscards`, from `FinishFacts`), and never a fill-or-kill one.

*Termination.* `ToGo` counts, what weighs most first: the levels the walk may come to, the stage it is in, the orders in
the two queues, the turns and the skips left. Parking takes a level, and so does leaving one (`PruneCounts`), unless an order that never rests is used up and only
the end is left; a fill takes an order out of one of the two queues, whatever it does to the counters (`FillNearer`, from `FilledLength`); a turn
lowers the turns and starts the skips again, a skip lowers the skips (`PassTurnNearer`, `SkipRestingNearer`). That
the last two stay over zero although the queues have become shorter than the lengths they are counted against is read off the
guards (`TurnsLeft`, `AllSkipped`). `NearerBy` puts the places together, `NextNearer` the actions.

### The engine

Assumptions: those of the book, `PairsAssumption`, `QuantityMaxAssumption`, `AmountsAssumption`.
The quantity limit, prices and amounts are arbitrary.

| Theorem | Statement |
|---|---|
| `EngineProofs!AccountsInvariant`, `EngineInvariant` | `EngineSpec => []EngineInv`, in two stages |
| `EngineProofs!EngineTypeCorrect` | `EngineSpec => []EngineTypeOK` |
| `EngineProofs!RemovedLeaveNothing` | `EngineSpec => []NothingOfTheRemoved` |
| `EngineProofs!LocksNeverExceedFunds` | `EngineSpec => []LockedWithinBalance` |
| `EngineProofs!LocksCoverOrders` | `EngineSpec => []OrdersCovered` |
| `EngineProofs!OnlyBuyersLeaveLocks` | `EngineSpec => []LeftoverLocksAreBuyers` |
| `EngineProofs!OnlyOverflowPanics` | `EngineSpec => []SettlementFailsOnlyOnOverflow` |
| `EngineProofs!ModifyKeepsTheOrder` | `EngineSpec => []ModifyNeverLosesTheOrder` |

`BookInv` and `WalkInv` carry over, for the engine's steps are steps of its books. `AccountsInv` adds that locks
are within balances, sums of locks included, that only known users have locks and orders, and that
trades are between different users and settled in order. The first three properties follow from this.

*`OrdersCovered` is not inductive.* It speaks of a book between two calls, and within a call fills
run ahead of settlement: the order is smaller already, the lock is not. `Ledger(own)` says what every
lock is for at every step. `own` gives each id its owner, side and pair, once and for all. The lock of an open order
covers the `Cost` of what is left of it plus what is `Due` for its trades that are not settled, and for a sell
order is exactly that (`OrdersBacked`); the locks of both parties cover every unsettled
trade, also when the order is gone (`TradesBacked`); an order that does not stay is in no book when its call ends
(`OverIsGone`); a sell lock is that of an open order, to be released by the answer, or used up by what
is due (`SellsUsed`); no lock is empty; and a panic is over a trade that does not settle
(`PanicOfSettlement`). At a fill the due of both orders grows by the debit (`OwedMore`), by no more than
their cost falls, since a buyer's limit is at or over the price; when a trade is settled, lock and due fall together
(`OwedLess`). A settlement then finds parties and locks in order (`OwedCovers`), and only a credit can fail.
The ledger was checked on the instance of `CoreEngine_safety`, over all choices of `own`.

### The log and the ids

| Theorem | Statement | Assumptions used |
|---|---|---|
| `RecoveryProofs!IdsStayFresh` | `Spec => IdsAreFresh` | `SnowflakeAssumption` |
| `RecoveryProofs!SeqsAlwaysIncrease` | `Spec => []SeqsIncrease` | none |
| `RecoveryProofs!RecoveryTypeCorrect` | `Spec => []RecoveryTypeOK` | `CommandsAssumption`, `EngineAssumption`, `BoundsAssumption`, `SnowflakeAssumption` |
| `RecoveryProofs!LogAlwaysExplains` | `Spec => []LogExplainsEngine` | the same |
| `RecoveryProofs!PoisonStaysLast` | `Spec => []PoisonIsLast` | the same |
| `RecoveryProofs!RecoveryAlwaysKeepsAnswers` | `Spec => []RecoveryKeepsAnswers` | the same |

`EngineAssumption` leaves the engine open: any states, any deterministic commands, any of them panicking,
but cancellations.

*Ids.* `GeneratorSteps` reduces every step of `Recovery` to five things that can happen to the
generator. `IdInv` then bounds the newest id by the last one the generator can have
given: its latest, or, while it spins at the end of a millisecond, the last id of that
millisecond. Without the second case a draw after the spin could not be placed. It holds as long as no
process has drawn its first id in a millisecond of an earlier process; that exception is the
clock-goes-back hazard, and the property says so.

*Sequence numbers.* `SeqsIncrease` is not inductive. It speaks of readable entries, and a piece
without its line end becomes readable when the rest of the file behind it is cut off. `Numbered`
therefore asks for the order also of the pieces that are only *legible* (`Legible`), and `Under` says
that `seq` is over every number replayed so far, and over the whole file once the engine serves.
A fault leaves a file that is worn (`WornStaysNumbered`: a prefix, the last line cut, or a piece made
illegible); a write appends one piece with a higher number (`AppendStaysNumbered`). Each step
is one of the two or leaves the file alone.

*What replaying computes* is read off the recursion of `Replayed` piece by piece: two files with the same beginning
replay alike that far. `ExplainInv` says which prefix the engine is the replay of at each `pc`:
that of the pieces read while replaying, that of all but the last within a command that is logged. `PoisonInv` says of
*every* beginning of the file that a piece with another behind it does not panic, since what hides a poisonous piece
today may be cut off tomorrow. `KeptInv` says of the file as it will be once the
command in hand is logged that whatever part of its unsettled pieces is lost or hidden, the engine they leave is one of `allowed`
(with `WAL_SYNC`; without it, that the whole file does, until the machine loses power). All three were
checked on the instance of `Recovery_safety` (974,989 states).

### Fills, rows and live orders

Assumptions: `FillsAssumption` (rooms and batch sizes are positive) and `OrdersAssumption` (the quantity is positive;
`None` is neither an order nor a row).

| Theorem | Statement |
|---|---|
| `GatewayProofs!AckedStayRecorded` | `Spec => []AckedAreRecorded` |
| `GatewayProofs!FlowInvariant`, `GatewayTypeCorrect` | `Spec => []FlowInv`, `Spec => []GatewayTypeOK` |
| `GatewayProofs!FillsApplyOnce` | `Spec => []AppliedOnce` |
| `GatewayProofs!FillsToldInOrder` | `Spec => ToldInOrder` |
| `GatewayProofs!FillsStayAccounted` | `Spec => []FillsAccounted` |
| `GatewayProofs!OnlyFarBehindMiss` | `Spec => []TrimmedAreFarBehind` |
| `GatewayProofs!GatewayInvariant` | `Spec => []GatewayInv` |
| `GatewayProofs!NoneShownMoreThanFilled` | `Spec => []NeverMoreThanFilled` |
| `GatewayProofs!BookOrdersAreTracked` | `Spec => []LiveOrdersAreTracked` |
| `GatewayProofs!ClosedRowsAreFinal` | `Spec => ClosedRowsStayClosed` |

*The pipeline.* `FlowInv` contains `PipeInv`, which lines the fills up: the queues of batches are taken flat, their
recursion as a relation (`IsFlat`), and then unsent, queued, sending, unread, reading, told, waiting and persisting
fills stand in two lines by number (`InLine`; `EngineOrder`, `GatewayOrder`), which the group's cursor tells apart. A step moves a
piece from the front of one queue to the end of the next; a fault takes a piece out. That no fill is applied twice is
`TableInv`: what waits is not in the table, until the moment the transaction has committed and the worker
does not know it yet. That none is missing is `AccountInv`: what was made is somewhere in the line, in the table or `Gone`, by one of
its four fates. `StrandedInv` is what keeps the last of them honest: such a fill is pending, in nobody's hand and behind the group's cursor, so no step
can store or acknowledge it. What an `XADD` cuts off an ordered stream lies at least `StreamRoom` behind its last
entry (`TrimmedIsFar`).

*Acknowledgements.* What the persist worker takes for stored is in the table (`RecordedInv`);
it relates the local result of `PersistTrades` to the database across the two calls, between which
the process may be killed.

*Rows and live orders.* The engine's `filled` is the sum of an order's fills (`BookInv`); a row shows at most the sum
of those in the table (`RowInv`), a live order at most that of those that were told (`LiveInv`). The table is a part of what was told, which is a part of what
was made, so neither shows more than was filled. `HandlerInv` is what a handler still relies on after its
call of the engine: who submits an order has it alone, who cancels has taken it off the book. A row that is cancelled is so because the engine had some of it left to
cancel, so no fill can still close it otherwise; that, with `RowInv`, is what keeps closed rows closed. `TrackInv`: while nothing
has failed, an order in the book is in its row and the registry, or a handler is on its way there. The conjunction was checked on the instance of
`Gateway_safety` (1,928,853 states).

### Hub and throttle

Assumptions: `HubAssumption`, `PushAssumption`. Clients and goroutines may be any number.

| Theorem | Statement |
|---|---|
| `PushProofs!PushTypeCorrect` | `Spec => []PushTypeOK` |
| `PushProofs!FetchesStayApart` | `Spec => FetchesApart` |
| `PushProofs!OnlySlowClientsCrash` | `Spec => []CrashNeedsSlowClient` |
| `PushProofs!GoneForgotten` | `Spec => []TheGoneAreForgotten` |
| `PushProofs!SubscribersMissNothing` | `Spec => []NoGaps` |

*Depth throttle.* `ThrottleInv` relates the timer to the time since the last fetch: a timer that
is set has work to do, and it does not expire before the interval is over. From this, two fetches lie an interval
apart whether the second is started by a fill or by the timer.

*Hub.* `ClosedInv`: a channel that is closed was closed by a broadcast that found its client
slow, or its client has left every topic. So a send on a closed channel, which ends the gateway, needs
a slow client first, and nobody who left is in the map of a topic.

*Gaps.* `NoGaps` speaks of moments at which no broadcast is under way. `GapInv` counts at every moment: what a client was given
plus the broadcasts that have still to come to it (`Pending`) is what was sent on the topic since it subscribed, unless one of them has found it slow and
is about to drop it. It also says that only finitely many are under way, since there may be infinitely many
goroutines. It was checked on the instance of `Push_safety` (194,337 states).

### What is only model-checked

Liveness (`ComesBack`, `RequestsAreAnswered`, `DeadClientsLeave`) stays with TLC, and what it shows holds
for the bounds of section 3: the provers have no rule for fairness here, since they cannot reason
about `ENABLED`. That a call which is not over has a next step is the deadlock check of
`OrderBook_safety`. The seven disagreements of section 3 are counterexamples, which TLC finds and nobody need prove.

## 5. Boundaries and plan

Abstracted, and what that leaves open:

- The engine of `Recovery` is deterministic, as replaying requires: `CoreEngine`'s hash maps are
  walked only where their order does not show.
- `GatewayOrders` writes a row, or a registry entry, in one step (a statement of Postgres, a mutex).
  `OnFill` applies a fill to both orders and deletes what is filled in one step, though the registry's mutex is
  released in between: an unmodified order is put there once, before, so that only modified ones can tell.
  An orderly shutdown stops handlers and consumer together, where `main` lets handlers finish; a request
  that is cancelled by its client is a `StoreFails`.
- `Send` trims to any length from `StreamRoom` up, which is what `MAXLEN ~` promises. Redis without
  persistence loses stream and group together.
- In `GatewayPush` all clients are of one user, and there is one pair: topics are kept apart by the map.
  The snapshot sent before subscribing is left out.

Not modelled: the balance cache (best effort, two seconds, in front of a check the engine repeats), the
rate limiter (one mutex, nothing interleaves), accounts (registration calls engine and database one after the
other), request parsing and conversions, JWTs and password hashes, configuration, connection
handling, the benchmark and admin tools, generated code - stateless, or pure I/O.

Next: a model that tells depth snapshots apart, in which the one sent before subscribing and the order of later ones can
be stated, and the other steps that let one of the hazards without a property be stated (`PROJECT.json`
says of each why it has none).
