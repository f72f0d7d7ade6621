----------------------------- MODULE GatewayOrders -----------------------------
(***************************************************************************)
(* The gateway's view of orders: the table orders (internal/db/store.go,   *)
(* fills.go), the registry of live orders (internal/liveorders), and the   *)
(* handlers that submit, cancel and modify (internal/server/orders.go),    *)
(* each a process that calls the engine, then the store, then the          *)
(* registry, while the pipeline of Fills brings the fills in.              *)
(*                                                                         *)
(* Of the engine there is left how much of an order is open; which orders  *)
(* a call trades with is left open, one at most (bound).                   *)
(***************************************************************************)
EXTENDS Fills

CONSTANTS
  Orders,
  Handlers,
  Quantity, \* the quantity every order is submitted with, or modified to
  None      \* no order, no row, no live state

Statuses == {"Empty", "PartiallyFilled", "Filled", "Cancelled"}
OpenStatuses == {"Empty", "PartiallyFilled"}

(* What a row and a live order show.                                       *)
State == [remaining : Int, status : Statuses]

ASSUME OrdersAssumption ==
  /\ Quantity \in Nat \ {0}
  /\ None \notin Orders /\ None \notin State

VARIABLES
  left,     \* engine: what is left of an order in the book; 0: not there
  filled,   \* history: what was filled of it
  sent,     \* history: orders that were submitted
  amended,  \* history: orders with which a modification succeeded
  rows,     \* the table orders
  registry, \* the live orders
  handler   \* what each handler has done, and for which order

orderVars == <<left, filled, sent, amended, rows, registry, handler>>
vars == <<pipeline, orderVars>>

Idle == [pc |-> "idle", order |-> None]
At(pc, o) == [pc |-> pc, order |-> o]
Goes(h, pc) == handler' = [handler EXCEPT ![h].pc = pc]
Returns(h) == handler' = [handler EXCEPT ![h] = Idle]

GatewayInit ==
  /\ FillsInit
  /\ left = [o \in Orders |-> 0] /\ filled = [o \in Orders |-> 0]
  /\ sent = {} /\ amended = {}
  /\ rows = [o \in Orders |-> None] /\ registry = [o \in Orders |-> None]
  /\ handler = [h \in Handlers |-> Idle]

(* A fresh order, as CreateOrder, ModifyOrder and Put write it.            *)
Fresh == [remaining |-> Quantity, status |-> "Empty"]

(* Mutant of After: what is almost filled counts as filled.                *)
AfterOffByOne(state, quantity) ==
  LET remaining == state.remaining - quantity
  IN  [remaining |-> remaining,
       status |-> IF remaining <= 1 THEN "Filled"
                  ELSE IF state.status = "Empty" THEN "PartiallyFilled"
                  ELSE state.status]

(* Mutant of After: any fill that leaves something makes the order         *)
(* partially filled.                                                       *)
AfterReopening(state, quantity) ==
  LET remaining == state.remaining - quantity
  IN  [remaining |-> remaining,
       status |-> IF remaining <= 0 THEN "Filled" ELSE "PartiallyFilled"]

(* The CASE of updateOrdersBatch, and of ApplyFill.                        *)
After(state, quantity) ==
  LET remaining == state.remaining - quantity
  IN  [remaining |-> remaining,
       status |-> IF remaining <= 0 THEN "Filled"
                  ELSE IF state.status = "Empty" THEN "PartiallyFilled"
                  ELSE state.status]

Involves(f, o) == made[f].bid = o \/ made[f].ask = o
Takes(f, o) == IF Involves(f, o) THEN made[f].quantity ELSE 0

(* What a batch takes off an order: the fills are added up per order.      *)
Delta(batch, o) == SumFunctionOnSet([n \in DOMAIN batch |-> Takes(batch[n], o)], DOMAIN batch)

-----------------------------------------------------------------------------
(* The engine                                                              *)

(* What a call for order o, with so much of it, may do: trade with another *)
(* open order or not, and leave the rest in the book or not (fill and      *)
(* kill).                                                                  *)
Engine(o, quantity) ==
  \/ \E rest \in {quantity, 0} :
       /\ Match(<<>>)
       /\ left' = [left EXCEPT ![o] = rest]
       /\ UNCHANGED filled
  \/ \E other \in Orders \ {o}, traded \in 1..quantity :
       /\ traded <= left[other]
       /\ Match(<<[bid |-> o, ask |-> other, quantity |-> traded]>>)
       /\ \E rest \in {quantity - traded, 0} :
            left' = [left EXCEPT ![o] = rest, ![other] = @ - traded]
       /\ filled' = [filled EXCEPT ![o] = @ + traded, ![other] = @ + traded]

(* The call is answered at once, or when its fills are in the queue.       *)
Calls(h, o, done, waiting) ==
  handler' = [handler EXCEPT ![h] = At(IF unsent' = <<>> THEN done ELSE waiting, o)]

Answered(call) ==
  CASE call.pc = "submitting" -> [call EXCEPT !.pc = "submitted"]
    [] call.pc = "modifying" -> [call EXCEPT !.pc = "modified"]
    [] OTHER -> call

PublishAndAnswer ==
  /\ Publish
  /\ handler' = [h \in Handlers |-> Answered(handler[h])]
  /\ UNCHANGED <<left, filled, sent, amended, rows, registry>>

(* The call that is being published is lost with the engine; the others    *)
(* have their answers, and the book is restored from the log.              *)
EngineRestarts ==
  /\ EngineCrashes
  /\ handler' = [h \in Handlers |-> IF Answered(handler[h]) = handler[h] THEN handler[h] ELSE Idle]
  /\ UNCHANGED <<left, filled, sent, amended, rows, registry>>

-----------------------------------------------------------------------------
(* handleSubmitOrder                                                       *)

Submit(h, o) ==
  /\ up /\ handler[h] = Idle /\ o \notin sent
  /\ sent' = sent \cup {o}
  /\ Engine(o, Quantity)
  /\ Calls(h, o, "submitted", "submitting")
  /\ UNCHANGED <<amended, rows, registry>>

CreateOrder(h) ==
  /\ handler[h].pc = "submitted"
  /\ rows' = [rows EXCEPT ![handler[h].order] = Fresh]
  /\ Goes(h, "to put")
  /\ UNCHANGED <<pipeline, left, filled, sent, amended, registry>>

(* registry.Put: also the last step of handleModifyOrder.                  *)
PutLive(h) ==
  /\ handler[h].pc = "to put"
  /\ registry' = [registry EXCEPT ![handler[h].order] = Fresh]
  /\ Returns(h)
  /\ UNCHANGED <<pipeline, left, filled, sent, amended, rows>>

-----------------------------------------------------------------------------
(* handleCancelOrder and handleModifyOrder                                 *)

(* loadOwnOpenOrder: a closed order is refused.                            *)
IsOpen(row) == row # None /\ row.status \in OpenStatuses

LoadOrder(h, o) ==
  /\ up /\ handler[h] = Idle /\ IsOpen(rows[o])
  /\ \E pc \in {"to cancel", "to modify"} : handler' = [handler EXCEPT ![h] = At(pc, o)]
  /\ UNCHANGED <<pipeline, left, filled, sent, amended, rows, registry>>

(* The engine knows the order, or refuses.                                 *)
CancelInEngine(h) ==
  LET o == handler[h].order
  IN  /\ handler[h].pc = "to cancel" /\ EngineIdle
      /\ left' = [left EXCEPT ![o] = 0]
      /\ IF left[o] > 0 THEN Goes(h, "cancelled") ELSE Returns(h)
      /\ UNCHANGED <<pipeline, filled, sent, amended, rows, registry>>

(* store.CancelOrder: a row that is Filled or Cancelled stays so.          *)
StoreCancel(h) ==
  LET o == handler[h].order
  IN  /\ handler[h].pc = "cancelled"
      /\ rows' = IF IsOpen(rows[o]) THEN [rows EXCEPT ![o].status = "Cancelled"] ELSE rows
      /\ Goes(h, "to delete")
      /\ UNCHANGED <<pipeline, left, filled, sent, amended, registry>>

DeleteLive(h) ==
  /\ handler[h].pc = "to delete"
  /\ registry' = [registry EXCEPT ![handler[h].order] = None]
  /\ Returns(h)
  /\ UNCHANGED <<pipeline, left, filled, sent, amended, rows>>

(* The engine cancels the order and takes it again, or refuses: it does    *)
(* not know the order any more, or the user has not the funds for the new  *)
(* one.  Bound: it does so for one order, once.                            *)
ModifyInEngine(h) ==
  LET o == handler[h].order
  IN  /\ handler[h].pc = "to modify"
      /\ \/ /\ EngineIdle
            /\ Returns(h)
            /\ UNCHANGED <<pipeline, left, filled, amended>>
         \/ /\ left[o] > 0 /\ amended = {}
            /\ Engine(o, Quantity)
            /\ Calls(h, o, "modified", "modifying")
            /\ amended' = {o}
      /\ UNCHANGED <<sent, rows, registry>>

StoreModify(h) ==
  /\ handler[h].pc = "modified"
  /\ rows' = [rows EXCEPT ![handler[h].order] = Fresh]
  /\ Goes(h, "to put")
  /\ UNCHANGED <<pipeline, left, filled, sent, amended, registry>>

(* A write to the table fails: the handler returns an error, what it did   *)
(* in the engine stays.                                                    *)
StoreFails(h) ==
  /\ Faulty
  /\ handler[h].pc \in {"submitted", "cancelled", "modified"}
  /\ Returns(h)
  /\ UNCHANGED <<engineVars, redisVars, consumerVars, tableVars, up, last_told, missing,
                 left, filled, sent, amended, rows, registry>>

-----------------------------------------------------------------------------
(* Fills arrive                                                            *)

(* Taking a fill off the live state of an order; a filled one is deleted.  *)
Live(o, f) ==
  IF registry[o] = None \/ ~Involves(f, o) THEN registry[o]
  ELSE LET state == After(registry[o], made[f].quantity)
       IN  IF state.status = "Filled" THEN None ELSE state

(* OnFill.                                                                 *)
TellFill ==
  /\ Tell
  /\ registry' = [o \in Orders |-> Live(o, Head(reading))]
  /\ UNCHANGED <<left, filled, sent, amended, rows, handler>>

(* PersistFillBatch.                                                       *)
PersistBatch ==
  /\ Persist
  /\ rows' = [o \in Orders |->
                IF rows[o] = None \/ Delta(persisting, o) = 0 THEN rows[o]
                ELSE After(rows[o], Delta(persisting, o))]
  /\ UNCHANGED <<left, filled, sent, amended, registry, handler>>

Stop ==
  /\ GatewayStops
  /\ registry' = [o \in Orders |-> None]
  /\ handler' = [h \in Handlers |-> Idle]
  /\ UNCHANGED <<left, filled, sent, amended, rows>>

(* HydrateLiveOrders.                                                      *)
StartAndHydrate ==
  /\ GatewayStarts
  /\ registry' = [o \in Orders |-> IF IsOpen(rows[o]) THEN rows[o] ELSE None]
  /\ UNCHANGED <<left, filled, sent, amended, rows, handler>>

(* What the pipeline does without touching an order.                       *)
Flow ==
  /\ \/ TakeBatch \/ Send \/ EnsureGroup \/ ReadBatch \/ HandOff \/ TakeForPersist \/ Acknowledge
     \/ SendFails \/ RedisRestarts \/ ReadFails \/ PersistFails \/ AcknowledgeFails
  /\ UNCHANGED orderVars

-----------------------------------------------------------------------------
Next ==
  \/ \E h \in Handlers, o \in Orders : Submit(h, o) \/ LoadOrder(h, o)
  \/ \E h \in Handlers :
       \/ CreateOrder(h) \/ PutLive(h)
       \/ CancelInEngine(h) \/ StoreCancel(h) \/ DeleteLive(h)
       \/ ModifyInEngine(h) \/ StoreModify(h)
       \/ StoreFails(h)
  \/ PublishAndAnswer \/ TellFill \/ PersistBatch \/ Flow
  \/ EngineRestarts \/ Stop \/ StartAndHydrate

Spec == GatewayInit /\ [][Next]_vars

(* Every task of the pipeline goes on while it can, and docker compose     *)
(* starts the gateway again when it has stopped.                           *)
Fairness ==
  /\ WF_vars(TakeBatch /\ UNCHANGED orderVars) /\ WF_vars(Send /\ UNCHANGED orderVars)
  /\ WF_vars(EnsureGroup /\ UNCHANGED orderVars) /\ WF_vars(ReadBatch /\ UNCHANGED orderVars)
  /\ WF_vars(HandOff /\ UNCHANGED orderVars) /\ WF_vars(TakeForPersist /\ UNCHANGED orderVars)
  /\ WF_vars(Acknowledge /\ UNCHANGED orderVars)
  /\ WF_vars(PublishAndAnswer) /\ WF_vars(TellFill) /\ WF_vars(PersistBatch)
  /\ WF_vars(StartAndHydrate)

FairSpec == Spec /\ Fairness

-----------------------------------------------------------------------------
(* Properties                                                              *)

GatewayTypeOK ==
  /\ PipelineTypeOK
  /\ \A f \in DOMAIN made : made[f] \in [bid : Orders, ask : Orders, quantity : 1..Quantity]
  /\ left \in [Orders -> 0..Quantity] /\ filled \in [Orders -> Nat]
  /\ sent \subseteq Orders /\ amended \subseteq sent
  /\ \A o \in Orders : {rows[o], registry[o]} \subseteq State \cup {None}
  /\ \A h \in Handlers :
       /\ handler[h].pc \in {"idle", "submitting", "submitted", "to put", "to cancel", "cancelled",
                            "to delete", "to modify", "modifying", "modified"}
       /\ handler[h].order \in Orders \cup {None}

(* Neither the row nor the live state of an order shows more filled than   *)
(* the engine filled, whatever was missed, lost or delivered late: a       *)
(* client is never told of a fill that is not his.  (An order that was     *)
(* modified is excepted: see the README.)                                  *)
NeverMoreThanFilled ==
  \A o \in Orders \ amended : \A view \in {rows[o], registry[o]} \ {None} :
    Quantity - view.remaining <= filled[o]

(* A row that is Filled or Cancelled stays what it is: a late fill of a    *)
(* cancelled order neither opens nor fills it.                             *)
ClosedRowsStayClosed ==
  [][\A o \in Orders \ amended' :
       rows[o] # None /\ ~IsOpen(rows[o]) => rows'[o].status = rows[o].status]_vars

(* An order that is in the book can be cancelled through the gateway: its  *)
(* row is open, and there is one when no fault stopped a handler; and its  *)
(* owner is told of fills, for the registry has it.                        *)
LiveOrdersAreTracked ==
  \A o \in Orders \ amended :
    left[o] > 0 =>
      /\ rows[o] # None => IsOpen(rows[o])
      /\ faults = 0 /\ (\A h \in Handlers : handler[h].order # o)
           => rows[o] # None /\ registry[o] # None

(* A fill that Redis has pending when the gateway is down is delivered     *)
(* again after the restart, and then recorded: what comments in            *)
(* consumer.go say of a batch that could not be persisted.                 *)
RedeliveredOnRestart ==
  \A f \in 1..MaxFills :
    (~up /\ f \in pending \cap ToSet(stream)) ~> (f \in trades \/ f \notin ToSet(stream))
=============================================================================
