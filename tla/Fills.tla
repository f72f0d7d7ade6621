--------------------------------- MODULE Fills ---------------------------------
(***************************************************************************)
(* The way of a fill from the engine to the gateway's database: the        *)
(* publisher's queue and worker in the engine (engine/src/redis/mod.rs),   *)
(* the Redis stream with its consumer group, and the reader and the        *)
(* persist worker of the gateway (internal/fills/consumer.go,              *)
(* internal/db/fills.go).  Fills are named by their place in the order in  *)
(* which the engine made them.                                             *)
(*                                                                         *)
(* The operators here are steps of the pipeline alone; GatewayOrders       *)
(* composes them with what the fills do to orders.                         *)
(***************************************************************************)
EXTENDS Integers, SequencesExt

CONSTANTS
  MaxFills,     \* bound: fills made
  ChannelRoom,  \* the capacity of the publisher's queue (1024)
  StreamRoom,   \* MAX_LEN: the length the stream may be trimmed to (10000)
  BatchCount,   \* batchCount: fills read at a time (100)
  PersistDepth, \* persistQueueDepth: batches waiting to be persisted (256)
  MaxFaults     \* bound: crashes, restarts and failing calls

ASSUME FillsAssumption ==
  /\ {MaxFills, MaxFaults} \subseteq Nat
  /\ {ChannelRoom, StreamRoom, BatchCount, PersistDepth} \subseteq Nat \ {0}

VARIABLES
  made,       \* the fills the engine has made
  unsent,     \* those of the call that waits for room in the queue
  channel,    \* the queue: the fills of one call each
  sending,    \* the publisher's batch
  stream,     \* the entries in Redis
  group,      \* the consumer group exists
  cursor,     \* the last fill delivered to the group, or before its creation
  pending,    \* fills delivered to the group and not acknowledged since
  up,         \* the gateway runs
  reading,    \* what was read and not yet passed to onFill
  told,       \* what was, of the same batch
  persist_ch, \* the batches handed to the worker
  persisting, \* the one it works on
  stored,     \* and whether that is committed, and to be acknowledged
  acked,      \* fills acknowledged to the group
  trades,     \* fills in the table trades
  (* History *)
  applied,    \* how many times a fill was taken off the orders' rows
  last_told,  \* the fill last passed to onFill
  lost,       \* fills that a fault of the engine or of Redis took
  trimmed,    \* fills cut off the stream before they were delivered
  passed,     \* fills in the stream before the group was created
  stranded,   \* fills a fault of the gateway left pending, and nowhere else
  faults

engineVars == <<made, unsent, channel, sending>>
redisVars == <<stream, group, cursor, pending, acked>>
consumerVars == <<reading, told, persist_ch, persisting, stored>>
tableVars == <<trades, applied>>
missing == <<lost, trimmed, passed, stranded>>
pipeline == <<engineVars, redisVars, consumerVars, tableVars, up, last_told, missing, faults>>

FillsInit ==
  /\ made = <<>> /\ unsent = <<>> /\ channel = <<>> /\ sending = <<>>
  /\ stream = <<>> /\ group = FALSE /\ cursor = 0 /\ pending = {} /\ acked = {}
  /\ up = TRUE
  /\ reading = <<>> /\ told = <<>> /\ persist_ch = <<>> /\ persisting = <<>> /\ stored = FALSE
  /\ trades = {} /\ applied = [f \in 1..MaxFills |-> 0]
  /\ last_told = 0 /\ faults = 0
  /\ lost = {} /\ trimmed = {} /\ passed = {} /\ stranded = {}

FillIds == Seq(1..MaxFills)

PipelineTypeOK ==
  /\ Len(made) <= MaxFills
  /\ {unsent, sending, stream, reading, told, persisting} \subseteq FillIds
  /\ channel \in Seq(FillIds) /\ Len(channel) <= ChannelRoom
  /\ persist_ch \in Seq(FillIds) /\ Len(persist_ch) <= PersistDepth
  /\ {group, up, stored} \subseteq BOOLEAN
  /\ cursor \in 0..MaxFills /\ last_told \in 0..MaxFills
  /\ pending \cup acked \cup trades \subseteq 1..MaxFills
  /\ lost \cup trimmed \cup passed \cup stranded \subseteq 1..MaxFills
  /\ applied \in [1..MaxFills -> Nat] /\ faults \in 0..MaxFaults

Faulty == faults < MaxFaults /\ faults' = faults + 1

-----------------------------------------------------------------------------
(* The engine                                                              *)

(* The engine's only task takes a call when it does not wait for room.     *)
EngineIdle == unsent = <<>>

(* A call makes fills; they go into the queue before it is answered.       *)
Match(fills) ==
  /\ EngineIdle
  /\ Len(made) + Len(fills) <= MaxFills
  /\ made' = made \o fills
  /\ unsent' = [n \in 1..Len(fills) |-> Len(made) + n]
  /\ UNCHANGED <<channel, sending, redisVars, consumerVars, tableVars, up, last_told, missing, faults>>

Publish ==
  /\ unsent # <<>> /\ Len(channel) < ChannelRoom
  /\ channel' = Append(channel, unsent)
  /\ unsent' = <<>>
  /\ UNCHANGED <<made, sending, redisVars, consumerVars, tableVars, up, last_told, missing, faults>>

(* The worker drains the queue into one batch.                             *)
TakeBatch ==
  /\ sending = <<>> /\ channel # <<>>
  /\ sending' = FlattenSeq(channel)
  /\ channel' = <<>>
  /\ UNCHANGED <<made, unsent, redisVars, consumerVars, tableVars, up, last_told, missing, faults>>

Unread(s) == {f \in ToSet(s) : f > cursor}

(* Mutant of Trimmed: the stream may be cut shorter than StreamRoom.       *)
TrimmedOneMore(s) == {SubSeq(s, n, Len(s)) : n \in 1..(Max({1, Len(s) - StreamRoom + 2}))}

(* Each XADD may trim the stream, whoever has read what it drops.          *)
Trimmed(s) == {SubSeq(s, n, Len(s)) : n \in 1..(Max({1, Len(s) - StreamRoom + 1}))}

Send ==
  /\ sending # <<>>
  /\ stream' \in Trimmed(stream \o sending)
  /\ trimmed' = trimmed \cup (Unread(stream \o sending) \ ToSet(stream'))
  /\ sending' = <<>>
  /\ UNCHANGED <<made, unsent, channel, group, cursor, pending, acked, consumerVars, tableVars,
                 up, last_told, lost, passed, stranded, faults>>

(* The pipeline fails, at whichever of its commands: the error is logged.  *)
SendFails ==
  /\ Faulty /\ sending # <<>>
  /\ \E n \in 0..Len(sending) :
       LET taken == stream \o SubSeq(sending, 1, n)
       IN  /\ stream' \in Trimmed(taken)
           /\ trimmed' = trimmed \cup (Unread(taken) \ ToSet(stream'))
           /\ lost' = lost \cup ToSet(SubSeq(sending, n + 1, Len(sending)))
  /\ sending' = <<>>
  /\ UNCHANGED <<made, unsent, channel, group, cursor, pending, acked, consumerVars, tableVars,
                 up, last_told, passed, stranded>>

(* The queue and the batch are in memory only, and replaying the log does  *)
(* not publish.                                                            *)
EngineCrashes ==
  /\ Faulty
  /\ lost' = lost \cup ToSet(unsent \o FlattenSeq(channel) \o sending)
  /\ unsent' = <<>> /\ channel' = <<>> /\ sending' = <<>>
  /\ UNCHANGED <<made, redisVars, consumerVars, tableVars, up, last_told, trimmed, passed, stranded>>

(* The stream is gone, and its group with what was pending.                *)
RedisRestarts ==
  /\ Faulty
  /\ lost' = lost \cup Unread(stream) \cup stranded
  /\ stream' = <<>> /\ group' = FALSE /\ pending' = {} /\ stranded' = {}
  /\ UNCHANGED <<engineVars, cursor, acked, consumerVars, tableVars, up, last_told, trimmed, passed>>

-----------------------------------------------------------------------------
(* The consumer: Run                                                       *)

ReaderFree == up /\ reading = <<>> /\ told = <<>>

(* A new group starts behind what is in the stream.                        *)
EnsureGroup ==
  /\ ReaderFree /\ ~group
  /\ group' = TRUE
  /\ passed' = passed \cup Unread(stream)
  /\ cursor' = IF stream = <<>> THEN cursor ELSE Last(stream)
  /\ UNCHANGED <<engineVars, stream, pending, acked, consumerVars, tableVars, up, last_told,
                 lost, trimmed, stranded, faults>>

(* What stands in the stream behind the last entry the group was given.    *)
Ahead ==
  LET given == {n \in DOMAIN stream : stream[n] <= cursor}
  IN  SubSeq(stream, Max(given \cup {0}) + 1, Len(stream))

Delivered == SubSeq(Ahead, 1, Min({BatchCount, Len(Ahead)}))

ReadBatch ==
  /\ ReaderFree /\ group /\ Delivered # <<>>
  /\ reading' = Delivered
  /\ cursor' = Last(Delivered)
  /\ pending' = pending \cup ToSet(Delivered)
  /\ UNCHANGED <<engineVars, stream, group, acked, told, persist_ch, persisting, stored, tableVars,
                 up, last_told, missing, faults>>

(* The answer to XREADGROUP does not arrive; the next one asks for what    *)
(* was never delivered.                                                    *)
ReadFails ==
  /\ Faulty
  /\ ReaderFree /\ group /\ Delivered # <<>>
  /\ cursor' = Last(Delivered)
  /\ pending' = pending \cup ToSet(Delivered)
  /\ stranded' = stranded \cup ToSet(Delivered)
  /\ UNCHANGED <<engineVars, stream, group, acked, consumerVars, tableVars, up, last_told,
                 lost, trimmed, passed>>

(* onFill is called for one fill after the other.                          *)
Tell ==
  /\ reading # <<>>
  /\ reading' = Tail(reading)
  /\ told' = Append(told, Head(reading))
  /\ last_told' = Head(reading)
  /\ UNCHANGED <<engineVars, redisVars, persist_ch, persisting, stored, tableVars, up, missing, faults>>

(* Mutant of HandOff: the reader does not wait for the worker.             *)
HandOffUnbounded ==
  /\ reading = <<>> /\ told # <<>>
  /\ persist_ch' = Append(persist_ch, told)
  /\ told' = <<>>
  /\ UNCHANGED <<engineVars, redisVars, reading, persisting, stored, tableVars, up, last_told, missing, faults>>

(* Mutant of HandOff: a batch there is no room for is dropped.             *)
HandOffOrDrop ==
  /\ reading = <<>> /\ told # <<>>
  /\ persist_ch' = IF Len(persist_ch) < PersistDepth THEN Append(persist_ch, told) ELSE persist_ch
  /\ told' = <<>>
  /\ UNCHANGED <<engineVars, redisVars, reading, persisting, stored, tableVars, up, last_told, missing, faults>>

HandOff ==
  /\ reading = <<>> /\ told # <<>>
  /\ Len(persist_ch) < PersistDepth
  /\ persist_ch' = Append(persist_ch, told)
  /\ told' = <<>>
  /\ UNCHANGED <<engineVars, redisVars, reading, persisting, stored, tableVars, up, last_told, missing, faults>>

-----------------------------------------------------------------------------
(* The consumer: persistWorker                                             *)

TakeForPersist ==
  /\ persisting = <<>> /\ persist_ch # <<>>
  /\ persisting' = Head(persist_ch)
  /\ persist_ch' = Tail(persist_ch)
  /\ UNCHANGED <<engineVars, redisVars, reading, told, stored, tableVars, up, last_told, missing, faults>>

(* PersistFillBatch: the trades are inserted where they are not, the       *)
(* orders' quantities are taken off in any case.                           *)
Commit ==
  /\ trades' = trades \cup ToSet(persisting)
  /\ applied' = [f \in 1..MaxFills |-> applied[f] + (IF f \in ToSet(persisting) THEN 1 ELSE 0)]

Persist ==
  /\ persisting # <<>> /\ ~stored
  /\ Commit
  /\ stored' = TRUE
  /\ UNCHANGED <<engineVars, redisVars, reading, told, persist_ch, persisting, up, last_told, missing, faults>>

Acknowledge ==
  /\ stored
  /\ acked' = acked \cup ToSet(persisting)
  /\ pending' = pending \ ToSet(persisting)
  /\ persisting' = <<>> /\ stored' = FALSE
  /\ UNCHANGED <<engineVars, stream, group, cursor, reading, told, persist_ch, tableVars,
                 up, last_told, missing, faults>>

AcknowledgeFails ==
  /\ Faulty /\ stored
  /\ persisting' = <<>> /\ stored' = FALSE
  /\ UNCHANGED <<engineVars, redisVars, reading, told, persist_ch, tableVars, up, last_told, missing>>

(* The gateway no longer has these fills: Redis keeps them pending, or has *)
(* lost them since it delivered them.                                      *)
GivesUp(fills) ==
  /\ stranded' = stranded \cup (fills \cap pending)
  /\ lost' = lost \cup (fills \ pending)

(* Mutant of PersistFails: the batch is acknowledged all the same.         *)
PersistFailsUnseen ==
  /\ Faulty /\ persisting # <<>> /\ ~stored
  /\ stored' = TRUE
  /\ UNCHANGED <<engineVars, redisVars, reading, told, persist_ch, persisting, tableVars,
                 up, last_told, missing>>

(* The transaction fails: the batch stays pending, and is not asked for.   *)
PersistFails ==
  /\ Faulty /\ persisting # <<>> /\ ~stored
  /\ persisting' = <<>>
  /\ GivesUp(ToSet(persisting))
  /\ UNCHANGED <<engineVars, redisVars, reading, told, persist_ch, stored, tableVars,
                 up, last_told, trimmed, passed>>

(* A crash, or an orderly shutdown: neither the reader nor the worker      *)
(* finishes what it has.                                                   *)
GatewayStops ==
  /\ Faulty /\ up
  /\ up' = FALSE
  /\ GivesUp(ToSet(reading \o told \o FlattenSeq(persist_ch) \o persisting) \ trades)
  /\ reading' = <<>> /\ told' = <<>> /\ persist_ch' = <<>> /\ persisting' = <<>> /\ stored' = FALSE
  /\ UNCHANGED <<engineVars, redisVars, tableVars, last_told, trimmed, passed>>

(* Mutant of Resumed: a new process first asks for what was not            *)
(* acknowledged.                                                           *)
ResumedAtPending ==
  LET kept == pending \cap ToSet(stream)
  IN  IF kept = {} THEN cursor ELSE Min(kept) - 1

(* XREADGROUP with ">": a new process goes on behind what was delivered.   *)
Resumed == cursor

GatewayStarts ==
  /\ ~up
  /\ up' = TRUE
  /\ cursor' = Resumed
  /\ UNCHANGED <<engineVars, stream, group, pending, acked, consumerVars, tableVars,
                 last_told, missing, faults>>

-----------------------------------------------------------------------------
(* Properties                                                              *)

(* A fill is acknowledged only when it is in the table: an acknowledged    *)
(* entry is one nobody will ever be given again (persistWorker).           *)
AckedAreRecorded == acked \subseteq trades

(* A fill is taken off the rows of its orders once at most.  Only trades   *)
(* has a key to tell a second delivery by; the orders are safe because     *)
(* nothing is ever delivered twice.                                        *)
AppliedOnce == \A f \in 1..MaxFills : applied[f] <= 1

(* The clients are told of fills in the order they were made, and of none  *)
(* twice, over restarts of the gateway, the engine and Redis.              *)
ToldInOrder == [][last_told' > last_told]_last_told

(* Every fill is in the table or on its way there, where none overtakes    *)
(* another and none is there twice, and a fill that is not has a known     *)
(* fate: the engine or Redis took it with them, the length of the stream   *)
(* cut it off, it came before the group was created, or a fault of the     *)
(* gateway left it behind, and then Redis has it pending still, neither    *)
(* acknowledged nor recorded.  Without a fault there is no first and no    *)
(* last of these fates: the queues of the pipeline block and do not drop.  *)
FillsAccounted ==
  LET way == persisting \o FlattenSeq(persist_ch) \o told \o reading \o Ahead
               \o sending \o FlattenSeq(channel) \o unsent
  IN  /\ 1..Len(made) = ToSet(way) \cup trades \cup lost \cup trimmed \cup passed \cup stranded
      /\ \A m, n \in 1..Len(way) : m < n => way[m] < way[n]
      /\ stranded \subseteq pending \ trades
      /\ faults = 0 => lost = {} /\ stranded = {}

(* A fill is cut off the stream before the gateway was given it only when  *)
(* the gateway is at least as far behind the engine as the stream is long. *)
TrimmedAreFarBehind == \A f \in trimmed : f + StreamRoom <= Len(made)
=============================================================================
