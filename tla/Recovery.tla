------------------------------- MODULE Recovery -------------------------------
(***************************************************************************)
(* The engine process with its write-ahead log: engine/src/wal (WalEngine, *)
(* WalWriter, WalReader), the generator of Snowflake, and the loop of      *)
(* run_engine in engine/src/grpc/mod.rs that serves one command at a time  *)
(* until the first panic.  The process can be killed, the machine can lose *)
(* power, a write can fail, the file can change on disk, the clock can be  *)
(* set back.                                                               *)
(*                                                                         *)
(* What a command does to the engine is CoreEngine's business; here the    *)
(* engine is any deterministic machine.  Reads are not logged and left     *)
(* out.                                                                    *)
(***************************************************************************)
EXTENDS Snowflake, Sequences

CONSTANTS
  Commands,       \* the commands that change the engine
  Orders,         \* those that draw an order id first (SubmitOrder)
  Cancels,        \* those that are logged after they are carried out
  EngineStates,
  EmptyEngine,    \* CoreEngine::new
  Execute(_, _),  \* the engine after a command
  Panics(_, _),   \* the command panics in this engine (a failing settlement)
  Trades(_, _),   \* the command trades, and draws a trade id
  NoCommand,      \* no command is being served
  MaxPieces,      \* bound: pieces of the log
  MaxFaults       \* bound: crashes, failing writes, damage, clock jumps

ASSUME CommandsAssumption ==
  /\ Orders \subseteq Commands
  /\ Cancels \subseteq Commands
  /\ Orders \cap Cancels = {}
  /\ NoCommand \notin Commands

ASSUME EngineAssumption ==
  /\ EmptyEngine \in EngineStates
  /\ \A engine_state \in EngineStates, command \in Commands :
       /\ Execute(engine_state, command) \in EngineStates
       /\ Panics(engine_state, command) \in BOOLEAN
       /\ Trades(engine_state, command) \in BOOLEAN
       /\ command \in Cancels => ~Panics(engine_state, command) /\ ~Trades(engine_state, command)

ASSUME BoundsAssumption == MaxPieces \in Nat /\ MaxFaults \in Nat

VARIABLES
  file,       \* the log: a sequence of pieces
  synced,     \* how many of them are known to be on disk
  sync,       \* WAL_SYNC: every entry is synced before write returns
  seq,        \* the writer's sequence number; while replaying, the highest seen
  engine,     \* the engine in memory
  pc,         \* where the process stands
  cmd,        \* the command it serves
  next,       \* the piece it replays next
  (* History *)
  allowed,    \* the engines that take back no answer: that of the last answer, and
              \* that one with what was received since and cut off
  power_lost, \* the machine has lost power since
  newest,     \* the highest id ever drawn
  clock_reused,   \* a process drew its first id at a clock no later than that of `newest'
  faults      \* how many faults there have been

logVars == <<file, synced, sync, seq>>
processVars == <<engine, pc, cmd, next>>
answerVars == <<allowed, power_lost>>
idVars == <<clock, last_timestamp, sequence, spinning, newest, clock_reused>>
vars == <<logVars, processVars, answerVars, idVars, faults>>

-----------------------------------------------------------------------------
(* The file                                                                *)

(* What one write left in the file: an entry, or a part of one; with its   *)
(* line end or, if the write was cut short, without.  An entry can change  *)
(* on disk: it no longer parses or matches its checksum (rotten), or it is *)
(* no longer text (illegible).                                             *)
Piece == [seq: Nat, cmd: Commands \cup {NoCommand},
          holds: {"entry", "part", "rotten", "illegible"}, ended: BOOLEAN]

Entry(number, command) == [seq |-> number, cmd |-> command, holds |-> "entry", ended |-> TRUE]
Unended(number, command) == [Entry(number, command) EXCEPT !.ended = FALSE]
Part == [seq |-> 0, cmd |-> NoCommand, holds |-> "part", ended |-> FALSE]

(* The file is opened for appending as it is: what is written after a      *)
(* piece that has no end continues its line.                               *)
AloneOnLine(f, n) == (n > 1 => f[n - 1].ended) /\ (n < Len(f) => f[n].ended)

(* What `next' of the reader yields: an entry of its own line, whose       *)
(* checksum matches, before any line that is not text.                     *)
Readable(f, n) ==
  /\ f[n].holds = "entry"
  /\ AloneOnLine(f, n)
  /\ \A m \in 1..(n - 1) : f[m].holds # "illegible"

(* The writer's next entry, and what may be in the file when writing it    *)
(* did not come to its end.                                                *)
NextEntry == Entry(seq + 1, cmd)

CutShort ==
  {file, Append(file, Part), Append(file, Unended(seq + 1, cmd)), Append(file, NextEntry)}

(* What a loss of power leaves of a file: the pieces that were synced, and *)
(* a prefix of what was written after them.                                *)
Surviving(f) ==
  LET kept == {n \in 0..Len(f) : n >= synced}
      cut == kept \ {Len(f)}
  IN  {SubSeq(f, 1, n) : n \in kept}
        \cup {Append(SubSeq(f, 1, n), Part) : n \in cut}
        \cup {Append(SubSeq(f, 1, n), [f[n + 1] EXCEPT !.ended = FALSE]) : n \in cut}

(* The engine after each piece: what replaying does with them.             *)
Replayed(f) ==
  LET After[n \in 0..Len(f)] ==
        IF n = 0 THEN EmptyEngine
        ELSE IF Readable(f, n) THEN Execute(After[n - 1], f[n].cmd)
        ELSE After[n - 1]
  IN  After

Recovered(f) == Replayed(f)[Len(f)]

-----------------------------------------------------------------------------
(* Starting: WalEngine::new                                                *)

Init ==
  /\ file = <<>> /\ synced = 0 /\ sync \in BOOLEAN /\ seq = 0
  /\ engine = EmptyEngine /\ pc = "down" /\ cmd = NoCommand /\ next = 1
  /\ allowed = {EmptyEngine} /\ power_lost = FALSE
  /\ newest = 0 /\ clock_reused = FALSE /\ faults = 0
  /\ clock = 1 /\ last_timestamp = 0 /\ sequence = 0 /\ spinning = FALSE

(* The process ends: what it has in memory gives way to what the next one  *)
(* starts with.                                                            *)
Die ==
  /\ engine' = EmptyEngine
  /\ seq' = 0
  /\ next' = 1
  /\ cmd' = NoCommand
  /\ NewGenerator
  /\ UNCHANGED <<clock, newest, clock_reused>>

(* A process that failed is started again (docker-compose.yml: restart     *)
(* on-failure).  One that stopped is started by an operator.               *)
Start ==
  /\ pc \in {"down", "stopped"}
  /\ pc' = "replaying"
  /\ UNCHANGED <<logVars, engine, cmd, next, answerVars, idVars, faults>>

(* A draw of an id, with what the history remembers of it.                 *)
Draw ==
  /\ NextId
  /\ newest' = IF LatestId' > newest THEN LatestId' ELSE newest
  /\ clock_reused' = (clock_reused \/ (last_timestamp = 0 /\ clock <= MillisOf(newest)))
  /\ UNCHANGED clock

DrawIf(trades) == IF trades THEN Draw ELSE UNCHANGED idVars

(* Mutant of SkipLine: what does not parse ends the process.               *)
DieOfBadLine ==
  /\ pc = "replaying" /\ next <= Len(file)
  /\ ~Readable(file, next)
  /\ pc' = "down"
  /\ Die
  /\ UNCHANGED <<file, synced, sync, answerVars, faults>>

(* A line that does not parse, or whose checksum does not match, is        *)
(* skipped.                                                                *)
SkipLine ==
  /\ pc = "replaying" /\ next <= Len(file)
  /\ ~Readable(file, next)
  /\ file[next].holds # "illegible"
  /\ next' = next + 1
  /\ UNCHANGED <<logVars, engine, pc, cmd, answerVars, idVars, faults>>

(* A line that is not text is a read error, and ends the reading.          *)
StopReading ==
  /\ pc = "replaying" /\ next <= Len(file)
  /\ file[next].holds = "illegible"
  /\ next' = Len(file) + 1
  /\ UNCHANGED <<logVars, engine, pc, cmd, answerVars, idVars, faults>>

(* Mutant of SeqSeen: numbering starts again.                              *)
SeqForgotten(number) == 0

(* The writer of the new process numbers on from the highest entry.        *)
SeqSeen(number) == IF number > seq THEN number ELSE seq

ReplayLine ==
  /\ pc = "replaying" /\ next <= Len(file)
  /\ Readable(file, next)
  /\ ~Panics(engine, file[next].cmd)
  /\ DrawIf(Trades(engine, file[next].cmd))
  /\ engine' = Execute(engine, file[next].cmd)
  /\ seq' = SeqSeen(file[next].seq)
  /\ next' = next + 1
  /\ UNCHANGED <<file, synced, sync, pc, cmd, answerVars, faults>>

(* Replaying is not guarded: a panic, of the command or of the generator,  *)
(* ends the process before it serves anything.                             *)
ReplayPanics ==
  /\ pc = "replaying" /\ next <= Len(file)
  /\ Readable(file, next)
  /\ \/ Panics(engine, file[next].cmd)
     \/ Trades(engine, file[next].cmd) /\ ClockBehind
  /\ pc' = "down"
  /\ Die
  /\ UNCHANGED <<file, synced, sync, answerVars, faults>>

OpenWriter ==
  /\ pc = "replaying" /\ next > Len(file)
  /\ pc' = "idle"
  /\ allowed' = IF engine \in allowed THEN allowed ELSE {engine}
  /\ power_lost' = FALSE
  /\ UNCHANGED <<logVars, engine, cmd, next, idVars, faults>>

-----------------------------------------------------------------------------
(* Serving a command: run_engine and WalEngine                             *)

Receive(command) ==
  /\ pc = "idle"
  /\ Len(file) < MaxPieces
  /\ cmd' = command
  /\ pc' = "received"
  /\ allowed' = allowed \cup {Execute(e, command) : e \in allowed}
  /\ UNCHANGED <<logVars, engine, next, power_lost, idVars, faults>>

DrawOrderId ==
  /\ pc = "received" /\ cmd \in Orders
  /\ Draw
  /\ pc' = "drawn"
  /\ UNCHANGED <<logVars, engine, cmd, next, answerVars, faults>>

(* cancel_order changes the engine first.                                  *)
CancelFirst ==
  /\ pc = "received" /\ cmd \in Cancels
  /\ engine' = Execute(engine, cmd)
  /\ pc' = "cancelled"
  /\ UNCHANGED <<logVars, cmd, next, answerVars, idVars, faults>>

(* The process is about to write the entry of the command.                 *)
Logging ==
  \/ pc = "received" /\ cmd \notin Orders \cup Cancels
  \/ pc \in {"drawn", "cancelled"}

(* Mutant of Log: the entry is written but not synced.                     *)
LogUnsynced ==
  /\ Logging
  /\ file' = Append(file, NextEntry)
  /\ seq' = seq + 1
  /\ pc' = IF cmd \in Cancels THEN "executed" ELSE "logged"
  /\ UNCHANGED <<synced, sync, engine, cmd, next, answerVars, idVars, faults>>

Log ==
  /\ Logging
  /\ file' = Append(file, NextEntry)
  /\ synced' = IF sync THEN Len(file') ELSE synced
  /\ seq' = seq + 1
  /\ pc' = IF cmd \in Cancels THEN "executed" ELSE "logged"
  /\ UNCHANGED <<sync, engine, cmd, next, answerVars, idVars, faults>>

ExecuteLogged ==
  /\ pc = "logged"
  /\ ~Panics(engine, cmd)
  /\ DrawIf(Trades(engine, cmd))
  /\ engine' = Execute(engine, cmd)
  /\ pc' = "executed"
  /\ UNCHANGED <<logVars, cmd, next, answerVars, faults>>

(* catch_unwind: a failing settlement, or an id drawn with the clock set   *)
(* back.  What the command has done by then is not looked at again.        *)
CommandPanics ==
  /\ \/ pc = "received" /\ cmd \in Orders /\ ClockBehind
     \/ pc = "logged" /\ Panics(engine, cmd)
     \/ pc = "logged" /\ Trades(engine, cmd) /\ ClockBehind
  /\ pc' = "panicked"
  /\ UNCHANGED <<logVars, engine, cmd, next, answerVars, idVars, faults>>

Answer ==
  /\ pc = "executed"
  /\ pc' = "idle"
  /\ cmd' = NoCommand
  /\ allowed' = {engine}
  /\ power_lost' = FALSE
  /\ UNCHANGED <<logVars, engine, next, idVars, faults>>

(* Mutant of FailFast: the loop goes on after a panic.                     *)
CarryOn ==
  /\ pc = "panicked"
  /\ pc' = "idle"
  /\ UNCHANGED <<logVars, engine, cmd, next, answerVars, idVars, faults>>

(* The caller is told of an internal error, the loop ends, the server      *)
(* shuts down, and main returns Ok: the process has not failed.            *)
FailFast ==
  /\ pc = "panicked"
  /\ pc' = "stopped"
  /\ Die
  /\ UNCHANGED <<file, synced, sync, answerVars, faults>>

(* ctrl-c, when no command is being served.                                *)
Shutdown ==
  /\ pc = "idle"
  /\ pc' = "stopped"
  /\ Die
  /\ UNCHANGED <<file, synced, sync, answerVars, faults>>

(* A draw has to wait for the next millisecond.                            *)
Spin ==
  /\ \/ pc = "received" /\ cmd \in Orders
     \/ pc = "logged" /\ Trades(engine, cmd) /\ ~Panics(engine, cmd)
     \/ /\ pc = "replaying" /\ next <= Len(file) /\ Readable(file, next)
        /\ Trades(engine, file[next].cmd) /\ ~Panics(engine, file[next].cmd)
  /\ BeginSpin
  /\ UNCHANGED <<logVars, processVars, answerVars, newest, clock_reused, clock, faults>>

-----------------------------------------------------------------------------
(* Faults                                                                  *)

Faulty == faults < MaxFaults /\ faults' = faults + 1

(* Mutant of WriteFails: the error is not looked at.                       *)
WriteFailsUnnoticed ==
  /\ Faulty /\ Logging
  /\ file' \in CutShort
  /\ pc' = "logged"
  /\ seq' = seq + 1
  /\ UNCHANGED <<synced, sync, engine, cmd, next, answerVars, idVars>>

(* write returns an error, and unwrap makes it a panic.                    *)
WriteFails ==
  /\ Faulty /\ Logging
  /\ file' \in CutShort
  /\ pc' = "panicked"
  /\ seq' = seq + 1
  /\ UNCHANGED <<synced, sync, engine, cmd, next, answerVars, idVars>>

Running == pc \notin {"down", "stopped"}

(* The process dies; the file keeps what was written.                      *)
Kill ==
  /\ Faulty /\ Running
  /\ file' \in IF Logging THEN CutShort ELSE {file}
  /\ pc' = "down"
  /\ Die
  /\ UNCHANGED <<synced, sync, answerVars>>

(* The machine dies, with what had not yet been written to disk.           *)
PowerLoss ==
  /\ Faulty /\ Running
  /\ \E f \in IF Logging THEN CutShort ELSE {file} : file' \in Surviving(f)
  /\ synced' = Len(file')
  /\ pc' = "down"
  /\ power_lost' = TRUE
  /\ Die
  /\ UNCHANGED <<sync, allowed>>

(* An entry changes on disk, while no process reads it.                    *)
Damage ==
  /\ Faulty /\ ~Running
  /\ \E n \in DOMAIN file, what \in {"rotten", "illegible"} :
       /\ file[n].holds = "entry"
       /\ file' = [file EXCEPT ![n].holds = what]
  /\ UNCHANGED <<synced, sync, seq, processVars, answerVars, idVars>>

ClockTick ==
  /\ Tick
  /\ UNCHANGED <<logVars, processVars, answerVars, generatorVars, newest, clock_reused, faults>>

ClockSetBack ==
  /\ Faulty /\ SetBack
  /\ UNCHANGED <<logVars, processVars, answerVars, generatorVars, newest, clock_reused>>

-----------------------------------------------------------------------------
Replay == SkipLine \/ StopReading \/ ReplayLine \/ ReplayPanics \/ OpenWriter

Serve == DrawOrderId \/ CancelFirst \/ Log \/ ExecuteLogged \/ CommandPanics \/ Answer \/ FailFast

Next ==
  \/ Start
  \/ Replay
  \/ \E command \in Commands : Receive(command)
  \/ Serve
  \/ Shutdown
  \/ Spin
  \/ WriteFails \/ Kill \/ PowerLoss \/ Damage
  \/ ClockTick \/ ClockSetBack

(* Replaying and serving are plain code that goes on until it returns, and *)
(* the clock goes on.  A failed process is started again; a stopped one    *)
(* need not be.                                                            *)
Fairness ==
  /\ WF_vars(pc = "down" /\ Start)
  /\ WF_vars(Replay) /\ WF_vars(Serve) /\ WF_vars(Spin) /\ WF_vars(ClockTick)

Spec == Init /\ [][Next]_vars /\ Fairness

-----------------------------------------------------------------------------
(* Properties                                                              *)

RecoveryTypeOK ==
  /\ file \in Seq(Piece) /\ synced \in 0..Len(file)
  /\ sync \in BOOLEAN /\ seq \in Nat
  /\ engine \in EngineStates /\ allowed \subseteq EngineStates
  /\ cmd \in Commands \cup {NoCommand}
  /\ pc \in {"down", "stopped", "replaying", "idle", "received", "drawn", "cancelled",
             "logged", "executed", "panicked"}
  /\ next \in Nat \ {0} /\ (pc = "replaying" => next <= Len(file) + 1)
  /\ power_lost \in BOOLEAN /\ clock_reused \in BOOLEAN
  /\ newest \in Nat /\ faults \in 0..MaxFaults
  /\ GeneratorTypeOK

(* No entry is hidden by what was written before it or after it.           *)
NothingHidden(f) == \A n \in DOMAIN f : f[n].holds = "entry" => Readable(f, n)

Undamaged(f) == \A n \in DOMAIN f : f[n].holds \in {"entry", "part"}

(* What serves a command is what the log says it is: between two commands  *)
(* the engine is the one a restart would replay, and within one it differs *)
(* by that command, on the side where WalEngine is ahead.                  *)
LogExplainsEngine ==
  NothingHidden(file) =>
    /\ pc \in {"idle", "received", "drawn", "executed"}
         => engine = Recovered(file)
    /\ pc = "logged" => Execute(engine, cmd) = Recovered(file)
    /\ pc = "cancelled" => engine = Execute(Recovered(file), cmd)

(* The entries a reader yields are numbered in strictly increasing order,  *)
(* over any number of restarts, cut-off writes and damaged lines: max_seq  *)
(* and set_seq in WalEngine::new.                                          *)
SeqsIncrease ==
  \A m, n \in DOMAIN file :
    m < n /\ Readable(file, m) /\ Readable(file, n) => file[m].seq < file[n].seq

(* Replaying this piece panics.                                            *)
Poisonous(f, n) == Readable(f, n) /\ Panics(Replayed(f)[n - 1], f[n].cmd)

(* A command that panics when it is replayed is the last of the log: the   *)
(* process that logged it has served nothing after it (fail-fast).  So     *)
(* what is lost with the engine that never comes up again can be repaired  *)
(* by taking one line off the end.                                         *)
PoisonIsLast ==
  Undamaged(file) /\ NothingHidden(file) =>
    \A n \in DOMAIN file :
      Poisonous(file, n) => n = Len(file)

(* The replay is over, and the process is about to serve.                  *)
ReplayDone == pc = "replaying" /\ next > Len(file)

(* After a crash, the engine that comes up is the one of the last answer,  *)
(* or that one with commands that were received since and cut off: no      *)
(* answer is taken back, and nothing is executed twice.  It takes WAL_SYNC *)
(* against a loss of power, and a log that is whole.                       *)
RecoveryKeepsAnswers ==
  ReplayDone /\ NothingHidden(file) /\ Undamaged(file) /\ (sync \/ ~power_lost)
    => engine \in allowed

(* What main.rs:27-30 says of a restart: that it restores the state.  It   *)
(* does not when the log was written to after a write that was cut short.  *)
RestartRestoresState ==
  ReplayDone /\ Undamaged(file) /\ (sync \/ ~power_lost) => engine \in allowed

DrewId == ~spinning' /\ last_timestamp' > 0 /\ generatorVars' # generatorVars

(* Every id is larger than all before it, over any number of restarts,     *)
(* unless a process drew its first one in a millisecond an earlier process *)
(* had reached: the generator knows of no clock but its own (new).         *)
IdsAreFresh == [][DrewId => clock_reused' \/ LatestId' > newest]_vars

(* A process that failed serves again, unless the log panics it (or it     *)
(* waits for a millisecond beyond the bound of the model): whatever crash, *)
(* failing write or damage made of the file, it is read to its end.        *)
ComesBack ==
  pc = "down" ~> \/ pc = "idle"
                 \/ \E n \in DOMAIN file : Poisonous(file, n)
                 \/ spinning /\ clock = LastMillis
=============================================================================
