------------------------------- MODULE Snowflake -------------------------------
(***************************************************************************)
(* The id generator of engine/src/snowflake_id/mod.rs: an id is the        *)
(* millisecond it was drawn in and a sequence number within it.  The       *)
(* machine and the datacenter are constants of the process (main.rs passes *)
(* 1 and 1) and are left out.  The wall clock is the environment's: it     *)
(* advances, and it may be set back.                                       *)
(***************************************************************************)
EXTENDS Integers

CONSTANTS
  MaxSequence, \* MAX_SEQUENCE_ID: the last sequence number of a millisecond
  LastMillis   \* bound: the clock of the model stops here

ASSUME SnowflakeAssumption == MaxSequence \in Nat /\ LastMillis \in Nat \ {0}

VARIABLES
  clock,          \* current_millis()
  last_timestamp, \* when the last id of this process was drawn; 0: none yet
  sequence,       \* the sequence number of that id
  spinning        \* the generator waits for the next millisecond

generatorVars == <<last_timestamp, sequence, spinning>>

GeneratorTypeOK ==
  /\ clock \in 0..LastMillis
  /\ last_timestamp \in 0..LastMillis
  /\ sequence \in 0..MaxSequence
  /\ spinning \in BOOLEAN

(* The bits of an id, most significant first.                              *)
IdAt(millis, seqno) == millis * (MaxSequence + 1) + seqno

MillisOf(id) == id \div (MaxSequence + 1)

(* The id drawn by the step that led to, or leads to, this state.          *)
LatestId == IdAt(last_timestamp, sequence)

(* new: what a process starts with.                                        *)
NewGenerator ==
  /\ last_timestamp' = 0
  /\ sequence' = 0
  /\ spinning' = FALSE

(* The assertion of next_id fails: the clock is behind the last id.        *)
ClockBehind == ~spinning /\ clock < last_timestamp

(* All ids of this millisecond are used: the sequence wraps, and next_id   *)
(* spins until the clock has moved on.                                     *)
BeginSpin ==
  /\ ~spinning
  /\ clock = last_timestamp
  /\ sequence = MaxSequence
  /\ sequence' = 0
  /\ spinning' = TRUE
  /\ UNCHANGED last_timestamp

(* Mutant of NextId: the sequence wraps without waiting.                   *)
NextIdWithoutSpin ==
  \/ /\ clock = last_timestamp
     /\ sequence' = (sequence + 1) % (MaxSequence + 1)
     /\ UNCHANGED <<last_timestamp, spinning>>
  \/ /\ clock > last_timestamp
     /\ sequence' = 0
     /\ last_timestamp' = clock
     /\ spinning' = FALSE

(* Mutant of NextId: the sequence is not kept within its bits.             *)
NextIdUnmasked ==
  \/ /\ clock = last_timestamp
     /\ sequence' = sequence + 1
     /\ UNCHANGED <<last_timestamp, spinning>>
  \/ /\ clock > last_timestamp
     /\ sequence' = 0
     /\ last_timestamp' = clock
     /\ spinning' = FALSE

(* The next number of the same millisecond, or the first one of a later    *)
(* millisecond.                                                            *)
NextId ==
  \/ /\ ~spinning
     /\ clock = last_timestamp
     /\ sequence < MaxSequence
     /\ sequence' = sequence + 1
     /\ UNCHANGED <<last_timestamp, spinning>>
  \/ /\ clock > last_timestamp
     /\ sequence' = 0
     /\ last_timestamp' = clock
     /\ spinning' = FALSE

Tick ==
  /\ clock < LastMillis
  /\ clock' = clock + 1

SetBack ==
  /\ clock > 1
  /\ clock' \in 1..(clock - 1)
=============================================================================
