---------------------------- MODULE RecoveryProofs ----------------------------
(***************************************************************************)
(* Proofs about Recovery, for any commands, engines and bounds: that ids   *)
(* are fresh, that the entries of the log are numbered in increasing order *)
(* over crashes of every kind, that the log explains the engine, that a    *)
(* command that panics stays the last of the log, and that a restart takes *)
(* no answer back.                                                         *)
(***************************************************************************)
EXTENDS Recovery, DataLemmas

-----------------------------------------------------------------------------
(* Ids                                                                     *)

IdBase == MaxSequence + 1

LEMMA IdsAreNumbers ==
  ASSUME NEW a \in Nat, NEW s \in 0..MaxSequence
  PROVE  IdAt(a, s) \in Nat
<1>1. IdBase \in Nat /\ s \in Nat
  BY SnowflakeAssumption DEF IdBase
<1>. HIDE DEF IdBase
<1>2. a * IdBase \in Nat
  BY <1>1
<1>. QED
  BY <1>1, <1>2 DEF IdAt, IdBase

(* An id of an earlier millisecond is below all ids of a later one.        *)
LEMMA LaterMillisIsLarger ==
  ASSUME NEW a \in Nat, NEW b \in Nat, a < b, NEW s \in 0..MaxSequence
  PROVE  IdAt(a, s) < IdAt(b, 0)
<1>1. IdBase \in Nat /\ s < IdBase
  BY SnowflakeAssumption DEF IdBase
<1>. HIDE DEF IdBase
<1>2. b = a + 1 + (b - a - 1) /\ b - a - 1 \in Nat
  OBVIOUS
<1>3. (b - a - 1) * IdBase >= 0
  BY <1>1, <1>2
<1>4. b * IdBase = a * IdBase + IdBase + (b - a - 1) * IdBase
  BY <1>1, <1>2
<1>5. a * IdBase \in Int /\ b * IdBase \in Int /\ (b - a - 1) * IdBase \in Int
  BY <1>1
<1>6. a * IdBase + s < b * IdBase + 0
  BY <1>1, <1>3, <1>4, <1>5
<1>. QED
  BY <1>6 DEF IdAt, IdBase

(* An id whose millisecond lies before another is below that one's ids.    *)
LEMMA MillisBounds ==
  ASSUME NEW id \in Nat, NEW b \in Nat, MillisOf(id) < b
  PROVE  id < IdAt(b, 0)
<1>1. IdBase \in Nat \ {0}
  BY SnowflakeAssumption DEF IdBase
<1>. DEFINE q == id \div IdBase
<1>2. q \in Nat /\ id < (q + 1) * IdBase
  BY <1>1
<1>3. q < b
  BY DEF MillisOf, IdBase
<1>. HIDE DEF q, IdBase
<1>4. (q + 1) * IdBase <= b * IdBase
  <2>1. b = (q + 1) + (b - q - 1) /\ b - q - 1 \in Nat
    BY <1>2, <1>3
  <2>2. b * IdBase = (q + 1) * IdBase + (b - q - 1) * IdBase
    BY <1>1, <1>2, <2>1
  <2>3. (b - q - 1) * IdBase >= 0
    BY <1>1, <2>1
  <2>. QED
    BY <1>1, <1>2, <2>2, <2>3
<1>5. id < b * IdBase + 0
  BY <1>1, <1>2, <1>4
<1>. QED
  BY <1>5 DEF IdAt, IdBase

(* While no process has drawn its first id too early: the latest id is the *)
(* newest, and while the generator waits, the millisecond it waits to be   *)
(* over is the newest.                                                     *)
IdInv ==
  /\ GeneratorTypeOK /\ clock > 0 /\ newest \in Nat /\ clock_reused \in BOOLEAN
  /\ spinning => last_timestamp > 0
  /\ ~clock_reused /\ last_timestamp > 0 =>
       newest <= (IF spinning THEN IdAt(last_timestamp, MaxSequence) ELSE LatestId)

(* All a step of Recovery can do to the generator.                         *)
Restarted == NewGenerator /\ UNCHANGED <<clock, newest, clock_reused>>
Waits == BeginSpin /\ UNCHANGED <<clock, newest, clock_reused>>
ClockMoves == clock' \in 1..LastMillis /\ UNCHANGED <<generatorVars, newest, clock_reused>>

LEMMA GeneratorSteps ==
  ASSUME IdInv, [Next]_vars
  PROVE  Draw \/ Restarted \/ Waits \/ ClockMoves \/ UNCHANGED idVars
<1>. USE DEF Restarted, Waits, ClockMoves
<1>1. CASE UNCHANGED vars
  BY <1>1 DEF vars
<1>2. CASE Start \/ \E command \in Commands : Receive(command)
  BY <1>2 DEF Start, Receive
<1>3. CASE Replay
  BY <1>3 DEF Replay, SkipLine, StopReading, ReplayLine, ReplayPanics, OpenWriter, DrawIf, Die
<1>4. CASE Serve
  BY <1>4 DEF Serve, DrawOrderId, CancelFirst, Log, ExecuteLogged, CommandPanics, Answer, FailFast, DrawIf, Die
<1>5. CASE Shutdown \/ Kill \/ PowerLoss
  BY <1>5 DEF Shutdown, Kill, PowerLoss, Die
<1>6. CASE Spin
  BY <1>6 DEF Spin
<1>7. CASE WriteFails \/ Damage
  BY <1>7 DEF WriteFails, Damage
<1>8. CASE ClockTick \/ ClockSetBack
  BY <1>8, SnowflakeAssumption DEF ClockTick, ClockSetBack, Tick, SetBack, IdInv, GeneratorTypeOK
<1>. QED
  BY <1>1, <1>2, <1>3, <1>4, <1>5, <1>6, <1>7, <1>8 DEF Next

(* A draw: the next id of the millisecond, or the first of a later one.    *)
LEMMA DrawIsFresh ==
  ASSUME IdInv, Draw
  PROVE  IdInv' /\ (clock_reused' \/ LatestId' > newest)
<1>1. /\ clock \in 1..LastMillis /\ last_timestamp \in 0..LastMillis /\ LastMillis \in Nat
      /\ sequence \in 0..MaxSequence /\ MaxSequence \in Nat /\ newest \in Nat
  BY SnowflakeAssumption DEF IdInv, GeneratorTypeOK
<1>2. LatestId' = IdAt(last_timestamp', sequence')
  BY DEF LatestId, IdAt
<1>3. /\ last_timestamp' \in 1..LastMillis /\ sequence' \in 0..MaxSequence
      /\ spinning' = FALSE /\ clock' = clock
  BY <1>1 DEF Draw, NextId, IdInv
<1>4. LatestId' \in Nat
  <2>1. last_timestamp' \in Nat
    BY <1>1, <1>3
  <2>. QED
    BY <1>2, <1>3, <2>1, IdsAreNumbers
<1>5. newest' = (IF LatestId' > newest THEN LatestId' ELSE newest) /\ newest' \in Nat
  BY <1>1, <1>4 DEF Draw
<1>6. clock_reused' = (clock_reused \/ (last_timestamp = 0 /\ clock <= MillisOf(newest)))
  BY DEF Draw
<1>7. clock_reused' \/ LatestId' > newest
  <2>1. SUFFICES ASSUME ~clock_reused' PROVE LatestId' > newest
    OBVIOUS
  <2>2. ~clock_reused /\ (last_timestamp = 0 => ~(clock <= MillisOf(newest)))
    BY <1>6, <2>1
  <2>3. CASE clock = last_timestamp /\ ~spinning /\ sequence' = sequence + 1 /\ last_timestamp' = last_timestamp
    <3>1. newest <= LatestId
      BY <1>1, <2>2, <2>3 DEF IdInv
    <3>2. LatestId \in Nat
      BY <1>1, IdsAreNumbers DEF LatestId
    <3>3. LatestId' = LatestId + 1
      BY <1>1, <1>2, <2>3 DEF LatestId, IdAt
    <3>. QED
      BY <1>1, <3>1, <3>2, <3>3
  <2>4. CASE clock > last_timestamp /\ sequence' = 0 /\ last_timestamp' = clock
    <3>1. LatestId' = IdAt(clock, 0)
      BY <1>2, <2>4
    <3>2. CASE last_timestamp = 0
      <4>1. MillisOf(newest) \in Int
        BY <1>1 DEF MillisOf
      <4>2. MillisOf(newest) < clock
        BY <1>1, <2>2, <3>2, <4>1
      <4>3. newest < IdAt(clock, 0)
        BY <1>1, <4>2, MillisBounds
      <4>. QED
        BY <1>1, <1>4, <3>1, <4>3
    <3>3. CASE last_timestamp > 0
      <4>1. PICK n \in 0..MaxSequence : newest <= IdAt(last_timestamp, n)
        BY <1>1, <2>2, <3>3 DEF IdInv, LatestId
      <4>2. IdAt(last_timestamp, n) < IdAt(clock, 0)
        BY <1>1, <2>4, LaterMillisIsLarger
      <4>3. IdAt(last_timestamp, n) \in Nat
        BY <1>1, IdsAreNumbers
      <4>. QED
        BY <1>1, <1>4, <3>1, <4>1, <4>2, <4>3
    <3>. QED
      BY <1>1, <3>2, <3>3
  <2>. QED
    BY <2>3, <2>4 DEF Draw, NextId
<1>8. newest' <= LatestId' \/ clock_reused'
  BY <1>1, <1>4, <1>5, <1>7
<1>9. GeneratorTypeOK' /\ clock' > 0 /\ clock_reused' \in BOOLEAN
  <2>1. clock_reused' \in BOOLEAN
    BY <1>6 DEF IdInv
  <2>2. clock' \in 0..LastMillis /\ last_timestamp' \in 0..LastMillis /\ clock' > 0
    BY <1>1, <1>3
  <2>. QED
    BY <1>3, <2>1, <2>2 DEF GeneratorTypeOK
<1>. QED
  BY <1>3, <1>5, <1>7, <1>8, <1>9 DEF IdInv

LEMMA IdStep ==
  ASSUME IdInv, [Next]_vars
  PROVE  IdInv'
<1>1. CASE Restarted
  <2>1. /\ last_timestamp' = 0 /\ sequence' = 0 /\ spinning' = FALSE
        /\ clock' = clock /\ newest' = newest /\ clock_reused' = clock_reused
    BY <1>1 DEF Restarted, NewGenerator
  <2>2. spinning' \in BOOLEAN /\ ~spinning'
    BY <2>1
  <2>3. clock' \in 0..LastMillis /\ 0 \in 0..LastMillis /\ 0 \in 0..MaxSequence
    BY <2>1, SnowflakeAssumption DEF IdInv, GeneratorTypeOK
  <2>4. GeneratorTypeOK'
    BY <2>1, <2>2, <2>3 DEF GeneratorTypeOK
  <2>5. ~(last_timestamp' > 0)
    BY <2>1
  <2>6. clock' > 0 /\ newest' \in Nat /\ clock_reused' \in BOOLEAN
    BY <2>1 DEF IdInv
  <2>. QED
    BY <2>2, <2>4, <2>5, <2>6 DEF IdInv
<1>2. CASE Waits
  <2>1. /\ ~spinning /\ clock = last_timestamp /\ sequence = MaxSequence
        /\ sequence' = 0 /\ spinning' = TRUE /\ UNCHANGED <<last_timestamp, clock, newest, clock_reused>>
    BY <1>2 DEF Waits, BeginSpin
  <2>2. LatestId = IdAt(last_timestamp, MaxSequence)
    BY <2>1 DEF LatestId
  <2>3. ~clock_reused' /\ last_timestamp' > 0 => newest' <= IdAt(last_timestamp', MaxSequence)
    BY <2>1, <2>2 DEF IdInv
  <2>. QED
    BY <2>1, <2>3, SnowflakeAssumption DEF IdInv, GeneratorTypeOK
<1>3. CASE ClockMoves
  BY <1>3 DEF ClockMoves, generatorVars, IdInv, GeneratorTypeOK, LatestId, IdAt
<1>4. CASE UNCHANGED idVars
  BY <1>4 DEF idVars, IdInv, GeneratorTypeOK, LatestId, IdAt
<1>. QED
  BY <1>1, <1>2, <1>3, <1>4, DrawIsFresh, GeneratorSteps

LEMMA IdInit == Init => IdInv
<1>. SUFFICES ASSUME Init PROVE IdInv
  OBVIOUS
<1>1. /\ last_timestamp = 0 /\ sequence = 0 /\ spinning = FALSE /\ clock = 1
      /\ newest = 0 /\ clock_reused = FALSE
  BY DEF Init
<1>2. spinning \in BOOLEAN /\ ~spinning /\ clock_reused \in BOOLEAN
  BY <1>1
<1>3. clock \in 0..LastMillis /\ 0 \in 0..LastMillis /\ 0 \in 0..MaxSequence
  BY <1>1, SnowflakeAssumption
<1>4. GeneratorTypeOK
  BY <1>1, <1>2, <1>3 DEF GeneratorTypeOK
<1>5. clock > 0 /\ newest \in Nat /\ ~(last_timestamp > 0)
  BY <1>1
<1>. QED
  BY <1>2, <1>4, <1>5 DEF IdInv

(* Every id is larger than all ids before it, over any number of restarts, *)
(* spins and settings of the clock, unless a process drew its first one in *)
(* a millisecond an earlier process had reached (snowflake_id, new).       *)
THEOREM IdsStayFresh == Spec => IdsAreFresh
<1>1. IdInv /\ [Next]_vars => IdInv'
  BY IdStep
<1>2. IdInv /\ [Next]_vars => [DrewId => clock_reused' \/ LatestId' > newest]_vars
  <2>. SUFFICES ASSUME IdInv, [Next]_vars, DrewId
                PROVE  clock_reused' \/ LatestId' > newest
    OBVIOUS
  <2>1. ~Restarted
    BY DEF DrewId, Restarted, NewGenerator
  <2>2. ~Waits
    BY DEF DrewId, Waits, BeginSpin
  <2>3. ~ClockMoves /\ ~UNCHANGED idVars
    BY DEF DrewId, ClockMoves, generatorVars, idVars
  <2>. QED
    BY <2>1, <2>2, <2>3, GeneratorSteps, DrawIsFresh
<1>. QED
  BY <1>1, <1>2, IdInit, PTL DEF Spec, IdsAreFresh

-----------------------------------------------------------------------------
(* Sequence numbers                                                        *)

(* What Readable asks of a piece but for its own line end: a piece that    *)
(* becomes readable when the rest of the file is cut off was legible.      *)
Legible(f, n) ==
  /\ f[n].holds = "entry"
  /\ n > 1 => f[n - 1].ended
  /\ \A m \in 1..(n - 1) : f[m].holds # "illegible"

Numbered(f) ==
  \A m, n \in DOMAIN f : m < n /\ Readable(f, m) /\ Legible(f, n) => f[m].seq < f[n].seq

(* No entry up to piece k has a number over s.                             *)
Under(f, k, s) == \A m \in DOMAIN f : m <= k /\ Readable(f, m) => f[m].seq <= s

SeqInv ==
  /\ file \in Seq(Piece) /\ seq \in Nat /\ next \in Nat \ {0}
  /\ cmd \in Commands \cup {NoCommand}
  /\ Numbered(file)
  /\ pc \in {"down", "stopped"} => next = 1
  /\ pc = "replaying" => Under(file, next - 1, seq)
  /\ pc \notin {"down", "stopped", "replaying"} => Under(file, Len(file), seq)

LEMMA PieceFields == \A p \in Piece : p.seq \in Nat /\ p.ended \in BOOLEAN
BY DEF Piece

LEMMA WithoutLineEnd ==
  ASSUME NEW p \in Piece
  PROVE  LET q == [p EXCEPT !.ended = FALSE]
         IN  q \in Piece /\ q.holds = p.holds /\ q.seq = p.seq
BY DEF Piece

LEMMA EntryIsPiece ==
  ASSUME NEW number \in Nat, NEW command \in Commands \cup {NoCommand}
  PROVE  /\ Entry(number, command) \in Piece /\ Entry(number, command).seq = number
         /\ Unended(number, command) \in Piece /\ Unended(number, command).seq = number
<1>1. Entry(number, command) \in Piece /\ Entry(number, command).seq = number
  BY DEF Entry, Piece
<1>. QED
  BY <1>1, WithoutLineEnd DEF Unended

(* The entry that the log writes next.                                     *)
LEMMA NextIsPiece ==
  ASSUME seq \in Nat, cmd \in Commands
  PROVE  NextEntry \in Piece
BY EntryIsPiece DEF NextEntry

(* A file of which the end was cut off, the last line end went, or an      *)
(* entry was damaged.                                                      *)
LEMMA WornStaysNumbered ==
  ASSUME NEW f \in Seq(Piece), NEW g \in Seq(Piece), Numbered(f), Len(g) <= Len(f),
         \A k \in 1..Len(g) :
           /\ g[k].holds = "entry" => f[k].holds = "entry" /\ g[k].seq = f[k].seq
           /\ k < Len(g) /\ g[k].ended => f[k].ended
           /\ k < Len(g) /\ g[k].holds # "illegible" => f[k].holds # "illegible"
  PROVE  Numbered(g)
<1>. SUFFICES ASSUME NEW m \in DOMAIN g, NEW n \in DOMAIN g, m < n, Readable(g, m), Legible(g, n)
              PROVE  g[m].seq < g[n].seq
  BY DEF Numbered
<1>1. m \in 1..Len(g) /\ n \in 1..Len(g) /\ m \in 1..Len(f) /\ n \in 1..Len(f)
  OBVIOUS
<1>2. g[m].ended
  BY <1>1 DEF Legible, Readable, AloneOnLine
<1>3. Readable(f, m)
  <2>1. f[m].holds = "entry" /\ f[m].ended
    BY <1>1, <1>2 DEF Readable
  <2>2. m > 1 => f[m - 1].ended
    BY <1>1 DEF Readable, AloneOnLine
  <2>3. \A k \in 1..(m - 1) : f[k].holds # "illegible"
    BY <1>1 DEF Readable
  <2>. QED
    BY <2>1, <2>2, <2>3 DEF Readable, AloneOnLine
<1>4. Legible(f, n)
  <2>1. f[n].holds = "entry"
    BY <1>1 DEF Legible
  <2>2. n > 1 => f[n - 1].ended
    <3>. SUFFICES ASSUME n > 1 PROVE f[n - 1].ended
      OBVIOUS
    <3>1. n - 1 \in 1..Len(g) /\ n - 1 < Len(g) /\ g[n - 1].ended
      BY <1>1 DEF Legible
    <3>. QED
      BY <3>1
  <2>3. \A k \in 1..(n - 1) : f[k].holds # "illegible"
    <3>. SUFFICES ASSUME NEW k \in 1..(n - 1) PROVE f[k].holds # "illegible"
      OBVIOUS
    <3>1. k \in 1..Len(g) /\ k < Len(g) /\ g[k].holds # "illegible"
      BY <1>1 DEF Legible
    <3>. QED
      BY <3>1
  <2>. QED
    BY <2>1, <2>2, <2>3 DEF Legible
<1>. QED
  BY <1>1, <1>3, <1>4 DEF Numbered, Readable, Legible

(* A piece behind the others; an entry has the next number.                *)
LEMMA AppendStaysNumbered ==
  ASSUME NEW f \in Seq(Piece), NEW p \in Piece, NEW s \in Nat,
         Numbered(f), Under(f, Len(f), s), p.holds = "entry" => p.seq = s + 1
  PROVE  /\ Append(f, p) \in Seq(Piece)
         /\ Numbered(Append(f, p))
         /\ Under(Append(f, p), Len(Append(f, p)), s + 1)
<1>. DEFINE g == Append(f, p)
<1>1. g \in Seq(Piece) /\ Len(g) = Len(f) + 1 /\ g[Len(f) + 1] = p /\ \A k \in 1..Len(f) : g[k] = f[k]
  OBVIOUS
<1>. HIDE DEF g
<1>2. \A m \in 1..Len(f) : Readable(g, m) => Readable(f, m) /\ g[m].seq <= s
  <2>. SUFFICES ASSUME NEW m \in 1..Len(f), Readable(g, m)
                PROVE  Readable(f, m) /\ g[m].seq <= s
    OBVIOUS
  <2>1. Readable(f, m)
    BY <1>1 DEF Readable, AloneOnLine
  <2>. QED
    BY <1>1, <2>1 DEF Under
<1>3. Numbered(g)
  <2>. SUFFICES ASSUME NEW m \in 1..Len(g), NEW n \in 1..Len(g), m < n, Readable(g, m), Legible(g, n)
                PROVE  g[m].seq < g[n].seq
    BY <1>1 DEF Numbered
  <2>1. m \in 1..Len(f) /\ Readable(f, m) /\ g[m].seq <= s /\ g[m] = f[m] /\ g[m].seq \in Nat
    <3>1. m \in 1..Len(f)
      BY <1>1
    <3>2. g[m] = f[m] /\ f[m] \in Piece
      BY <1>1, <3>1
    <3>. QED
      BY <1>2, <3>1, <3>2, PieceFields
  <2>2. CASE n = Len(g)
    BY <1>1, <2>1, <2>2 DEF Legible
  <2>3. CASE n <= Len(f)
    <3>1. n \in 1..Len(f) /\ g[n] = f[n]
      BY <1>1, <2>3
    <3>2. n > 1 => f[n - 1] = g[n - 1]
      BY <1>1, <3>1
    <3>3. \A k \in 1..(n - 1) : f[k] = g[k]
      BY <1>1, <3>1
    <3>4. Legible(f, n)
      BY <3>1, <3>2, <3>3 DEF Legible
    <3>. QED
      BY <2>1, <2>3, <3>1, <3>4 DEF Numbered
  <2>. QED
    BY <1>1, <2>2, <2>3
<1>4. Under(g, Len(g), s + 1)
  <2>. SUFFICES ASSUME NEW m \in 1..Len(g), Readable(g, m) PROVE g[m].seq <= s + 1
    BY <1>1 DEF Under
  <2>1. CASE m \in 1..Len(f)
    <3>1. g[m].seq <= s /\ g[m].seq \in Nat
      <4>1. g[m] = f[m] /\ f[m] \in Piece
        BY <1>1, <2>1
      <4>. QED
        BY <1>2, <2>1, <4>1, PieceFields
    <3>. QED
      BY <3>1
  <2>2. CASE m = Len(g)
    BY <1>1, <2>2 DEF Readable
  <2>. QED
    BY <1>1, <2>1, <2>2
<1>. QED
  BY <1>1, <1>3, <1>4 DEF g

(* Only a process that serves is about to write.                           *)
LEMMA LoggingServes ==
  ASSUME SeqInv, Logging
  PROVE  Under(file, Len(file), seq)
BY DEF SeqInv, Logging

(* What a write leaves in the file.                                        *)
LEMMA WrittenStaysNumbered ==
  ASSUME SeqInv, Logging, NEW f \in CutShort
  PROVE  f \in Seq(Piece) /\ Numbered(f) /\ Under(f, Len(f), seq + 1)
<1>1. Under(file, Len(file), seq) /\ file \in Seq(Piece) /\ seq \in Nat /\ Numbered(file)
  BY LoggingServes DEF SeqInv
<1>2. CASE f = file
  <2>1. \A m \in 1..Len(file) : file[m].seq \in Nat
    <3>1. \A m \in 1..Len(file) : file[m] \in Piece
      BY <1>1
    <3>. QED
      BY <3>1, PieceFields
  <2>2. Under(file, Len(file), seq + 1)
    BY <1>1, <2>1 DEF Under
  <2>. QED
    BY <1>1, <1>2, <2>2
<1>3. CASE f = Append(file, Part)
  <2>1. Part \in Piece /\ Part.holds # "entry"
    BY DEF Part, Piece
  <2>. QED
    BY <1>1, <1>3, <2>1, AppendStaysNumbered
<1>4. CASE f = Append(file, Unended(seq + 1, cmd))
  <2>1. Unended(seq + 1, cmd) \in Piece /\ Unended(seq + 1, cmd).seq = seq + 1
    BY <1>1, EntryIsPiece DEF SeqInv
  <2>. QED
    BY <1>1, <1>4, <2>1, AppendStaysNumbered
<1>5. CASE f = Append(file, NextEntry)
  <2>1. NextEntry \in Piece /\ NextEntry.seq = seq + 1
    BY <1>1, EntryIsPiece DEF NextEntry, SeqInv
  <2>. QED
    BY <1>1, <1>5, <2>1, AppendStaysNumbered
<1>. QED
  BY <1>2, <1>3, <1>4, <1>5 DEF CutShort

(* What a loss of power leaves of it.                                      *)
LEMMA SurvivingStaysNumbered ==
  ASSUME NEW f \in Seq(Piece), Numbered(f), NEW g \in Surviving(f)
  PROVE  g \in Seq(Piece) /\ Numbered(g)
<1>1. CASE \E n \in 0..Len(f) : g = SubSeq(f, 1, n)
  <2>1. PICK n \in 0..Len(f) : g = SubSeq(f, 1, n)
    BY <1>1
  <2>2. g \in Seq(Piece) /\ Len(g) = n /\ \A k \in 1..n : g[k] = f[k]
    BY <2>1
  <2>. QED
    BY <2>2, WornStaysNumbered
<1>2. CASE \E n \in 0..(Len(f) - 1), p \in Piece :
             g = Append(SubSeq(f, 1, n), p) /\ (p.holds = "entry" => f[n + 1].holds = "entry" /\ p.seq = f[n + 1].seq)
  <2>1. PICK n \in 0..(Len(f) - 1), p \in Piece :
          g = Append(SubSeq(f, 1, n), p) /\ (p.holds = "entry" => f[n + 1].holds = "entry" /\ p.seq = f[n + 1].seq)
    BY <1>2
  <2>. DEFINE h == SubSeq(f, 1, n)
  <2>2. h \in Seq(Piece) /\ Len(h) = n /\ \A k \in 1..n : h[k] = f[k]
    OBVIOUS
  <2>. HIDE DEF h
  <2>3. g \in Seq(Piece) /\ Len(g) = n + 1 /\ g[n + 1] = p /\ \A k \in 1..n : g[k] = f[k]
    BY <2>1, <2>2 DEF h
  <2>4. \A k \in 1..Len(g) :
           /\ g[k].holds = "entry" => f[k].holds = "entry" /\ g[k].seq = f[k].seq
           /\ k < Len(g) => g[k] = f[k]
    <3>. SUFFICES ASSUME NEW k \in 1..Len(g)
                  PROVE  /\ g[k].holds = "entry" => f[k].holds = "entry" /\ g[k].seq = f[k].seq
                         /\ k < Len(g) => g[k] = f[k]
      OBVIOUS
    <3>1. CASE k \in 1..n
      BY <2>3, <3>1
    <3>2. CASE k = n + 1
      BY <2>1, <2>3, <3>2
    <3>. QED
      BY <2>3, <3>1, <3>2
  <2>5. Len(g) <= Len(f)
    BY <2>3
  <2>. QED
    BY <2>3, <2>4, <2>5, WornStaysNumbered
<1>3. Part \in Piece /\ Part.holds # "entry"
  BY DEF Part, Piece
<1>4. \A n \in 0..(Len(f) - 1) :
        LET p == [f[n + 1] EXCEPT !.ended = FALSE]
        IN  p \in Piece /\ p.holds = f[n + 1].holds /\ p.seq = f[n + 1].seq
  <2>1. \A n \in 0..(Len(f) - 1) : f[n + 1] \in Piece
    OBVIOUS
  <2>. QED
    BY <2>1, WithoutLineEnd
<1>5. CASE \E n \in 0..(Len(f) - 1) : g = Append(SubSeq(f, 1, n), Part)
  BY <1>2, <1>3, <1>5
<1>6. CASE \E n \in 0..(Len(f) - 1) : g = Append(SubSeq(f, 1, n), [f[n + 1] EXCEPT !.ended = FALSE])
  <2>1. PICK n \in 0..(Len(f) - 1) : g = Append(SubSeq(f, 1, n), [f[n + 1] EXCEPT !.ended = FALSE])
    BY <1>6
  <2>. QED
    BY <1>2, <1>4, <2>1
<1>7. \/ \E n \in 0..Len(f) : g = SubSeq(f, 1, n)
      \/ \E n \in 0..(Len(f) - 1) : g = Append(SubSeq(f, 1, n), Part)
      \/ \E n \in 0..(Len(f) - 1) : g = Append(SubSeq(f, 1, n), [f[n + 1] EXCEPT !.ended = FALSE])
  <2>1. \A n \in {k \in 0..Len(f) : k >= synced} \ {Len(f)} : n \in 0..(Len(f) - 1)
    OBVIOUS
  <2>. QED
    BY <2>1 DEF Surviving
<1>. QED
  BY <1>1, <1>5, <1>6, <1>7

LEMMA SeqInit == Init => SeqInv
<1>. SUFFICES ASSUME Init PROVE SeqInv
  OBVIOUS
<1>1. file = <<>> /\ seq = 0 /\ next = 1 /\ pc = "down" /\ cmd = NoCommand
  BY DEF Init
<1>2. file \in Seq(Piece) /\ Numbered(file)
  BY <1>1 DEF Numbered
<1>. QED
  BY <1>1, <1>2 DEF SeqInv

(* A process that ended, whatever is in the file now.                      *)
LEMMA DeadStep ==
  ASSUME file' \in Seq(Piece), Numbered(file'), Die, pc' \in {"down", "stopped"}
  PROVE  SeqInv'
BY DEF SeqInv, Die

LEMMA SeqReplay ==
  ASSUME SeqInv, Replay
  PROVE  SeqInv'
<1>. USE DEF SeqInv
<1>1. CASE SkipLine
  <2>1. Under(file, next, seq)
    BY <1>1 DEF SkipLine, Under
  <2>. QED
    BY <1>1, <2>1 DEF SkipLine, logVars
<1>2. CASE StopReading
  <2>1. Under(file, Len(file), seq)
    <3>. SUFFICES ASSUME NEW m \in 1..Len(file), Readable(file, m) PROVE file[m].seq <= seq
      BY DEF Under
    <3>1. m # next /\ ~(next < m)
      BY <1>2 DEF StopReading, Readable
    <3>. QED
      BY <1>2, <3>1 DEF StopReading, Under
  <2>. QED
    BY <1>2, <2>1 DEF StopReading, logVars
<1>3. CASE ReplayLine
  <2>1. /\ next \in 1..Len(file) /\ pc = "replaying" /\ pc' = pc /\ cmd' = cmd /\ file' = file
        /\ next' = next + 1 /\ seq' = SeqSeen(file[next].seq) /\ Under(file, next - 1, seq)
    BY <1>3 DEF ReplayLine
  <2>2. \A m \in 1..Len(file) : file[m].seq \in Nat
    <3>1. \A m \in 1..Len(file) : file[m] \in Piece
      OBVIOUS
    <3>. QED
      BY <3>1, PieceFields
  <2>3. seq' \in Nat /\ seq' >= seq /\ seq' >= file[next].seq
    BY <2>1, <2>2 DEF SeqSeen
  <2>4. Under(file, next, seq')
    <3>. SUFFICES ASSUME NEW m \in 1..Len(file), m <= next, Readable(file, m) PROVE file[m].seq <= seq'
      BY DEF Under
    <3>1. CASE m = next
      BY <2>3, <3>1
    <3>2. CASE m <= next - 1
      <4>1. file[m].seq <= seq
        BY <2>1, <3>2 DEF Under
      <4>. QED
        BY <2>2, <2>3, <4>1
    <3>. QED
      BY <2>1, <3>1, <3>2
  <2>. QED
    BY <2>1, <2>3, <2>4
<1>4. CASE ReplayPanics
  BY <1>4, DeadStep DEF ReplayPanics
<1>5. CASE OpenWriter
  <2>1. Under(file, Len(file), seq)
    BY <1>5 DEF OpenWriter, Under
  <2>. QED
    BY <1>5, <2>1 DEF OpenWriter, logVars
<1>. QED
  BY <1>1, <1>2, <1>3, <1>4, <1>5 DEF Replay

LEMMA SeqServe ==
  ASSUME SeqInv, Serve
  PROVE  SeqInv'
<1>1. CASE DrawOrderId \/ CancelFirst \/ ExecuteLogged \/ CommandPanics \/ Answer
  BY <1>1 DEF SeqInv, DrawOrderId, CancelFirst, ExecuteLogged, CommandPanics, Answer, logVars
<1>2. CASE Log
  <2>1. NextEntry \in Piece /\ NextEntry.seq = seq + 1
    BY EntryIsPiece DEF NextEntry, SeqInv
  <2>2. Under(file, Len(file), seq)
    BY <1>2, LoggingServes DEF Log
  <2>3. Append(file, NextEntry) \in Seq(Piece) /\ Numbered(Append(file, NextEntry))
        /\ Under(Append(file, NextEntry), Len(Append(file, NextEntry)), seq + 1)
    BY <2>1, <2>2, AppendStaysNumbered DEF SeqInv
  <2>4. /\ file' = Append(file, NextEntry) /\ seq' = seq + 1 /\ next' = next /\ cmd' = cmd
        /\ pc' \in {"executed", "logged"}
    BY <1>2 DEF Log
  <2>. QED
    BY <2>3, <2>4 DEF SeqInv
<1>3. CASE FailFast
  BY <1>3, DeadStep DEF FailFast, SeqInv
<1>. QED
  BY <1>1, <1>2, <1>3 DEF Serve

LEMMA SeqFaults ==
  ASSUME SeqInv, WriteFails \/ Kill \/ PowerLoss \/ Damage
  PROVE  SeqInv'
<1>1. CASE WriteFails
  <2>1. /\ Logging /\ file' \in CutShort /\ seq' = seq + 1 /\ pc' = "panicked" /\ next' = next /\ cmd' = cmd
    BY <1>1 DEF WriteFails
  <2>2. file' \in Seq(Piece) /\ Numbered(file') /\ Under(file', Len(file'), seq + 1)
    BY <2>1, WrittenStaysNumbered
  <2>. QED
    BY <2>1, <2>2 DEF SeqInv
<1>2. \A f \in (IF Logging THEN CutShort ELSE {file}) : f \in Seq(Piece) /\ Numbered(f)
  BY WrittenStaysNumbered DEF SeqInv
<1>3. CASE Kill
  <2>1. file' \in Seq(Piece) /\ Numbered(file') /\ Die /\ pc' = "down"
    BY <1>2, <1>3 DEF Kill
  <2>. QED
    BY <2>1, DeadStep
<1>4. CASE PowerLoss
  <2>1. PICK f \in (IF Logging THEN CutShort ELSE {file}) : file' \in Surviving(f)
    BY <1>4 DEF PowerLoss
  <2>2. file' \in Seq(Piece) /\ Numbered(file')
    BY <1>2, <2>1, SurvivingStaysNumbered
  <2>. QED
    BY <1>4, <2>2, DeadStep DEF PowerLoss
<1>5. CASE Damage
  <2>1. PICK n \in 1..Len(file), what \in {"rotten", "illegible"} :
          file[n].holds = "entry" /\ file' = [file EXCEPT ![n].holds = what]
    <3>1. DOMAIN file = 1..Len(file)
      BY DEF SeqInv
    <3>2. \E n \in DOMAIN file, what \in {"rotten", "illegible"} :
            file[n].holds = "entry" /\ file' = [file EXCEPT ![n].holds = what]
      BY <1>5 DEF Damage
    <3>. QED
      BY <3>1, <3>2
  <2>2. \A p \in Piece :
          LET q == [p EXCEPT !.holds = what]
          IN  q \in Piece /\ q.holds # "entry" /\ q.ended = p.ended
    BY DEF Piece
  <2>3. /\ file' \in Seq(Piece) /\ Len(file') = Len(file) /\ file[n] \in Piece
        /\ file'[n] = [file[n] EXCEPT !.holds = what] /\ \A k \in 1..Len(file) : k # n => file'[k] = file[k]
    BY <2>1, <2>2 DEF SeqInv
  <2>4. \A k \in 1..Len(file') :
           /\ file'[k].holds = "entry" => file[k].holds = "entry" /\ file'[k].seq = file[k].seq
           /\ k < Len(file') /\ file'[k].ended => file[k].ended
           /\ k < Len(file') /\ file'[k].holds # "illegible" => file[k].holds # "illegible"
    BY <2>1, <2>2, <2>3
  <2>5. Numbered(file')
    BY <2>3, <2>4, WornStaysNumbered DEF SeqInv
  <2>6. pc \in {"down", "stopped"} /\ pc' = pc /\ next' = next /\ seq' = seq /\ cmd' = cmd
    BY <1>5 DEF Damage, Running, processVars
  <2>. QED
    BY <2>3, <2>5, <2>6 DEF SeqInv
<1>. QED
  BY <1>1, <1>3, <1>4, <1>5

LEMMA SeqStep ==
  ASSUME SeqInv, [Next]_vars
  PROVE  SeqInv'
<1>1. CASE Start
  BY <1>1 DEF Start, SeqInv, logVars, Under
<1>2. CASE \E command \in Commands : Receive(command)
  BY <1>2 DEF Receive, SeqInv, logVars
<1>3. CASE Shutdown
  BY <1>3, DeadStep DEF Shutdown, SeqInv
<1>4. CASE Spin \/ ClockTick \/ ClockSetBack \/ UNCHANGED vars
  BY <1>4 DEF Spin, ClockTick, ClockSetBack, vars, SeqInv, logVars, processVars
<1>. QED
  BY <1>1, <1>2, <1>3, <1>4, SeqReplay, SeqServe, SeqFaults DEF Next

(* The entries a reader yields are numbered in strictly increasing order   *)
(* after any number of restarts, cut-off writes, losses of power and       *)
(* damaged lines (WalEngine::new continues from max_seq).                  *)
THEOREM SeqsAlwaysIncrease == Spec => []SeqsIncrease
<1>1. SeqInv => SeqsIncrease
  BY DEF SeqInv, Numbered, SeqsIncrease, Legible, Readable, AloneOnLine
<1>. QED
  BY <1>1, SeqInit, SeqStep, PTL DEF Spec

-----------------------------------------------------------------------------
(* Types                                                                   *)

(* RecoveryTypeOK needs to know that what is replayed is a command, and    *)
(* that there is one wherever one is being served.                         *)
Commanded(f) == \A n \in DOMAIN f : f[n].holds = "entry" => f[n].cmd \in Commands

TypeInv ==
  /\ RecoveryTypeOK /\ IdInv /\ SeqInv
  /\ Commanded(file)
  /\ pc \in {"received", "drawn", "cancelled", "logged", "executed"} => cmd \in Commands
  /\ pc = "drawn" => cmd \in Orders
  /\ pc = "cancelled" => cmd \in Cancels

(* What a write leaves in the file.                                        *)
LEMMA WrittenHoldsCommands ==
  ASSUME TypeInv, Logging, NEW f \in CutShort
  PROVE  f \in Seq(Piece) /\ Commanded(f) /\ Len(file) <= Len(f)
<1>1. f \in Seq(Piece)
  BY WrittenStaysNumbered DEF TypeInv
<1>2. file \in Seq(Piece) /\ cmd \in Commands
  BY DEF TypeInv, Logging, SeqInv
<1>3. f = file \/ \E p : f = Append(file, p) /\ (p.holds = "entry" => p.cmd \in Commands)
  <2>1. Part.holds # "entry" /\ NextEntry.cmd = cmd /\ Unended(seq + 1, cmd).cmd = cmd
    BY DEF Part, NextEntry, Unended, Entry
  <2>. QED
    BY <1>2, <2>1 DEF CutShort
<1>4. CASE f = file
  BY <1>1, <1>2, <1>4 DEF TypeInv, Commanded
<1>5. CASE \E p : f = Append(file, p) /\ (p.holds = "entry" => p.cmd \in Commands)
  <2>1. PICK p : f = Append(file, p) /\ (p.holds = "entry" => p.cmd \in Commands)
    BY <1>5
  <2>2. Len(f) = Len(file) + 1 /\ f[Len(file) + 1] = p /\ \A n \in 1..Len(file) : f[n] = file[n]
    BY <1>2, <2>1
  <2>. QED
    BY <1>1, <1>2, <2>1, <2>2 DEF TypeInv, Commanded
<1>. QED
  BY <1>3, <1>4, <1>5

(* What a loss of power leaves of a file: its beginning, and perhaps a     *)
(* part of the piece behind it.                                            *)
LEMMA SurvivingShape ==
  ASSUME NEW f \in Seq(Piece), NEW g \in Surviving(f), synced \in 0..Len(f)
  PROVE  /\ g \in Seq(Piece) /\ Len(g) \in synced..Len(f)
         /\ \A k \in 1..Len(g) : k < Len(g) \/ Len(g) = synced => g[k] = f[k]
         /\ \A k \in 1..Len(g) :
              g[k] = f[k] \/ g[k] = Part \/ g[k] = [f[k] EXCEPT !.ended = FALSE]
<1>1. CASE \E n \in synced..Len(f) : g = SubSeq(f, 1, n)
  <2>1. PICK n \in synced..Len(f) : g = SubSeq(f, 1, n)
    BY <1>1
  <2>2. g \in Seq(Piece) /\ Len(g) = n /\ \A k \in 1..n : g[k] = f[k]
    BY <2>1
  <2>. QED
    BY <2>2
<1>2. CASE \E n \in synced..(Len(f) - 1), p \in Piece :
             g = Append(SubSeq(f, 1, n), p) /\ (p = Part \/ p = [f[n + 1] EXCEPT !.ended = FALSE])
  <2>1. PICK n \in synced..(Len(f) - 1), p \in Piece :
             g = Append(SubSeq(f, 1, n), p) /\ (p = Part \/ p = [f[n + 1] EXCEPT !.ended = FALSE])
    BY <1>2
  <2>. DEFINE h == SubSeq(f, 1, n)
  <2>2. h \in Seq(Piece) /\ Len(h) = n /\ \A k \in 1..n : h[k] = f[k]
    OBVIOUS
  <2>. HIDE DEF h
  <2>3. g \in Seq(Piece) /\ Len(g) = n + 1 /\ g[n + 1] = p /\ \A k \in 1..n : g[k] = f[k]
    BY <2>1, <2>2 DEF h
  <2>4. \A k \in 1..Len(g) : k \in 1..n \/ k = n + 1
    BY <2>3
  <2>5. Len(g) \in synced..Len(f) /\ Len(g) # synced
    BY <2>3
  <2>6. \A k \in 1..Len(g) : k < Len(g) => g[k] = f[k]
    BY <2>3, <2>4
  <2>7. \A k \in 1..Len(g) : g[k] = f[k] \/ g[k] = Part \/ g[k] = [f[k] EXCEPT !.ended = FALSE]
    BY <2>1, <2>3, <2>4
  <2>. QED
    BY <2>3, <2>5, <2>6, <2>7
<1>3. Part \in Piece
  BY DEF Part, Piece
<1>4. \A n \in synced..(Len(f) - 1) : [f[n + 1] EXCEPT !.ended = FALSE] \in Piece
  <2>1. \A n \in synced..(Len(f) - 1) : f[n + 1] \in Piece
    OBVIOUS
  <2>. QED
    BY <2>1, WithoutLineEnd
<1>5. \/ \E n \in synced..Len(f) : g = SubSeq(f, 1, n)
      \/ \E n \in synced..(Len(f) - 1) : g = Append(SubSeq(f, 1, n), Part)
      \/ \E n \in synced..(Len(f) - 1) : g = Append(SubSeq(f, 1, n), [f[n + 1] EXCEPT !.ended = FALSE])
  <2>1. \A n \in {k \in 0..Len(f) : k >= synced} : n \in synced..Len(f)
    OBVIOUS
  <2>2. \A n \in {k \in 0..Len(f) : k >= synced} \ {Len(f)} : n \in synced..(Len(f) - 1)
    OBVIOUS
  <2>. QED
    BY <2>1, <2>2 DEF Surviving
<1>. QED
  BY <1>1, <1>2, <1>3, <1>4, <1>5

(* It holds no other commands.                                             *)
LEMMA SurvivingHoldsCommands ==
  ASSUME NEW f \in Seq(Piece), Commanded(f), NEW g \in Surviving(f), synced \in 0..Len(f)
  PROVE  Commanded(g)
<1>1. ASSUME NEW k \in 1..Len(g), g[k].holds = "entry"
      PROVE  g[k].cmd \in Commands
  <2>1. k \in 1..Len(f) /\ f[k] \in Piece
    BY SurvivingShape
  <2>2. Part.holds # "entry"
    BY DEF Part
  <2>3. g[k] = f[k] \/ g[k] = [f[k] EXCEPT !.ended = FALSE]
    BY <1>1, <2>2, SurvivingShape
  <2>4. g[k].holds = f[k].holds /\ g[k].cmd = f[k].cmd
    BY <2>1, <2>3 DEF Piece
  <2>. QED
    BY <1>1, <2>1, <2>4 DEF Commanded
<1>2. g \in Seq(Piece)
  BY SurvivingShape
<1>. QED
  BY <1>1, <1>2 DEF Commanded

(* At the start there is an empty file and no process.                     *)
LEMMA TypeInit == Init => TypeInv
<1>. SUFFICES ASSUME Init PROVE TypeInv
  OBVIOUS
<1>1. IdInv /\ SeqInv
  BY IdInit, SeqInit
<1>2. /\ file = <<>> /\ synced = 0 /\ sync \in BOOLEAN /\ seq = 0
      /\ engine = EmptyEngine /\ pc = "down" /\ cmd = NoCommand /\ next = 1
      /\ allowed = {EmptyEngine} /\ power_lost = FALSE
      /\ newest = 0 /\ clock_reused = FALSE /\ faults = 0
  BY DEF Init
<1>3. power_lost \in BOOLEAN /\ clock_reused \in BOOLEAN /\ GeneratorTypeOK
  BY <1>1, <1>2 DEF IdInv
<1>4. faults \in 0..MaxFaults /\ synced \in 0..Len(file) /\ file \in Seq(Piece)
  BY <1>2, BoundsAssumption
<1>5. engine \in EngineStates /\ allowed \subseteq EngineStates
  BY <1>2, EngineAssumption
<1>6. RecoveryTypeOK
  BY <1>2, <1>3, <1>4, <1>5 DEF RecoveryTypeOK
<1>. QED
  BY <1>1, <1>2, <1>6 DEF TypeInv, Commanded

(* Reading the file and replaying it keeps the types.                      *)
LEMMA TypeReplay ==
  ASSUME TypeInv, IdInv', SeqInv', Replay
  PROVE  TypeInv'
<1>. USE DEF TypeInv, RecoveryTypeOK, IdInv, SeqInv
<1>1. CASE SkipLine
  BY <1>1 DEF SkipLine, logVars, answerVars
<1>2. CASE StopReading
  <2>1. next' = Len(file) + 1 /\ next' \in Nat \ {0}
    BY <1>2 DEF StopReading
  <2>. QED
    BY <1>2, <2>1 DEF StopReading, logVars, answerVars
<1>3. CASE ReplayLine
  <2>1. file[next].cmd \in Commands
    BY <1>3 DEF ReplayLine, Readable, Commanded
  <2>2. engine' \in EngineStates
    BY <1>3, <2>1, EngineAssumption DEF ReplayLine
  <2>3. seq' \in Nat /\ next' \in Nat \ {0} /\ next' <= Len(file) + 1
    BY <1>3 DEF ReplayLine
  <2>. QED
    BY <1>3, <2>2, <2>3 DEF ReplayLine, answerVars
<1>4. CASE ReplayPanics
  BY <1>4, EngineAssumption DEF ReplayPanics, Die, answerVars
<1>5. CASE OpenWriter
  <2>1. allowed' \subseteq EngineStates /\ power_lost' \in BOOLEAN
    BY <1>5 DEF OpenWriter
  <2>. QED
    BY <1>5, <2>1 DEF OpenWriter, logVars
<1>. QED
  BY <1>1, <1>2, <1>3, <1>4, <1>5 DEF Replay

(* So do the steps of the serving engine.                                  *)
LEMMA TypeServe ==
  ASSUME TypeInv, IdInv', SeqInv', Serve \/ Shutdown \/ \E command \in Commands : Receive(command)
  PROVE  TypeInv'
<1>. USE DEF TypeInv, RecoveryTypeOK, IdInv, SeqInv
<1>1. CASE DrawOrderId \/ CommandPanics
  BY <1>1 DEF DrawOrderId, CommandPanics, logVars, answerVars
<1>2. CASE CancelFirst
  <2>1. engine' \in EngineStates
    BY <1>2, EngineAssumption DEF CancelFirst
  <2>. QED
    BY <1>2, <2>1 DEF CancelFirst, logVars, answerVars
<1>3. CASE ExecuteLogged
  <2>1. engine' \in EngineStates
    BY <1>3, EngineAssumption DEF ExecuteLogged
  <2>. QED
    BY <1>3, <2>1 DEF ExecuteLogged, logVars, answerVars
<1>4. CASE Answer
  BY <1>4 DEF Answer, logVars
<1>5. CASE Log
  <2>1. file' \in CutShort /\ Logging /\ file' = Append(file, NextEntry)
    BY <1>5 DEF Log, CutShort
  <2>2. file' \in Seq(Piece) /\ Commanded(file') /\ Len(file') = Len(file) + 1
    BY <2>1, WrittenHoldsCommands
  <2>3. synced' \in 0..Len(file')
    BY <1>5, <2>2 DEF Log
  <2>4. cmd \in Commands
    BY <2>1 DEF Logging
  <2>5. pc' \in {"executed", "logged"} /\ UNCHANGED <<sync, engine, cmd, next, answerVars, idVars, faults>>
    BY <1>5 DEF Log
  <2>. QED
    BY <2>2, <2>3, <2>4, <2>5 DEF Commanded, answerVars
<1>6. CASE FailFast \/ Shutdown
  BY <1>6, EngineAssumption DEF FailFast, Shutdown, Die, answerVars
<1>7. CASE \E command \in Commands : Receive(command)
  <2>1. PICK command \in Commands : Receive(command)
    BY <1>7
  <2>2. allowed' \subseteq EngineStates
    BY <2>1, EngineAssumption DEF Receive
  <2>. QED
    BY <2>1, <2>2 DEF Receive, logVars
<1>. QED
  BY <1>1, <1>2, <1>3, <1>4, <1>5, <1>6, <1>7 DEF Serve

(* So do a loss of power, a crash, a damage and a tick of the clock.       *)
LEMMA TypeFaults ==
  ASSUME TypeInv, IdInv', SeqInv', WriteFails \/ Kill \/ PowerLoss \/ Damage
  PROVE  TypeInv'
<1>. USE DEF TypeInv, RecoveryTypeOK, IdInv, SeqInv
<1>1. faults' \in 0..MaxFaults
  BY BoundsAssumption DEF WriteFails, Kill, PowerLoss, Damage, Faulty
<1>2. \A f \in (IF Logging THEN CutShort ELSE {file}) :
        f \in Seq(Piece) /\ Commanded(f) /\ synced \in 0..Len(f)
  <2>1. CASE Logging
    <3>. SUFFICES ASSUME NEW f \in CutShort PROVE f \in Seq(Piece) /\ Commanded(f) /\ synced \in 0..Len(f)
      BY <2>1
    <3>1. f \in Seq(Piece) /\ Commanded(f) /\ Len(file) <= Len(f)
      BY <2>1, WrittenHoldsCommands
    <3>. QED
      BY <3>1
  <2>2. CASE ~Logging
    BY <2>2 DEF Commanded
  <2>. QED
    BY <2>1, <2>2
<1>3. CASE WriteFails
  <2>1. file' \in CutShort /\ Logging
    BY <1>3 DEF WriteFails
  <2>2. Commanded(file') /\ synced \in 0..Len(file')
    BY <1>2, <2>1
  <2>3. pc' = "panicked" /\ UNCHANGED <<synced, sync, engine, cmd, next, answerVars, idVars>>
    BY <1>3 DEF WriteFails
  <2>. QED
    BY <1>1, <2>2, <2>3 DEF Commanded, answerVars
<1>4. CASE Kill
  <2>1. Commanded(file') /\ synced \in 0..Len(file')
    BY <1>2, <1>4 DEF Kill
  <2>. QED
    BY <1>1, <1>4, <2>1, EngineAssumption DEF Kill, Commanded, Die, answerVars
<1>5. CASE PowerLoss
  <2>1. PICK f \in (IF Logging THEN CutShort ELSE {file}) : file' \in Surviving(f)
    BY <1>5 DEF PowerLoss
  <2>2. Commanded(file') /\ file' \in Seq(Piece)
    BY <1>2, <2>1, SurvivingHoldsCommands, SurvivingShape
  <2>3. synced' \in 0..Len(file')
    BY <1>5, <2>2 DEF PowerLoss
  <2>4. power_lost' \in BOOLEAN /\ UNCHANGED <<sync, allowed>> /\ pc' = "down"
    BY <1>5 DEF PowerLoss
  <2>5. engine' = EmptyEngine /\ next' = 1 /\ cmd' = NoCommand
    BY <1>5 DEF PowerLoss, Die
  <2>. QED
    BY <1>1, <2>2, <2>3, <2>4, <2>5, EngineAssumption DEF Commanded
<1>6. CASE Damage
  <2>1. PICK n \in DOMAIN file, what \in {"rotten", "illegible"} :
          file[n].holds = "entry" /\ file' = [file EXCEPT ![n].holds = what]
    BY <1>6 DEF Damage
  <2>2. file'[n].holds # "entry" /\ \A k \in 1..Len(file) : k # n => file'[k] = file[k]
    <3>1. file[n] \in Piece
      BY <2>1
    <3>. QED
      BY <2>1, <3>1 DEF Piece
  <2>3. Len(file') = Len(file) /\ Commanded(file')
    <3>1. DOMAIN file' = DOMAIN file /\ Len(file') = Len(file)
      BY <2>1
    <3>. QED
      BY <2>1, <2>2, <3>1 DEF Commanded
  <2>. QED
    BY <1>1, <1>6, <2>3 DEF Damage, Running, Commanded, processVars, answerVars
<1>. QED
  BY <1>3, <1>4, <1>5, <1>6

(* Every step keeps the types.                                             *)
LEMMA TypeStep ==
  ASSUME TypeInv, [Next]_vars
  PROVE  TypeInv'
<1>1. IdInv' /\ SeqInv'
  BY IdStep, SeqStep DEF TypeInv
<1>. USE DEF TypeInv, RecoveryTypeOK
<1>2. CASE Start
  BY <1>1, <1>2 DEF Start, logVars, answerVars, SeqInv, IdInv
<1>3. CASE Spin \/ ClockTick \/ UNCHANGED vars
  BY <1>1, <1>3 DEF Spin, ClockTick, vars, logVars, processVars, answerVars, IdInv
<1>4. CASE ClockSetBack
  <2>1. faults' \in 0..MaxFaults
    BY <1>4, BoundsAssumption DEF ClockSetBack, Faulty
  <2>. QED
    BY <1>1, <1>4, <2>1 DEF ClockSetBack, logVars, processVars, answerVars, IdInv
<1>. QED
  BY <1>1, <1>2, <1>3, <1>4, TypeReplay, TypeServe, TypeFaults DEF Next

(* The types hold in every reachable state.                                *)
LEMMA TypeAlways == Spec => []TypeInv
BY TypeInit, TypeStep, PTL DEF Spec

(* Every variable of the engine process and of its log keeps its type;     *)
(* synced stays within the file, and the reader (WalReader) within one     *)
(* past its end.                                                           *)
THEOREM RecoveryTypeCorrect == Spec => []RecoveryTypeOK
BY TypeAlways, PTL DEF TypeInv

-----------------------------------------------------------------------------
(* What replaying computes                                                 *)

(* Replayed(f)[n] is the engine after n pieces: it is one command further  *)
(* than after n - 1 if the piece is readable.                              *)
LEMMA ReplayedSteps ==
  ASSUME NEW f \in Seq(Piece), Commanded(f)
  PROVE  /\ Replayed(f) \in [0..Len(f) -> EngineStates]
         /\ Replayed(f)[0] = EmptyEngine
         /\ \A n \in 1..Len(f) :
              Replayed(f)[n] = IF Readable(f, n) THEN Execute(Replayed(f)[n - 1], f[n].cmd)
                               ELSE Replayed(f)[n - 1]
<1>. DEFINE Step(e, n) == IF Readable(f, n) THEN Execute(e, f[n].cmd) ELSE e
            After(r, n) == IF n = 0 THEN EmptyEngine
                           ELSE IF Readable(f, n) THEN Execute(r[n - 1], f[n].cmd)
                           ELSE r[n - 1]
            Steps(r, n) == \A m \in 0..n : r[m] = After(r, m)
            Good == {n \in Nat : n <= Len(f) => \E r \in [0..n -> EngineStates] : Steps(r, n)}
<1>1. \A n \in 1..Len(f) : \A e \in EngineStates :
        (IF Readable(f, n) THEN Execute(e, f[n].cmd) ELSE e) \in EngineStates
  BY EngineAssumption DEF Readable, Commanded
<1>2. 0 \in Good
  <2>. DEFINE start == [m \in 0..0 |-> EmptyEngine]
  <2>1. start \in [0..0 -> EngineStates]
    BY EngineAssumption
  <2>2. Steps(start, 0)
    OBVIOUS
  <2>. QED
    BY <2>1, <2>2
<1>3. ASSUME NEW n \in Nat, n \in Good
      PROVE  n + 1 \in Good
  <2>1. SUFFICES ASSUME n + 1 <= Len(f)
                 PROVE  \E r \in [0..(n + 1) -> EngineStates] : Steps(r, n + 1)
    OBVIOUS
  <2>2. PICK r \in [0..n -> EngineStates] : Steps(r, n)
    <3>. HIDE DEF Steps
    <3>. QED
      BY <1>3, <2>1
  <2>. DEFINE more == [m \in 0..(n + 1) |-> IF m = n + 1 THEN After(r, m) ELSE r[m]]
  <2>3. After(r, n + 1) \in EngineStates
    <3>1. n + 1 \in 1..Len(f) /\ r[n] \in EngineStates /\ (n + 1) - 1 = n /\ n + 1 # 0
      BY <2>1
    <3>. QED
      BY <1>1, <3>1
  <2>4. more \in [0..(n + 1) -> EngineStates]
    <3>. HIDE DEF After
    <3>. QED
      BY <2>3
  <2>5. ASSUME NEW m \in 0..(n + 1)
        PROVE  more[m] = After(more, m)
    <3>1. CASE m = 0
      BY <2>2, <3>1
    <3>2. CASE m = n + 1
      <4>1. more[m] = After(r, m)
        BY <3>2
      <4>2. more[m - 1] = r[m - 1]
        BY <3>2
      <4>. QED
        BY <3>2, <4>1, <4>2
    <3>3. CASE m # 0 /\ m # n + 1
      <4>1. m \in 0..n /\ more[m] = r[m] /\ more[m - 1] = r[m - 1]
        BY <3>3
      <4>2. r[m] = After(r, m)
        BY <2>2, <4>1
      <4>. QED
        BY <3>3, <4>1, <4>2
    <3>. QED
      BY <3>1, <3>2, <3>3
  <2>6. Steps(more, n + 1)
    BY <2>5
  <2>. QED
    BY <2>4, <2>6
<1>. HIDE DEF Good
<1>4. Nat \subseteq Good
  BY <1>2, <1>3, NaturalsClosed
<1>5. Len(f) \in Nat
  OBVIOUS
<1>6. PICK some \in [0..Len(f) -> EngineStates] : Steps(some, Len(f))
  <2>. HIDE DEF Steps
  <2>. QED
    BY <1>4, <1>5 DEF Good
<1>. DEFINE Full(r) == r = [m \in 0..Len(f) |-> After(r, m)]
            all == CHOOSE r : Full(r)
<1>7. Full(some)
  BY <1>6
<1>8. Full(all)
  BY <1>7
<1>9. Replayed(f) = all
  BY DEF Replayed
<1>. HIDE DEF all
<1>10. all[0] = EmptyEngine
  BY <1>5, <1>8
<1>11. ASSUME NEW n \in 1..Len(f)
       PROVE  all[n] = IF Readable(f, n) THEN Execute(all[n - 1], f[n].cmd) ELSE all[n - 1]
  <2>1. n \in 0..Len(f) /\ n # 0
    BY <1>5
  <2>2. all[n] = After(all, n)
    BY <1>8, <2>1
  <2>. QED
    BY <2>1, <2>2
<1>12. \A n \in 0..Len(f) : all[n] \in EngineStates
  <2>. DEFINE Fine == {n \in Nat : n <= Len(f) => all[n] \in EngineStates}
  <2>1. 0 \in Fine
    BY <1>10, EngineAssumption
  <2>2. ASSUME NEW n \in Nat, n \in Fine
        PROVE  n + 1 \in Fine
    <3>1. SUFFICES ASSUME n + 1 <= Len(f) PROVE all[n + 1] \in EngineStates
      OBVIOUS
    <3>2. n + 1 \in 1..Len(f) /\ all[n] \in EngineStates /\ (n + 1) - 1 = n
      BY <2>2, <3>1
    <3>. QED
      BY <1>1, <1>11, <3>2
  <2>3. Nat \subseteq Fine
    <3>. HIDE DEF Fine
    <3>. QED
      BY <2>1, <2>2, NaturalsClosed
  <2>. QED
    BY <2>3
<1>13. all \in [0..Len(f) -> EngineStates]
  <2>1. all = [m \in 0..Len(f) |-> all[m]]
    BY <1>8
  <2>. QED
    BY <1>12, <2>1
<1>. QED
  BY <1>9, <1>10, <1>11, <1>13

(* Two files of which the same pieces are readable up to k, with the same  *)
(* commands, are replayed to the same engine up to there.                  *)
LEMMA ReplayedAlike ==
  ASSUME NEW f \in Seq(Piece), Commanded(f), NEW g \in Seq(Piece), Commanded(g),
         NEW k \in Nat, k <= Len(f), k <= Len(g),
         \A n \in 1..k : /\ Readable(f, n) <=> Readable(g, n)
                         /\ Readable(f, n) => f[n].cmd = g[n].cmd
  PROVE  \A n \in 0..k : Replayed(f)[n] = Replayed(g)[n]
<1>. DEFINE Good == {n \in Nat : n <= k => Replayed(f)[n] = Replayed(g)[n]}
<1>1. 0 \in Good
  BY ReplayedSteps
<1>2. ASSUME NEW n \in Nat, n \in Good
      PROVE  n + 1 \in Good
  <2>1. SUFFICES ASSUME n + 1 <= k PROVE Replayed(f)[n + 1] = Replayed(g)[n + 1]
    OBVIOUS
  <2>2. /\ n + 1 \in 1..k /\ n + 1 \in 1..Len(f) /\ n + 1 \in 1..Len(g) /\ (n + 1) - 1 = n
        /\ Replayed(f)[n] = Replayed(g)[n]
    BY <1>2, <2>1
  <2>3. Replayed(f)[n + 1] = IF Readable(f, n + 1) THEN Execute(Replayed(f)[n], f[n + 1].cmd) ELSE Replayed(f)[n]
    BY <2>2, ReplayedSteps
  <2>4. Replayed(g)[n + 1] = IF Readable(g, n + 1) THEN Execute(Replayed(g)[n], g[n + 1].cmd) ELSE Replayed(g)[n]
    BY <2>2, ReplayedSteps
  <2>. QED
    BY <2>2, <2>3, <2>4
<1>3. Nat \subseteq Good
  <2>. HIDE DEF Good
  <2>. QED
    BY <1>1, <1>2, NaturalsClosed
<1>. QED
  BY <1>3

(* Nothing in a row that is not readable changes the engine.               *)
LEMMA ReplayedIdle ==
  ASSUME NEW f \in Seq(Piece), Commanded(f), NEW k \in 0..Len(f),
         \A n \in (k + 1)..Len(f) : ~Readable(f, n)
  PROVE  Recovered(f) = Replayed(f)[k]
<1>. DEFINE Good == {n \in Nat : n + k <= Len(f) => Replayed(f)[n + k] = Replayed(f)[k]}
<1>1. 0 \in Good
  OBVIOUS
<1>2. ASSUME NEW n \in Nat, n \in Good
      PROVE  n + 1 \in Good
  <2>1. SUFFICES ASSUME (n + 1) + k <= Len(f) PROVE Replayed(f)[(n + 1) + k] = Replayed(f)[k]
    OBVIOUS
  <2>2. /\ (n + 1) + k \in 1..Len(f) /\ (n + 1) + k \in (k + 1)..Len(f) /\ ((n + 1) + k) - 1 = n + k
        /\ Replayed(f)[n + k] = Replayed(f)[k]
    BY <1>2, <2>1
  <2>. QED
    BY <2>2, ReplayedSteps
<1>3. Nat \subseteq Good
  <2>. HIDE DEF Good
  <2>. QED
    BY <1>1, <1>2, NaturalsClosed
<1>4. Len(f) - k \in Nat /\ (Len(f) - k) + k = Len(f)
  OBVIOUS
<1>5. Len(f) - k \in Good
  BY <1>3, <1>4
<1>. QED
  BY <1>4, <1>5 DEF Recovered

(* A piece that is written behind a file can hide its last piece, and no   *)
(* other.                                                                  *)
LEMMA AppendReadable ==
  ASSUME NEW f \in Seq(Piece), NEW p \in Piece
  PROVE  /\ Append(f, p) \in Seq(Piece) /\ Len(Append(f, p)) = Len(f) + 1
         /\ Append(f, p)[Len(f) + 1] = p
         /\ \A n \in 1..Len(f) :
              /\ Append(f, p)[n] = f[n]
              /\ Readable(Append(f, p), n) <=> Readable(f, n) /\ (n = Len(f) => f[n].ended)
         /\ Readable(Append(f, p), Len(f) + 1) /\ Len(f) > 0 => f[Len(f)].ended
<1>. DEFINE g == Append(f, p)
<1>1. g \in Seq(Piece) /\ Len(g) = Len(f) + 1 /\ g[Len(f) + 1] = p /\ \A n \in 1..Len(f) : g[n] = f[n]
  OBVIOUS
<1>. HIDE DEF g
<1>2. ASSUME NEW n \in 1..Len(f)
      PROVE  Readable(g, n) <=> Readable(f, n) /\ (n = Len(f) => f[n].ended)
  <2>1. g[n] = f[n] /\ (n > 1 => g[n - 1] = f[n - 1]) /\ \A m \in 1..(n - 1) : g[m] = f[m]
    BY <1>1
  <2>2. AloneOnLine(g, n) <=> AloneOnLine(f, n) /\ (n = Len(f) => f[n].ended)
    <3>1. n < Len(g) /\ (n < Len(f) \/ n = Len(f))
      BY <1>1
    <3>. QED
      BY <2>1, <3>1 DEF AloneOnLine
  <2>. QED
    BY <2>1, <2>2 DEF Readable
<1>3. Readable(g, Len(f) + 1) /\ Len(f) > 0 => f[Len(f)].ended
  <2>1. (Len(f) + 1) - 1 = Len(f) /\ (Len(f) > 0 => Len(f) + 1 > 1 /\ g[Len(f)] = f[Len(f)])
    BY <1>1
  <2>. QED
    BY <2>1 DEF Readable, AloneOnLine
<1>. QED
  BY <1>1, <1>2, <1>3 DEF g

(* Up to the last piece but one the engine is as before, and to the last   *)
(* one, if that ends its line.                                             *)
LEMMA AppendReplayed ==
  ASSUME NEW f \in Seq(Piece), Commanded(f), NEW p \in Piece, Commanded(Append(f, p))
  PROVE  /\ \A n \in 0..Len(f) : n < Len(f) => Replayed(Append(f, p))[n] = Replayed(f)[n]
         /\ (Len(f) > 0 => f[Len(f)].ended) \/ (Len(f) > 0 /\ f[Len(f)].holds # "entry") =>
              \A n \in 0..Len(f) : Replayed(Append(f, p))[n] = Replayed(f)[n]
<1>1. Append(f, p) \in Seq(Piece) /\ Len(f) \in Nat /\ Len(Append(f, p)) = Len(f) + 1
  BY AppendReadable
<1>2. ASSUME NEW n \in 0..Len(f), n < Len(f)
      PROVE  Replayed(Append(f, p))[n] = Replayed(f)[n]
  <2>1. n \in Nat /\ n <= Len(f) /\ n <= Len(Append(f, p))
    BY <1>1, <1>2
  <2>2. \A m \in 1..n : m \in 1..Len(f) /\ m # Len(f)
    BY <1>2
  <2>3. \A m \in 1..n : /\ Readable(f, m) <=> Readable(Append(f, p), m)
                        /\ Readable(f, m) => f[m].cmd = Append(f, p)[m].cmd
    BY <2>2, AppendReadable
  <2>4. n \in 0..n
    BY <2>1
  <2>. QED
    BY <1>1, <2>1, <2>3, <2>4, ReplayedAlike
<1>3. ASSUME (Len(f) > 0 => f[Len(f)].ended) \/ (Len(f) > 0 /\ f[Len(f)].holds # "entry"), NEW n \in 0..Len(f)
      PROVE  Replayed(Append(f, p))[n] = Replayed(f)[n]
  <2>1. \A m \in 1..Len(f) : Readable(f, m) <=> Readable(Append(f, p), m)
    <3>. SUFFICES ASSUME NEW m \in 1..Len(f) PROVE Readable(f, m) <=> Readable(Append(f, p), m)
      OBVIOUS
    <3>1. m = Len(f) => Len(f) > 0 /\ (f[m].ended \/ f[m].holds # "entry")
      BY <1>3
    <3>2. m = Len(f) => f[m].ended \/ ~Readable(f, m)
      BY <3>1 DEF Readable
    <3>. QED
      BY <3>2, AppendReadable
  <2>2. \A m \in 1..Len(f) : f[m].cmd = Append(f, p)[m].cmd
    BY AppendReadable
  <2>3. Len(f) <= Len(f) /\ Len(f) <= Len(Append(f, p))
    BY <1>1
  <2>. QED
    BY <1>1, <1>3, <2>1, <2>2, <2>3, ReplayedAlike
<1>. QED
  BY <1>2, <1>3

(* What the end of the line is to the piece that is written now.           *)
LEMMA AppendRecovered ==
  ASSUME NEW f \in Seq(Piece), Commanded(f), NEW p \in Piece, Commanded(Append(f, p)),
         NothingHidden(Append(f, p))
  PROVE  /\ NothingHidden(f)
         /\ Replayed(Append(f, p))[Len(f)] = Recovered(f)
         /\ Recovered(Append(f, p)) = IF p.holds = "entry" THEN Execute(Recovered(f), p.cmd)
                                      ELSE Recovered(f)
<1>1. Append(f, p) \in Seq(Piece) /\ Len(f) \in Nat /\ Len(Append(f, p)) = Len(f) + 1
  BY AppendReadable
<1>2. \A n \in 1..Len(f) : f[n].holds = "entry" => Readable(f, n) /\ (n = Len(f) => f[n].ended)
  <2>. SUFFICES ASSUME NEW n \in 1..Len(f), f[n].holds = "entry"
                PROVE  Readable(f, n) /\ (n = Len(f) => f[n].ended)
    OBVIOUS
  <2>1. n \in DOMAIN Append(f, p) /\ Append(f, p)[n] = f[n]
    <3>1. n \in 1..Len(Append(f, p))
      BY <1>1
    <3>. QED
      BY <1>1, <3>1, AppendReadable
  <2>2. Readable(Append(f, p), n)
    BY <2>1 DEF NothingHidden
  <2>. QED
    BY <2>2, AppendReadable
<1>3. NothingHidden(f)
  BY <1>2 DEF NothingHidden
<1>4. (Len(f) > 0 => f[Len(f)].ended) \/ (Len(f) > 0 /\ f[Len(f)].holds # "entry")
  BY <1>2
<1>5. Len(f) \in 0..Len(f)
  BY <1>1
<1>6. Replayed(Append(f, p))[Len(f)] = Recovered(f)
  BY <1>4, <1>5, AppendReplayed DEF Recovered
<1>7. Len(f) + 1 \in 1..Len(Append(f, p)) /\ (Len(f) + 1) - 1 = Len(f) /\ Append(f, p)[Len(f) + 1] = p
  BY <1>1, AppendReadable
<1>8. Readable(Append(f, p), Len(f) + 1) <=> p.holds = "entry"
  <2>1. Len(f) + 1 \in DOMAIN Append(f, p)
    BY <1>1, <1>7
  <2>. QED
    BY <1>7, <2>1 DEF NothingHidden, Readable
<1>9. Replayed(Append(f, p))[Len(f) + 1] =
        IF Readable(Append(f, p), Len(f) + 1)
          THEN Execute(Replayed(Append(f, p))[Len(f)], Append(f, p)[Len(f) + 1].cmd)
          ELSE Replayed(Append(f, p))[Len(f)]
  BY <1>1, <1>7, ReplayedSteps
<1>. QED
  BY <1>1, <1>3, <1>6, <1>7, <1>8, <1>9 DEF Recovered

-----------------------------------------------------------------------------
(* The log explains the engine                                             *)

(* While replaying, the engine is that of the pieces read so far; within a *)
(* command that is logged, that of the pieces before its own.              *)
ExplainInv ==
  /\ pc \in {"down", "stopped"} => engine = EmptyEngine
  /\ pc = "replaying" => engine = Replayed(file)[next - 1]
  /\ pc = "logged" => Len(file) > 0 /\ file[Len(file)] = Entry(seq, cmd)
  /\ pc = "logged" /\ NothingHidden(file) => engine = Replayed(file)[Len(file) - 1]
  /\ LogExplainsEngine

(* A process that is down explains nothing.                                *)
LEMMA DeadExplains ==
  ASSUME Die, pc' \in {"down", "stopped"}
  PROVE  ExplainInv'
BY DEF Die, ExplainInv, LogExplainsEngine

(* The replay builds the engine of the pieces it has read.                 *)
LEMMA ExplainReplay ==
  ASSUME TypeInv, ExplainInv, Replay
  PROVE  ExplainInv'
<1>1. /\ file \in Seq(Piece) /\ Commanded(file) /\ next \in Nat \ {0}
      /\ pc = "replaying" => next <= Len(file) + 1 /\ engine = Replayed(file)[next - 1]
  BY DEF TypeInv, RecoveryTypeOK, ExplainInv
<1>2. CASE SkipLine
  <2>1. /\ pc = "replaying" /\ next \in 1..Len(file) /\ ~Readable(file, next)
        /\ next' = next + 1 /\ file' = file /\ engine' = engine /\ pc' = pc
    BY <1>1, <1>2 DEF SkipLine, logVars
  <2>2. Replayed(file)[next] = engine /\ next' - 1 = next
    BY <1>1, <2>1, ReplayedSteps
  <2>. QED
    BY <2>1, <2>2 DEF ExplainInv, LogExplainsEngine
<1>3. CASE StopReading
  <2>1. /\ pc = "replaying" /\ next \in 1..Len(file) /\ file[next].holds = "illegible"
        /\ next' = Len(file) + 1 /\ file' = file /\ engine' = engine /\ pc' = pc
    BY <1>1, <1>3 DEF StopReading, logVars
  <2>2. \A n \in ((next - 1) + 1)..Len(file) : ~Readable(file, n)
    BY <1>1, <2>1 DEF Readable
  <2>3. next - 1 \in 0..Len(file)
    BY <1>1, <2>1
  <2>4. Recovered(file) = Replayed(file)[next - 1]
    BY <1>1, <2>2, <2>3, ReplayedIdle
  <2>5. next' - 1 = Len(file)
    BY <1>1, <2>1
  <2>. QED
    BY <1>1, <2>1, <2>4, <2>5 DEF ExplainInv, LogExplainsEngine, Recovered
<1>4. CASE ReplayLine
  <2>1. /\ pc = "replaying" /\ next \in 1..Len(file) /\ Readable(file, next)
        /\ next' = next + 1 /\ file' = file /\ engine' = Execute(engine, file[next].cmd) /\ pc' = pc
    BY <1>1, <1>4 DEF ReplayLine
  <2>2. Replayed(file)[next] = engine' /\ next' - 1 = next
    BY <1>1, <2>1, ReplayedSteps
  <2>. QED
    BY <2>1, <2>2 DEF ExplainInv, LogExplainsEngine
<1>5. CASE ReplayPanics
  BY <1>5, DeadExplains DEF ReplayPanics
<1>6. CASE OpenWriter
  <2>1. /\ pc = "replaying" /\ next = Len(file) + 1 /\ pc' = "idle" /\ file' = file /\ engine' = engine
    BY <1>1, <1>6 DEF OpenWriter, logVars
  <2>2. engine = Recovered(file)
    BY <1>1, <2>1 DEF Recovered
  <2>. QED
    BY <2>1, <2>2 DEF ExplainInv, LogExplainsEngine
<1>. QED
  BY <1>2, <1>3, <1>4, <1>5, <1>6 DEF Replay

(* The engine before a command is logged.                                  *)
LEMMA BeforeLog ==
  ASSUME TypeInv, ExplainInv, Logging, NothingHidden(file)
  PROVE  engine = IF cmd \in Cancels THEN Execute(Recovered(file), cmd) ELSE Recovered(file)
BY CommandsAssumption DEF TypeInv, ExplainInv, LogExplainsEngine, Logging

(* The serving engine stays the one the file explains.                     *)
LEMMA ExplainServe ==
  ASSUME TypeInv, ExplainInv, Serve \/ Shutdown \/ \E command \in Commands : Receive(command)
  PROVE  ExplainInv'
<1>. USE DEF ExplainInv, LogExplainsEngine
<1>1. CASE DrawOrderId \/ CommandPanics \/ Answer
  BY <1>1 DEF DrawOrderId, CommandPanics, Answer, logVars
<1>2. CASE CancelFirst
  BY <1>2 DEF CancelFirst, logVars
<1>3. CASE ExecuteLogged
  BY <1>3 DEF ExecuteLogged, logVars
<1>4. CASE Log
  <2>1. /\ Logging /\ file' = Append(file, NextEntry) /\ seq' = seq + 1 /\ engine' = engine /\ cmd' = cmd
        /\ pc' = IF cmd \in Cancels THEN "executed" ELSE "logged"
    BY <1>4 DEF Log
  <2>2. file \in Seq(Piece) /\ Commanded(file) /\ cmd \in Commands /\ seq \in Nat
    BY <2>1 DEF TypeInv, RecoveryTypeOK, Logging
  <2>3. NextEntry \in Piece /\ NextEntry.holds = "entry" /\ NextEntry.cmd = cmd /\ NextEntry = Entry(seq', cmd')
    <3>1. NextEntry \in Piece
      BY <2>2, NextIsPiece
    <3>. QED
      BY <2>1, <3>1 DEF NextEntry, Entry
  <2>4. Commanded(Append(file, NextEntry))
    BY <2>1, WrittenHoldsCommands DEF CutShort
  <2>5. Len(file') = Len(file) + 1 /\ file'[Len(file')] = NextEntry /\ Len(file') - 1 = Len(file) /\ Len(file') > 0
    BY <2>1, <2>2
  <2>6. CASE ~NothingHidden(file')
    BY <2>1, <2>3, <2>5, <2>6
  <2>7. CASE NothingHidden(file')
    <3>1. NothingHidden(Append(file, NextEntry))
      BY <2>1, <2>7
    <3>2. /\ NothingHidden(file)
          /\ Replayed(Append(file, NextEntry))[Len(file)] = Recovered(file)
          /\ Recovered(Append(file, NextEntry)) = IF NextEntry.holds = "entry" THEN Execute(Recovered(file), NextEntry.cmd)
                                                  ELSE Recovered(file)
      BY <2>2, <2>3, <2>4, <3>1, AppendRecovered
    <3>3. Replayed(file')[Len(file') - 1] = Recovered(file) /\ Recovered(file') = Execute(Recovered(file), cmd)
      BY <2>1, <2>3, <2>5, <3>2
    <3>4. engine = IF cmd \in Cancels THEN Execute(Recovered(file), cmd) ELSE Recovered(file)
      BY <2>1, <3>2, BeforeLog
    <3>. QED
      BY <2>1, <2>3, <2>5, <3>3, <3>4
  <2>. QED
    BY <2>6, <2>7
<1>5. CASE FailFast \/ Shutdown
  BY <1>5, DeadExplains DEF FailFast, Shutdown
<1>6. CASE \E command \in Commands : Receive(command)
  BY <1>6 DEF Receive, logVars
<1>. QED
  BY <1>1, <1>2, <1>3, <1>4, <1>5, <1>6 DEF Serve

(* Every step keeps the engine explained.                                  *)
LEMMA ExplainStep ==
  ASSUME TypeInv, ExplainInv, [Next]_vars
  PROVE  ExplainInv'
<1>1. CASE Start
  <2>1. /\ pc' = "replaying" /\ file' = file /\ engine' = engine /\ next' = next /\ engine = EmptyEngine /\ next = 1
    BY <1>1 DEF Start, logVars, ExplainInv, TypeInv, SeqInv
  <2>2. Replayed(file)[0] = EmptyEngine
    BY ReplayedSteps DEF TypeInv, RecoveryTypeOK
  <2>. QED
    BY <2>1, <2>2 DEF ExplainInv, LogExplainsEngine
<1>2. CASE WriteFails
  BY <1>2 DEF WriteFails, ExplainInv, LogExplainsEngine
<1>3. CASE Kill \/ PowerLoss
  BY <1>3, DeadExplains DEF Kill, PowerLoss
<1>4. CASE Damage
  BY <1>4 DEF Damage, Running, processVars, ExplainInv, LogExplainsEngine
<1>5. CASE Spin \/ ClockTick \/ ClockSetBack \/ UNCHANGED vars
  BY <1>5 DEF Spin, ClockTick, ClockSetBack, vars, logVars, processVars, ExplainInv, LogExplainsEngine
<1>. QED
  BY <1>1, <1>2, <1>3, <1>4, <1>5, ExplainReplay, ExplainServe DEF Next

(* The engine is explained in every reachable state.                       *)
LEMMA ExplainAlways == Spec => [](TypeInv /\ ExplainInv)
<1>1. Init => ExplainInv
  BY DEF Init, ExplainInv, LogExplainsEngine
<1>. QED
  BY <1>1, TypeInit, TypeStep, ExplainStep, PTL DEF Spec

(* Between two commands the engine is the one a restart would replay from  *)
(* the log, and within one it differs by that command (WalEngine), as long *)
(* as no entry is hidden by a line that was cut short.                     *)
THEOREM LogAlwaysExplains == Spec => []LogExplainsEngine
BY ExplainAlways, PTL DEF ExplainInv

-----------------------------------------------------------------------------
(* Poison                                                                  *)

(* The pieces before k are entries on lines of their own, or parts.        *)
Clean(f, k) ==
  \A m \in 1..(k - 1) :
    /\ f[m].holds \in {"entry", "part"}
    /\ f[m].holds = "entry" => f[m].ended /\ (m > 1 => f[m - 1].ended)

UnpoisonedBefore(f, k) == Clean(f, k) => \A n \in 1..(k - 1) : ~Poisonous(f, n)

(* What has another piece behind it does not panic.  It speaks of all      *)
(* beginnings of the file, for what made a file unclean may be cut off     *)
(* again; and of the last piece, once the process has got over it.         *)
PoisonInv ==
  /\ \A k \in 1..Len(file) : UnpoisonedBefore(file, k)
  /\ pc = "replaying" => \A n \in 1..(next - 1) : ~Poisonous(file, n)
  /\ pc \in {"idle", "received", "drawn", "cancelled", "executed"} =>
       UnpoisonedBefore(file, Len(file) + 1)

(* Two files that have a clean beginning in common.                        *)
LEMMA SameBeginning ==
  ASSUME NEW f \in Seq(Piece), Commanded(f), NEW g \in Seq(Piece), Commanded(g),
         NEW k \in 1..Len(f), k <= Len(g), UnpoisonedBefore(f, k),
         \A m \in 1..(k - 1) : g[m] = f[m] \/ g[m].holds \notin {"entry", "part"}
  PROVE  UnpoisonedBefore(g, k)
<1>. SUFFICES ASSUME Clean(g, k), NEW n \in 1..(k - 1) PROVE ~Poisonous(g, n)
  BY DEF UnpoisonedBefore
<1>1. \A m \in 1..(k - 1) : g[m] = f[m]
  BY DEF Clean
<1>2. \A m \in 1..(k - 1) : m > 1 => m - 1 \in 1..(k - 1)
  OBVIOUS
<1>3. Clean(f, k)
  BY <1>1, <1>2 DEF Clean
<1>4. \A m \in 1..(k - 1) : Readable(f, m) <=> Readable(g, m)
  <2>. SUFFICES ASSUME NEW m \in 1..(k - 1) PROVE Readable(f, m) <=> Readable(g, m)
    OBVIOUS
  <2>1. m < Len(f) /\ m < Len(g) /\ g[m] = f[m] /\ (m > 1 => g[m - 1] = f[m - 1])
    BY <1>1, <1>2
  <2>2. \A i \in 1..(m - 1) : i \in 1..(k - 1)
    OBVIOUS
  <2>3. \A i \in 1..(m - 1) : g[i] = f[i]
    BY <1>1, <2>2
  <2>. QED
    BY <2>1, <2>3 DEF Readable, AloneOnLine
<1>5. Replayed(f)[n - 1] = Replayed(g)[n - 1]
  <2>1. k - 1 \in Nat /\ k - 1 <= Len(f) /\ k - 1 <= Len(g) /\ n - 1 \in 0..(k - 1)
    OBVIOUS
  <2>2. \A m \in 1..(k - 1) : /\ Readable(f, m) <=> Readable(g, m)
                              /\ Readable(f, m) => f[m].cmd = g[m].cmd
    BY <1>1, <1>4
  <2>. QED
    BY <2>1, <2>2, ReplayedAlike
<1>6. ~Poisonous(f, n)
  BY <1>3 DEF UnpoisonedBefore
<1>. QED
  BY <1>1, <1>4, <1>5, <1>6 DEF Poisonous

(* A piece behind a file.                                                  *)
LEMMA AppendUnpoisoned ==
  ASSUME NEW f \in Seq(Piece), Commanded(f), NEW p \in Piece, Commanded(Append(f, p)),
         \A k \in 1..Len(f) : UnpoisonedBefore(f, k),
         UnpoisonedBefore(f, Len(f) + 1)
  PROVE  \A k \in 1..(Len(f) + 1) : UnpoisonedBefore(Append(f, p), k)
<1>1. /\ Append(f, p) \in Seq(Piece) /\ Len(Append(f, p)) = Len(f) + 1 /\ Len(f) \in Nat
      /\ \A n \in 1..Len(f) : Append(f, p)[n] = f[n]
  BY AppendReadable
<1>2. ASSUME NEW k \in 1..Len(f)
      PROVE  UnpoisonedBefore(Append(f, p), k)
  <2>1. k <= Len(Append(f, p))
    BY <1>1
  <2>2. \A m \in 1..(k - 1) : m \in 1..Len(f)
    OBVIOUS
  <2>3. \A m \in 1..(k - 1) : Append(f, p)[m] = f[m]
    BY <1>1, <2>2
  <2>. QED
    BY <1>1, <2>1, <2>3, SameBeginning
<1>3. UnpoisonedBefore(Append(f, p), Len(f) + 1)
  <2>. SUFFICES ASSUME Clean(Append(f, p), Len(f) + 1), NEW n \in 1..Len(f)
                PROVE  ~Poisonous(Append(f, p), n)
    BY <1>1 DEF UnpoisonedBefore
  <2>1. Clean(f, Len(f) + 1)
    <3>1. (Len(f) + 1) - 1 = Len(f) /\ \A m \in 1..Len(f) : m > 1 => m - 1 \in 1..Len(f)
      BY <1>1
    <3>. QED
      BY <1>1, <3>1 DEF Clean
  <2>2. ~Poisonous(f, n)
    BY <1>1, <2>1 DEF UnpoisonedBefore
  <2>3. Readable(Append(f, p), n) => Readable(f, n)
    BY AppendReadable
  <2>4. n - 1 \in 0..Len(f) /\ n - 1 < Len(f)
    BY <1>1
  <2>5. Replayed(Append(f, p))[n - 1] = Replayed(f)[n - 1]
    BY <2>4, AppendReplayed
  <2>. QED
    BY <1>1, <2>2, <2>3, <2>5 DEF Poisonous
<1>. QED
  BY <1>1, <1>2, <1>3

(* What a write leaves in the file.                                        *)
LEMMA WrittenUnpoisoned ==
  ASSUME TypeInv, PoisonInv, Logging, NEW f \in CutShort
  PROVE  \A k \in 1..Len(f) : UnpoisonedBefore(f, k)
<1>1. /\ file \in Seq(Piece) /\ Commanded(file) /\ cmd \in Commands /\ seq \in Nat
      /\ \A k \in 1..Len(file) : UnpoisonedBefore(file, k)
      /\ UnpoisonedBefore(file, Len(file) + 1)
  BY DEF TypeInv, RecoveryTypeOK, PoisonInv, Logging
<1>2. f = file \/ \E p \in Piece : f = Append(file, p)
  <2>1. Part \in Piece
    BY DEF Part, Piece
  <2>2. Unended(seq + 1, cmd) \in Piece /\ NextEntry \in Piece
    BY <1>1, EntryIsPiece DEF NextEntry
  <2>. QED
    BY <2>1, <2>2 DEF CutShort
<1>3. CASE f = file
  BY <1>1, <1>3
<1>4. CASE \E p \in Piece : f = Append(file, p)
  <2>1. PICK p \in Piece : f = Append(file, p)
    BY <1>4
  <2>2. Commanded(Append(file, p)) /\ Len(f) = Len(file) + 1
    BY <1>1, <2>1, WrittenHoldsCommands
  <2>3. \A k \in 1..(Len(file) + 1) : UnpoisonedBefore(Append(file, p), k)
    BY <1>1, <2>2, AppendUnpoisoned
  <2>. QED
    BY <2>1, <2>2, <2>3
<1>. QED
  BY <1>2, <1>3, <1>4

(* What a loss of power leaves of it.                                      *)
LEMMA SurvivingUnpoisoned ==
  ASSUME NEW f \in Seq(Piece), Commanded(f), NEW g \in Surviving(f), synced \in 0..Len(f),
         \A k \in 1..Len(f) : UnpoisonedBefore(f, k)
  PROVE  \A k \in 1..Len(g) : UnpoisonedBefore(g, k)
<1>. SUFFICES ASSUME NEW k \in 1..Len(g) PROVE UnpoisonedBefore(g, k)
  OBVIOUS
<1>1. g \in Seq(Piece) /\ Commanded(g) /\ Len(g) \in Nat /\ Len(g) <= Len(f)
  BY SurvivingShape, SurvivingHoldsCommands
<1>2. k \in 1..Len(f) /\ k <= Len(g)
  BY <1>1
<1>3. \A m \in 1..(k - 1) : m \in 1..Len(g) /\ m < Len(g)
  BY <1>1
<1>4. \A m \in 1..(k - 1) : g[m] = f[m]
  BY <1>3, SurvivingShape
<1>. QED
  BY <1>1, <1>2, <1>4, SameBeginning

(* A clean file hides nothing.                                             *)
LEMMA CleanHidesNothing ==
  ASSUME NEW f \in Seq(Piece), Clean(f, Len(f) + 1)
  PROVE  NothingHidden(f)
<1>1. Len(f) \in Nat /\ (Len(f) + 1) - 1 = Len(f)
  OBVIOUS
<1>2. \A m \in 1..Len(f) :
        /\ f[m].holds \in {"entry", "part"}
        /\ f[m].holds = "entry" => f[m].ended /\ (m > 1 => f[m - 1].ended)
  BY <1>1 DEF Clean
<1>3. \A n \in 1..Len(f) : \A m \in 1..(n - 1) : m \in 1..Len(f)
  BY <1>1
<1>. QED
  BY <1>1, <1>2, <1>3 DEF NothingHidden, Readable, AloneOnLine

(* While no process serves, only the file can be poisoned.                 *)
LEMMA DeadUnpoisoned ==
  ASSUME \A k \in 1..Len(file') : UnpoisonedBefore(file', k), pc' \in {"down", "stopped", "panicked"}
  PROVE  PoisonInv'
BY DEF PoisonInv, UnpoisonedBefore, Clean, Poisonous, Replayed

(* The replay stops at the entry it panics on.                             *)
LEMMA PoisonReplay ==
  ASSUME TypeInv, ExplainInv, PoisonInv, Replay
  PROVE  PoisonInv'
<1>1. /\ file \in Seq(Piece) /\ Commanded(file) /\ next \in Nat \ {0}
      /\ pc = "replaying" => next <= Len(file) + 1 /\ engine = Replayed(file)[next - 1]
  BY DEF TypeInv, RecoveryTypeOK, ExplainInv
<1>2. CASE SkipLine
  <2>1. ~Poisonous(file, next) /\ next \in 1..Len(file) /\ pc = "replaying"
    BY <1>1, <1>2 DEF SkipLine, Poisonous
  <2>2. \A n \in 1..((next + 1) - 1) : n = next \/ n \in 1..(next - 1)
    BY <1>1
  <2>3. \A n \in 1..((next + 1) - 1) : ~Poisonous(file, n)
    BY <2>1, <2>2 DEF PoisonInv
  <2>. QED
    BY <1>2, <2>1, <2>3 DEF SkipLine, logVars, PoisonInv
<1>3. CASE StopReading
  <2>1. pc = "replaying" /\ next \in 1..Len(file) /\ file[next].holds = "illegible"
    BY <1>1, <1>3 DEF StopReading
  <2>2. \A n \in 1..Len(file) : n \in 1..(next - 1) \/ ~Readable(file, n)
    BY <1>1, <2>1 DEF Readable
  <2>3. \A n \in 1..((Len(file) + 1) - 1) : n \in 1..Len(file)
    BY <1>1
  <2>4. \A n \in 1..((Len(file) + 1) - 1) : ~Poisonous(file, n)
    BY <2>1, <2>2, <2>3 DEF PoisonInv, Poisonous
  <2>. QED
    BY <1>3, <2>1, <2>4 DEF StopReading, logVars, PoisonInv
<1>4. CASE ReplayLine
  <2>1. ~Poisonous(file, next) /\ next \in 1..Len(file) /\ pc = "replaying"
    BY <1>1, <1>4 DEF ReplayLine, Poisonous
  <2>2. \A n \in 1..((next + 1) - 1) : n = next \/ n \in 1..(next - 1)
    BY <1>1
  <2>3. \A n \in 1..((next + 1) - 1) : ~Poisonous(file, n)
    BY <2>1, <2>2 DEF PoisonInv
  <2>. QED
    BY <1>4, <2>1, <2>3 DEF ReplayLine, PoisonInv
<1>5. CASE ReplayPanics
  BY <1>5, DeadUnpoisoned DEF ReplayPanics, PoisonInv
<1>6. CASE OpenWriter
  <2>1. pc = "replaying" /\ next = Len(file) + 1
    BY <1>1, <1>6 DEF OpenWriter
  <2>2. UnpoisonedBefore(file, Len(file) + 1)
    BY <2>1 DEF PoisonInv, UnpoisonedBefore
  <2>. QED
    BY <1>6, <2>1, <2>2 DEF OpenWriter, logVars, PoisonInv
<1>. QED
  BY <1>2, <1>3, <1>4, <1>5, <1>6 DEF Replay

(* The log grows only behind commands that did not panic.                  *)
LEMMA PoisonServe ==
  ASSUME TypeInv, ExplainInv, PoisonInv, Serve \/ Shutdown \/ \E command \in Commands : Receive(command)
  PROVE  PoisonInv'
<1>1. /\ file \in Seq(Piece) /\ Commanded(file) /\ Len(file) \in Nat
  BY DEF TypeInv, RecoveryTypeOK
<1>2. CASE DrawOrderId \/ CommandPanics \/ Answer \/ CancelFirst
  BY <1>2 DEF DrawOrderId, CommandPanics, Answer, CancelFirst, logVars, PoisonInv
<1>3. CASE ExecuteLogged
  <2>1. /\ pc = "logged" /\ ~Panics(engine, cmd) /\ file' = file /\ pc' = "executed" /\ next' = next
        /\ Len(file) > 0 /\ file[Len(file)].cmd = cmd
    BY <1>3 DEF ExecuteLogged, logVars, ExplainInv, Entry
  <2>2. ASSUME Clean(file, Len(file) + 1), NEW n \in 1..Len(file)
        PROVE  ~Poisonous(file, n)
    <3>1. CASE n = Len(file)
      <4>1. engine = Replayed(file)[Len(file) - 1]
        BY <1>1, <2>1, <2>2, CleanHidesNothing DEF ExplainInv
      <4>. QED
        BY <2>1, <3>1, <4>1 DEF Poisonous
    <3>2. CASE n # Len(file)
      <4>1. Len(file) \in 1..Len(file) /\ n \in 1..(Len(file) - 1)
        BY <1>1, <2>1, <3>2
      <4>2. \A m \in 1..(Len(file) - 1) : m \in 1..((Len(file) + 1) - 1)
        BY <1>1
      <4>3. Clean(file, Len(file))
        BY <2>2, <4>2 DEF Clean
      <4>. QED
        BY <4>1, <4>3 DEF PoisonInv, UnpoisonedBefore
    <3>. QED
      BY <3>1, <3>2
  <2>3. UnpoisonedBefore(file, Len(file) + 1)
    BY <1>1, <2>2 DEF UnpoisonedBefore
  <2>. QED
    BY <2>1, <2>3 DEF PoisonInv
<1>4. CASE Log
  <2>1. /\ Logging /\ file' = Append(file, NextEntry) /\ file' \in CutShort
        /\ pc' = IF cmd \in Cancels THEN "executed" ELSE "logged"
    BY <1>4 DEF Log, CutShort
  <2>2. \A k \in 1..Len(file') : UnpoisonedBefore(file', k)
    BY <2>1, WrittenUnpoisoned
  <2>3. CASE cmd \notin Cancels
    BY <2>1, <2>2, <2>3 DEF PoisonInv
  <2>4. CASE cmd \in Cancels
    <3>1. /\ file' \in Seq(Piece) /\ Commanded(file') /\ Len(file') = Len(file) + 1 /\ Len(file') \in Nat
          /\ file'[Len(file')] = NextEntry /\ NextEntry.cmd = cmd
      <4>1. file' \in Seq(Piece) /\ Commanded(file')
        BY <2>1, WrittenHoldsCommands
      <4>. QED
        BY <1>1, <2>1, <4>1 DEF NextEntry, Entry
    <3>2. ASSUME Clean(file', Len(file') + 1), NEW n \in 1..Len(file')
          PROVE  ~Poisonous(file', n)
      <4>1. CASE n = Len(file')
        <5>1. Len(file') - 1 \in 0..Len(file')
          BY <3>1, <1>1
        <5>2. Replayed(file')[Len(file') - 1] \in EngineStates
          BY <3>1, <5>1, ReplayedSteps
        <5>3. ~Panics(Replayed(file')[Len(file') - 1], cmd)
          BY <2>4, <5>2, EngineAssumption, CommandsAssumption
        <5>. QED
          BY <3>1, <4>1, <5>3 DEF Poisonous
      <4>2. CASE n # Len(file')
        <5>1. Len(file') \in 1..Len(file') /\ n \in 1..(Len(file') - 1)
          BY <1>1, <3>1, <4>2
        <5>2. \A m \in 1..(Len(file') - 1) : m \in 1..((Len(file') + 1) - 1)
          BY <3>1
        <5>3. Clean(file', Len(file'))
          BY <3>2, <5>2 DEF Clean
        <5>. QED
          BY <2>2, <5>1, <5>3 DEF UnpoisonedBefore
      <4>. QED
        BY <4>1, <4>2
    <3>3. UnpoisonedBefore(file', Len(file') + 1)
      BY <3>1, <3>2 DEF UnpoisonedBefore
    <3>. QED
      BY <2>1, <2>2, <2>4, <3>3 DEF PoisonInv
  <2>. QED
    BY <2>3, <2>4
<1>5. CASE FailFast \/ Shutdown
  BY <1>5, DeadUnpoisoned DEF FailFast, Shutdown, PoisonInv
<1>6. CASE \E command \in Commands : Receive(command)
  BY <1>6 DEF Receive, logVars, PoisonInv
<1>. QED
  BY <1>2, <1>3, <1>4, <1>5, <1>6 DEF Serve

(* A fault leaves no entry that the file did not have before it.           *)
LEMMA PoisonFaults ==
  ASSUME TypeInv, PoisonInv, WriteFails \/ Kill \/ PowerLoss \/ Damage
  PROVE  PoisonInv'
<1>1. /\ file \in Seq(Piece) /\ Commanded(file) /\ synced \in 0..Len(file)
      /\ \A k \in 1..Len(file) : UnpoisonedBefore(file, k)
  BY DEF TypeInv, RecoveryTypeOK, PoisonInv
<1>2. \A f \in (IF Logging THEN CutShort ELSE {file}) :
        /\ f \in Seq(Piece) /\ Commanded(f) /\ Len(file) <= Len(f)
        /\ \A k \in 1..Len(f) : UnpoisonedBefore(f, k)
  <2>1. CASE Logging
    BY <2>1, WrittenUnpoisoned, WrittenHoldsCommands
  <2>2. CASE ~Logging
    BY <1>1, <2>2
  <2>. QED
    BY <2>1, <2>2
<1>3. CASE WriteFails
  BY <1>3, WrittenUnpoisoned, DeadUnpoisoned DEF WriteFails
<1>4. CASE Kill
  BY <1>2, <1>4, DeadUnpoisoned DEF Kill
<1>5. CASE PowerLoss
  <2>1. PICK f \in (IF Logging THEN CutShort ELSE {file}) : file' \in Surviving(f)
    BY <1>5 DEF PowerLoss
  <2>2. f \in Seq(Piece) /\ Commanded(f) /\ synced \in 0..Len(f) /\ \A k \in 1..Len(f) : UnpoisonedBefore(f, k)
    <3>1. f \in Seq(Piece) /\ Commanded(f) /\ Len(file) <= Len(f) /\ \A k \in 1..Len(f) : UnpoisonedBefore(f, k)
      BY <1>2
    <3>. QED
      BY <1>1, <3>1
  <2>3. \A k \in 1..Len(file') : UnpoisonedBefore(file', k)
    BY <2>1, <2>2, SurvivingUnpoisoned
  <2>. QED
    BY <1>5, <2>3, DeadUnpoisoned DEF PowerLoss
<1>6. CASE Damage
  <2>1. PICK n \in DOMAIN file, what \in {"rotten", "illegible"} :
          file[n].holds = "entry" /\ file' = [file EXCEPT ![n].holds = what]
    BY <1>6 DEF Damage
  <2>2. /\ file' \in Seq(Piece) /\ Len(file') = Len(file) /\ file'[n].holds = what
        /\ \A k \in 1..Len(file) : k # n => file'[k] = file[k]
    <3>1. file[n] \in Piece
      BY <1>1, <2>1
    <3>. DEFINE p == [file[n] EXCEPT !.holds = what]
    <3>2. p \in Piece /\ p.holds = what
      BY <3>1 DEF Piece
    <3>3. file' = [file EXCEPT ![n] = p] /\ n \in 1..Len(file)
      BY <1>1, <2>1
    <3>. HIDE DEF p
    <3>. QED
      BY <1>1, <3>2, <3>3
  <2>3. Commanded(file')
    <3>1. DOMAIN file' = 1..Len(file)
      BY <2>2
    <3>2. \A k \in 1..Len(file) : file'[k].holds = "entry" => file'[k] = file[k]
      BY <2>1, <2>2
    <3>. QED
      BY <1>1, <3>1, <3>2 DEF Commanded
  <2>4. ASSUME NEW k \in 1..Len(file')
        PROVE  UnpoisonedBefore(file', k)
    <3>1. k \in 1..Len(file) /\ k <= Len(file') /\ UnpoisonedBefore(file, k)
      BY <1>1, <2>2
    <3>2. \A m \in 1..(k - 1) : m \in 1..Len(file)
      BY <3>1
    <3>3. \A m \in 1..(k - 1) : file'[m] = file[m] \/ file'[m].holds \notin {"entry", "part"}
      BY <2>1, <2>2, <3>2
    <3>. QED
      BY <1>1, <2>2, <2>3, <3>1, <3>3, SameBeginning
  <2>5. pc' \in {"down", "stopped"}
    BY <1>6 DEF Damage, Running, processVars, TypeInv, RecoveryTypeOK
  <2>. QED
    BY <2>4, <2>5, DeadUnpoisoned
<1>. QED
  BY <1>3, <1>4, <1>5, <1>6

(* Every step keeps the poison last.                                       *)
LEMMA PoisonStep ==
  ASSUME TypeInv, ExplainInv, PoisonInv, [Next]_vars
  PROVE  PoisonInv'
<1>1. CASE Start
  <2>1. next' = 1 /\ file' = file /\ pc' = "replaying"
    BY <1>1 DEF Start, logVars, TypeInv, SeqInv
  <2>. QED
    BY <2>1 DEF PoisonInv
<1>2. CASE Spin \/ ClockTick \/ ClockSetBack \/ UNCHANGED vars
  BY <1>2 DEF Spin, ClockTick, ClockSetBack, vars, logVars, processVars, PoisonInv
<1>. QED
  BY <1>1, <1>2, PoisonReplay, PoisonServe, PoisonFaults DEF Next

(* A command that panics when it is replayed is the last of an undamaged   *)
(* log (fail-fast of run_engine): taking one line off its end repairs it.  *)
THEOREM PoisonStaysLast == Spec => []PoisonIsLast
<1>1. Init => PoisonInv
  BY DEF Init, PoisonInv
<1>2. TypeInv /\ PoisonInv => PoisonIsLast
  <2>. SUFFICES ASSUME TypeInv, PoisonInv, Undamaged(file), NothingHidden(file),
                       NEW n \in DOMAIN file, Poisonous(file, n), n # Len(file)
                PROVE  FALSE
    BY DEF PoisonIsLast
  <2>1. file \in Seq(Piece) /\ Len(file) \in Nat /\ n \in 1..Len(file)
    BY DEF TypeInv, RecoveryTypeOK
  <2>2. Len(file) \in 1..Len(file) /\ n \in 1..(Len(file) - 1)
    BY <2>1
  <2>3. Clean(file, Len(file))
    <3>. SUFFICES ASSUME NEW m \in 1..(Len(file) - 1)
                  PROVE  /\ file[m].holds \in {"entry", "part"}
                         /\ file[m].holds = "entry" => file[m].ended /\ (m > 1 => file[m - 1].ended)
      BY DEF Clean
    <3>1. m \in DOMAIN file /\ m < Len(file)
      BY <2>1
    <3>2. file[m].holds \in {"entry", "part"}
      BY <3>1 DEF Undamaged
    <3>3. file[m].holds = "entry" => AloneOnLine(file, m)
      BY <3>1 DEF NothingHidden, Readable
    <3>. QED
      BY <3>1, <3>2, <3>3 DEF AloneOnLine
  <2>. QED
    BY <2>2, <2>3 DEF PoisonInv, UnpoisonedBefore
<1>. QED
  BY <1>1, <1>2, PoisonStep, ExplainAlways, PTL DEF Spec

-----------------------------------------------------------------------------
(* Answers                                                                 *)

(* The pieces that no loss of power takes, and that nothing written after  *)
(* them can hide: those synced, but for a last one without its end.        *)
SettledIn(f, s) == IF s > 0 /\ ~f[s].ended THEN s - 1 ELSE s

SettledClean(f, s) ==
  \A m \in 1..s :
    /\ f[m].holds \in {"entry", "part"}
    /\ f[m].holds = "entry" => (m > 1 => f[m - 1].ended) /\ (m < s => f[m].ended)

(* What may become of the engine by replaying the pieces from b on, if any *)
(* of them may turn out unreadable.                                        *)
LazyStep(e, d, p) == d = e \/ (p.cmd \in Commands /\ d = Execute(e, p.cmd))

Lazy(f, b, n, r) ==
  r[b] = Replayed(f)[b] /\ \A m \in (b + 1)..n : LazyStep(r[m - 1], r[m], f[m])

LazyWithin(f, b, A) ==
  \A n \in b..Len(f) : \A r \in [b..n -> EngineStates] : Lazy(f, b, n, r) => r[n] \in A

Keeps(f, s, A) == SettledClean(f, s) => LazyWithin(f, SettledIn(f, s), A)

(* The log with the entry of a command that is received.                   *)
ToBeLogged == pc \in {"received", "drawn", "cancelled"}
Upcoming == IF ToBeLogged THEN Append(file, NextEntry) ELSE file

Whole(f) == NothingHidden(f) /\ Undamaged(f)

(* With WAL_SYNC, whatever of the pieces that are not settled is lost or   *)
(* hidden, the engine they leave is allowed.  Without, that holds of the   *)
(* whole file until the machine loses power.                               *)
KeptInv ==
  /\ sync => Keeps(Upcoming, synced, allowed)
  /\ ~power_lost /\ Whole(file) =>
       /\ Recovered(file) \in allowed
       /\ ToBeLogged => Execute(Recovered(file), cmd) \in allowed
  /\ pc \in {"logged", "executed"} =>
       /\ sync => synced = Len(file)
       /\ Len(file) > 0 /\ file[Len(file)].ended

(* Files with the same first s pieces.                                     *)
LEMMA SettledAlike ==
  ASSUME NEW f \in Seq(Piece), Commanded(f), NEW g \in Seq(Piece), Commanded(g),
         NEW s \in Nat, s <= Len(f), s <= Len(g), \A m \in 1..s : g[m] = f[m]
  PROVE  /\ SettledClean(g, s) <=> SettledClean(f, s)
         /\ SettledIn(g, s) = SettledIn(f, s)
         /\ SettledIn(f, s) \in 0..s
         /\ Replayed(g)[SettledIn(f, s)] = Replayed(f)[SettledIn(f, s)]
<1>1. \A m \in 1..s : m > 1 => m - 1 \in 1..s
  OBVIOUS
<1>2. SettledClean(g, s) <=> SettledClean(f, s)
  BY <1>1 DEF SettledClean
<1>3. s > 0 => s \in 1..s
  OBVIOUS
<1>4. SettledIn(g, s) = SettledIn(f, s) /\ SettledIn(f, s) \in 0..s
  BY <1>3 DEF SettledIn
<1>. DEFINE b == SettledIn(f, s)
<1>5. b \in 0..s /\ \A m \in 1..b : m \in 1..s /\ (f[m].ended \/ m < s)
  <2>1. CASE s > 0 /\ ~f[s].ended
    BY <2>1 DEF SettledIn
  <2>2. CASE ~(s > 0 /\ ~f[s].ended)
    <3>1. b = s
      BY <2>2 DEF SettledIn
    <3>2. \A m \in 1..s : m < s \/ m = s
      OBVIOUS
    <3>. QED
      BY <2>2, <3>1, <3>2
  <2>. QED
    BY <2>1, <2>2
<1>. HIDE DEF b
<1>6. ASSUME NEW m \in 1..b
      PROVE  (Readable(f, m) <=> Readable(g, m)) /\ f[m].cmd = g[m].cmd
  <2>1. m \in 1..s /\ (f[m].ended \/ m < s) /\ g[m] = f[m] /\ (m > 1 => g[m - 1] = f[m - 1])
    BY <1>1, <1>5
  <2>2. \A i \in 1..(m - 1) : i \in 1..s
    BY <2>1
  <2>3. \A i \in 1..(m - 1) : g[i] = f[i]
    BY <2>2
  <2>4. AloneOnLine(f, m) <=> AloneOnLine(g, m)
    <3>1. m < s => m < Len(f) /\ m < Len(g)
      BY <2>1
    <3>. QED
      BY <2>1, <3>1 DEF AloneOnLine
  <2>. QED
    BY <2>1, <2>3, <2>4 DEF Readable
<1>7. Replayed(g)[b] = Replayed(f)[b]
  <2>1. b \in Nat /\ b <= Len(f) /\ b <= Len(g) /\ b \in 0..b
    BY <1>5
  <2>. QED
    BY <1>6, <2>1, ReplayedAlike
<1>. QED
  BY <1>2, <1>4, <1>7 DEF b

(* The engine a file is replayed to is one of those.                       *)
LEMMA RecoveredIsLazy ==
  ASSUME NEW f \in Seq(Piece), Commanded(f), NEW b \in 0..Len(f), NEW A, LazyWithin(f, b, A)
  PROVE  Recovered(f) \in A
<1>. DEFINE r == [m \in b..Len(f) |-> Replayed(f)[m]]
<1>1. Len(f) \in b..Len(f) /\ b \in b..Len(f) /\ \A m \in b..Len(f) : m \in 0..Len(f)
  OBVIOUS
<1>2. r \in [b..Len(f) -> EngineStates]
  BY <1>1, ReplayedSteps
<1>3. ASSUME NEW m \in (b + 1)..Len(f)
      PROVE  LazyStep(r[m - 1], r[m], f[m])
  <2>1. m \in 1..Len(f) /\ m \in b..Len(f) /\ m - 1 \in b..Len(f)
    OBVIOUS
  <2>2. r[m] = Replayed(f)[m] /\ r[m - 1] = Replayed(f)[m - 1]
    BY <2>1
  <2>3. Replayed(f)[m] = IF Readable(f, m) THEN Execute(Replayed(f)[m - 1], f[m].cmd) ELSE Replayed(f)[m - 1]
    BY <2>1, ReplayedSteps
  <2>4. Readable(f, m) => f[m].cmd \in Commands
    BY <2>1 DEF Readable, Commanded
  <2>. QED
    BY <2>2, <2>3, <2>4 DEF LazyStep
<1>4. r[b] = Replayed(f)[b] /\ r[Len(f)] = Recovered(f)
  BY <1>1 DEF Recovered
<1>. HIDE DEF r
<1>5. Lazy(f, b, Len(f), r)
  BY <1>3, <1>4 DEF Lazy
<1>. QED
  BY <1>1, <1>2, <1>4, <1>5 DEF LazyWithin

(* A file that lost pieces it had not settled, or settled more.            *)
LEMMA WornKeeps ==
  ASSUME NEW f \in Seq(Piece), Commanded(f), NEW g \in Seq(Piece), Commanded(g),
         NEW s \in Nat, NEW t \in Nat, s <= t, t <= Len(g), Len(g) <= Len(f),
         \A m \in 1..Len(g) : g[m].cmd = f[m].cmd \/ g[m].cmd = NoCommand,
         \A m \in 1..s : g[m] = f[m] \/ g[m].holds \notin {"entry", "part"},
         NEW A, Keeps(f, s, A)
  PROVE  Keeps(g, t, A)
<1>. SUFFICES ASSUME SettledClean(g, t) PROVE LazyWithin(g, SettledIn(g, t), A)
  BY DEF Keeps
<1>1. \A m \in 1..s : m \in 1..t /\ (m < s => m < t)
  OBVIOUS
<1>2. \A m \in 1..s : g[m] = f[m]
  BY <1>1 DEF SettledClean
<1>3. SettledClean(g, s)
  BY <1>1 DEF SettledClean
<1>. DEFINE b == SettledIn(f, s)
            c == SettledIn(g, t)
<1>4. s <= Len(f) /\ s <= Len(g)
  OBVIOUS
<1>5. /\ SettledClean(f, s) /\ SettledIn(g, s) = b /\ b \in 0..s
      /\ Replayed(g)[b] = Replayed(f)[b]
  BY <1>2, <1>3, <1>4, SettledAlike
<1>6. b <= c /\ c \in 0..t
  <2>1. CASE s = t
    BY <1>5, <2>1
  <2>2. CASE s < t
    <3>1. c = t \/ c = t - 1
      BY DEF SettledIn
    <3>. QED
      BY <1>5, <2>2, <3>1
  <2>. QED
    BY <2>1, <2>2
<1>7. LazyWithin(f, b, A)
  BY <1>5 DEF Keeps
<1>. HIDE DEF b, c
<1>8. ASSUME NEW n \in c..Len(g), NEW r \in [c..n -> EngineStates], Lazy(g, c, n, r)
      PROVE  r[n] \in A
  <2>. DEFINE q == [m \in b..n |-> IF m < c THEN Replayed(g)[m] ELSE r[m]]
  <2>1. n \in b..Len(f) /\ b \in b..n /\ n \in b..n /\ n >= c /\ c \in Nat /\ b \in Nat /\ n \in Nat /\ n <= Len(g)
    BY <1>5, <1>6
  <2>2. q \in [b..n -> EngineStates]
    <3>1. \A m \in b..n : m < c => m \in 0..Len(g)
      BY <2>1
    <3>2. \A m \in b..n : ~(m < c) => m \in c..n
      BY <2>1
    <3>. QED
      BY <3>1, <3>2, ReplayedSteps
  <2>3. r[c] = Replayed(g)[c]
    BY <1>8 DEF Lazy
  <2>4. \A m \in b..n : m <= c => q[m] = Replayed(g)[m]
    BY <2>1, <2>3
  <2>5. \A m \in b..n : m >= c => q[m] = r[m]
    BY <2>1
  <2>. HIDE DEF q
  <2>6. ASSUME NEW m \in (b + 1)..n
        PROVE  LazyStep(q[m - 1], q[m], f[m])
    <3>1. m \in 1..Len(g) /\ m \in b..n /\ m - 1 \in b..n
      BY <2>1
    <3>2. g[m].cmd \in Commands => f[m].cmd = g[m].cmd
      BY <3>1, CommandsAssumption
    <3>3. CASE m <= c
      <4>1. q[m] = Replayed(g)[m] /\ q[m - 1] = Replayed(g)[m - 1]
        <5>1. m - 1 <= c
          BY <3>1, <3>3, <2>1
        <5>. QED
          BY <2>4, <3>1, <3>3, <5>1
      <4>2. Replayed(g)[m] = IF Readable(g, m) THEN Execute(Replayed(g)[m - 1], g[m].cmd) ELSE Replayed(g)[m - 1]
        BY <3>1, ReplayedSteps
      <4>3. Readable(g, m) => g[m].cmd \in Commands
        BY <3>1 DEF Readable, Commanded
      <4>. QED
        BY <3>2, <4>1, <4>2, <4>3 DEF LazyStep
    <3>4. CASE m > c
      <4>1. m \in (c + 1)..n /\ m - 1 >= c /\ m >= c
        BY <2>1, <3>1, <3>4
      <4>2. LazyStep(r[m - 1], r[m], g[m])
        BY <1>8, <4>1 DEF Lazy
      <4>3. q[m] = r[m] /\ q[m - 1] = r[m - 1]
        BY <2>5, <3>1, <4>1
      <4>. QED
        BY <3>2, <4>2, <4>3 DEF LazyStep
    <3>. QED
      BY <2>1, <3>1, <3>3, <3>4
  <2>7. q[b] = Replayed(f)[b]
    BY <1>5, <1>6, <2>1, <2>4
  <2>8. Lazy(f, b, n, q)
    BY <2>6, <2>7 DEF Lazy
  <2>9. q[n] \in A
    BY <1>7, <2>1, <2>2, <2>8 DEF LazyWithin
  <2>. QED
    BY <2>1, <2>5, <2>9
<1>. QED
  BY <1>8 DEF LazyWithin, c

(* A command that is received: the answers may or may not include it.      *)
LEMMA ReceivedKeeps ==
  ASSUME NEW f \in Seq(Piece), Commanded(f), NEW p \in Piece, Commanded(Append(f, p)),
         p.cmd \in Commands, NEW s \in Nat, s <= Len(f), NEW A, Keeps(f, s, A)
  PROVE  Keeps(Append(f, p), s, A \cup {Execute(e, p.cmd) : e \in A})
<1>. DEFINE g == Append(f, p)
            b == SettledIn(f, s)
<1>1. g \in Seq(Piece) /\ Commanded(g) /\ Len(g) = Len(f) + 1 /\ g[Len(f) + 1] = p /\ \A n \in 1..Len(f) : g[n] = f[n]
  BY AppendReadable
<1>2. s <= Len(g) /\ \A m \in 1..s : m \in 1..Len(f)
  BY <1>1
<1>3. \A m \in 1..s : g[m] = f[m]
  BY <1>1, <1>2
<1>. HIDE DEF g
<1>4. /\ SettledClean(g, s) => SettledClean(f, s)
      /\ SettledIn(g, s) = b /\ b \in 0..s /\ Replayed(g)[b] = Replayed(f)[b]
  BY <1>1, <1>2, <1>3, SettledAlike
<1>. HIDE DEF b
<1>5. SUFFICES ASSUME LazyWithin(f, b, A) PROVE LazyWithin(g, b, A \cup {Execute(e, p.cmd) : e \in A})
  BY <1>4 DEF Keeps, g, b
<1>6. SUFFICES ASSUME NEW n \in b..Len(g), NEW r \in [b..n -> EngineStates], Lazy(g, b, n, r)
               PROVE  r[n] \in A \cup {Execute(e, p.cmd) : e \in A}
  BY DEF LazyWithin
<1>7. b \in Nat /\ b <= Len(f) /\ n \in Nat
  BY <1>4
<1>8. CASE n <= Len(f)
  <2>1. n \in b..Len(f) /\ \A m \in (b + 1)..n : m \in 1..Len(f)
    BY <1>7, <1>8
  <2>2. Lazy(f, b, n, r)
    BY <1>1, <1>4, <1>6, <2>1 DEF Lazy
  <2>. QED
    BY <1>5, <2>1, <2>2 DEF LazyWithin
<1>9. CASE n = Len(f) + 1
  <2>. DEFINE k == Len(f)
              q == [m \in b..k |-> r[m]]
  <2>1. k \in b..Len(f) /\ k \in b..k /\ b \in b..k /\ n - 1 = k /\ n \in (b + 1)..n /\ \A m \in b..k : m \in b..n
    BY <1>7, <1>9
  <2>2. \A m \in (b + 1)..k : m \in 1..Len(f) /\ m \in (b + 1)..n /\ m \in b..k /\ m - 1 \in b..k
    BY <1>7, <1>9
  <2>3. q \in [b..k -> EngineStates]
    BY <2>1
  <2>4. q[b] = Replayed(f)[b] /\ q[k] = r[n - 1]
    BY <1>4, <1>6, <2>1 DEF Lazy
  <2>5. \A m \in (b + 1)..k : LazyStep(q[m - 1], q[m], f[m])
    <3>. SUFFICES ASSUME NEW m \in (b + 1)..k PROVE LazyStep(q[m - 1], q[m], f[m])
      OBVIOUS
    <3>1. q[m - 1] = r[m - 1] /\ q[m] = r[m] /\ g[m] = f[m]
      BY <1>1, <2>2
    <3>2. LazyStep(r[m - 1], r[m], g[m])
      BY <1>6, <2>2 DEF Lazy
    <3>. QED
      BY <3>1, <3>2
  <2>. HIDE DEF q
  <2>6. Lazy(f, b, k, q)
    BY <2>4, <2>5 DEF Lazy
  <2>7. r[n - 1] \in A
    BY <1>5, <2>1, <2>3, <2>4, <2>6 DEF LazyWithin
  <2>8. LazyStep(r[n - 1], r[n], p)
    BY <1>1, <1>6, <1>9, <2>1 DEF Lazy
  <2>. QED
    BY <2>7, <2>8 DEF LazyStep
<1>. QED
  BY <1>1, <1>7, <1>8, <1>9

(* The file, and behind it the entry that is still to be logged.           *)
LEMMA UpcomingShape ==
  ASSUME TypeInv
  PROVE  /\ file \in Seq(Piece) /\ Commanded(file) /\ Len(file) \in Nat /\ synced \in 0..Len(file)
         /\ Upcoming \in Seq(Piece) /\ Commanded(Upcoming) /\ Len(file) <= Len(Upcoming)
         /\ \A m \in 1..Len(file) : Upcoming[m] = file[m]
         /\ ToBeLogged => NextEntry \in Piece /\ NextEntry.cmd = cmd /\ cmd \in Commands
                          /\ Len(Upcoming) = Len(file) + 1 /\ Upcoming[Len(file) + 1] = NextEntry
<1>1. file \in Seq(Piece) /\ Commanded(file) /\ Len(file) \in Nat /\ synced \in 0..Len(file) /\ seq \in Nat
  BY DEF TypeInv, RecoveryTypeOK
<1>2. CASE ToBeLogged
  <2>1. cmd \in Commands
    BY <1>2 DEF TypeInv, ToBeLogged
  <2>2. NextEntry \in Piece
    BY <1>1, <2>1, EntryIsPiece DEF NextEntry
  <2>3. NextEntry.cmd = cmd
    BY DEF NextEntry, Entry
  <2>4. Upcoming = Append(file, NextEntry)
    BY <1>2 DEF Upcoming
  <2>5. /\ Upcoming \in Seq(Piece) /\ Len(Upcoming) = Len(file) + 1 /\ Upcoming[Len(file) + 1] = NextEntry
        /\ \A m \in 1..Len(file) : Upcoming[m] = file[m]
    BY <1>1, <2>2, <2>4, AppendReadable
  <2>6. Commanded(Upcoming)
    <3>1. \A m \in 1..(Len(file) + 1) : m \in 1..Len(file) \/ m = Len(file) + 1
      BY <1>1
    <3>2. DOMAIN Upcoming = 1..(Len(file) + 1)
      BY <2>5
    <3>. QED
      BY <1>1, <2>1, <2>3, <2>5, <3>1, <3>2 DEF Commanded
  <2>. QED
    BY <1>1, <2>1, <2>2, <2>3, <2>5, <2>6
<1>3. CASE ~ToBeLogged
  BY <1>1, <1>3 DEF Upcoming
<1>. QED
  BY <1>2, <1>3

(* What a crash may find in the file: some of what was to be written.      *)
LEMMA WrittenWears ==
  ASSUME TypeInv, NEW f \in (IF Logging THEN CutShort ELSE {file})
  PROVE  /\ f \in Seq(Piece) /\ Commanded(f) /\ Len(file) <= Len(f) /\ Len(f) <= Len(Upcoming)
         /\ \A m \in 1..Len(f) : f[m].cmd = Upcoming[m].cmd \/ f[m].cmd = NoCommand
         /\ \A m \in 1..Len(file) : f[m] = file[m]
<1>1. CASE Logging
  <2>1. ToBeLogged
    BY <1>1 DEF Logging, ToBeLogged
  <2>2. /\ NextEntry.cmd = cmd /\ Len(Upcoming) = Len(file) + 1 /\ Upcoming[Len(file) + 1] = NextEntry
        /\ file \in Seq(Piece) /\ Len(file) \in Nat /\ \A m \in 1..Len(file) : Upcoming[m] = file[m]
    BY <2>1, UpcomingShape
  <2>3. f \in Seq(Piece) /\ Commanded(f) /\ Len(file) <= Len(f)
    BY <1>1, WrittenHoldsCommands
  <2>4. f = file \/ \E p : f = Append(file, p) /\ (p.cmd = cmd \/ p.cmd = NoCommand)
    <3>1. Part.cmd = NoCommand /\ Unended(seq + 1, cmd).cmd = cmd
      BY DEF Part, Unended, Entry
    <3>. QED
      BY <1>1, <2>2, <3>1 DEF CutShort
  <2>5. CASE f = file
    BY <2>2, <2>3, <2>5
  <2>6. CASE \E p : f = Append(file, p) /\ (p.cmd = cmd \/ p.cmd = NoCommand)
    <3>1. PICK p : f = Append(file, p) /\ (p.cmd = cmd \/ p.cmd = NoCommand)
      BY <2>6
    <3>2. Len(f) = Len(file) + 1 /\ f[Len(file) + 1] = p /\ \A m \in 1..Len(file) : f[m] = file[m]
      BY <2>2, <3>1
    <3>3. \A m \in 1..Len(f) : m \in 1..Len(file) \/ m = Len(file) + 1
      BY <2>2, <3>2
    <3>. QED
      BY <2>2, <2>3, <3>1, <3>2, <3>3
  <2>. QED
    BY <2>4, <2>5, <2>6
<1>2. CASE ~Logging
  <2>1. f = file
    BY <1>2
  <2>. QED
    BY <2>1, UpcomingShape
<1>. QED
  BY <1>1, <1>2

(* What a crash leaves of a write, whole or cut short, keeps the answers.  *)
LEMMA WrittenKeeps ==
  ASSUME TypeInv, NEW f \in (IF Logging THEN CutShort ELSE {file}), NEW A, Keeps(Upcoming, synced, A)
  PROVE  Keeps(f, synced, A)
<1>1. /\ f \in Seq(Piece) /\ Commanded(f) /\ Len(f) <= Len(Upcoming)
      /\ \A m \in 1..Len(f) : f[m].cmd = Upcoming[m].cmd \/ f[m].cmd = NoCommand
  BY WrittenWears
<1>2. /\ Upcoming \in Seq(Piece) /\ Commanded(Upcoming) /\ synced \in Nat
      /\ \A m \in 1..synced : m \in 1..Len(file)
  BY UpcomingShape
<1>3. synced <= synced /\ synced <= Len(f)
  <2>1. Len(file) <= Len(f) /\ synced <= Len(file) /\ Len(f) \in Nat /\ Len(file) \in Nat
    BY <1>1, WrittenWears, UpcomingShape
  <2>. QED
    BY <1>2, <2>1
<1>4. \A m \in 1..synced : f[m] = Upcoming[m]
  BY <1>2, WrittenWears, UpcomingShape
<1>. QED
  BY <1>1, <1>2, <1>3, <1>4, WornKeeps

(* Of a whole file.                                                        *)
LEMMA WrittenWhole ==
  ASSUME TypeInv, NEW f \in (IF Logging THEN CutShort ELSE {file}), Whole(f)
  PROVE  /\ Whole(file)
         /\ Recovered(f) = Recovered(file) \/ (ToBeLogged /\ Recovered(f) = Execute(Recovered(file), cmd))
<1>1. CASE f = file
  BY <1>1
<1>2. CASE f # file
  <2>1. Logging /\ f \in CutShort
    BY <1>2
  <2>2. ToBeLogged
    BY <2>1 DEF Logging, ToBeLogged
  <2>3. file \in Seq(Piece) /\ Commanded(file) /\ NextEntry \in Piece /\ cmd \in Commands /\ seq \in Nat
    BY <2>2, UpcomingShape DEF TypeInv, RecoveryTypeOK
  <2>4. \E p \in Piece : f = Append(file, p) /\ (p.holds = "entry" => p.cmd = cmd)
    <3>1. Part \in Piece /\ Part.holds # "entry"
      BY DEF Part, Piece
    <3>2. Unended(seq + 1, cmd) \in Piece
      BY <2>3, EntryIsPiece
    <3>3. Unended(seq + 1, cmd).cmd = cmd /\ NextEntry.cmd = cmd
      BY DEF Unended, NextEntry, Entry
    <3>. QED
      BY <1>2, <2>1, <2>3, <3>1, <3>2, <3>3 DEF CutShort
  <2>5. PICK p \in Piece : f = Append(file, p) /\ (p.holds = "entry" => p.cmd = cmd)
    BY <2>4
  <2>6. Commanded(Append(file, p)) /\ NothingHidden(Append(file, p))
    BY <2>1, <2>5, WrittenHoldsCommands DEF Whole
  <2>7. /\ NothingHidden(file)
        /\ Recovered(Append(file, p)) = IF p.holds = "entry" THEN Execute(Recovered(file), p.cmd) ELSE Recovered(file)
    BY <2>3, <2>6, AppendRecovered
  <2>8. Undamaged(file)
    <3>1. \A n \in DOMAIN file : n \in DOMAIN f /\ f[n] = file[n]
      BY <2>3, <2>5, AppendReadable
    <3>. QED
      BY <3>1 DEF Whole, Undamaged
  <2>. QED
    BY <2>2, <2>5, <2>7, <2>8 DEF Whole
<1>. QED
  BY <1>1, <1>2

(* Nothing happens to the file.                                            *)
LEMMA QuietKeeps ==
  ASSUME TypeInv, KeptInv, UNCHANGED <<file, synced, sync, allowed, power_lost>>,
         ToBeLogged' => ToBeLogged /\ UNCHANGED <<seq, cmd>>,
         pc' \in {"logged", "executed"} => pc \in {"logged", "executed"}
  PROVE  KeptInv'
<1>1. ASSUME sync' PROVE Keeps(Upcoming', synced', allowed')
  <2>1. Keeps(Upcoming, synced, allowed)
    BY <1>1 DEF KeptInv
  <2>2. CASE ToBeLogged'
    <3>1. Upcoming' = Append(file, NextEntry) /\ Upcoming = Append(file, NextEntry)
      BY <2>2 DEF Upcoming, NextEntry
    <3>2. synced' = synced /\ allowed' = allowed
      OBVIOUS
    <3>. QED
      BY <2>1, <3>1, <3>2
  <2>3. CASE ~ToBeLogged'
    <3>1. Upcoming' = file
      BY <2>3 DEF Upcoming
    <3>2. file \in (IF Logging THEN CutShort ELSE {file})
      BY DEF CutShort
    <3>3. Keeps(file, synced, allowed)
      BY <2>1, <3>2, WrittenKeeps
    <3>4. synced' = synced /\ allowed' = allowed
      OBVIOUS
    <3>. QED
      BY <3>1, <3>3, <3>4
  <2>. QED
    BY <2>2, <2>3
<1>2. /\ ~power_lost /\ Whole(file) =>
           /\ Recovered(file) \in allowed
           /\ ToBeLogged => Execute(Recovered(file), cmd) \in allowed
      /\ pc \in {"logged", "executed"} =>
           /\ sync => synced = Len(file)
           /\ Len(file) > 0 /\ file[Len(file)].ended
  BY DEF KeptInv
<1>3. sync' => Keeps(Upcoming, synced, allowed)'
  BY <1>1
<1>4. /\ ~power_lost' /\ Whole(file') =>
           /\ Recovered(file') \in allowed'
           /\ ToBeLogged' => Execute(Recovered(file'), cmd') \in allowed'
      /\ pc' \in {"logged", "executed"} =>
           /\ sync' => synced' = Len(file')
           /\ Len(file') > 0 /\ file'[Len(file')].ended
  <2>1. file' = file /\ synced' = synced /\ sync' = sync /\ allowed' = allowed /\ power_lost' = power_lost
    OBVIOUS
  <2>2. ToBeLogged' => ToBeLogged /\ cmd' = cmd
    OBVIOUS
  <2>. HIDE DEF ToBeLogged
  <2>. QED
    BY <1>2, <2>1, <2>2
<1>. QED
  BY <1>3, <1>4 DEF KeptInv

(* The process writes, and may be cut off.                                 *)
LEMMA WritingKeeps ==
  ASSUME TypeInv, KeptInv, file' \in (IF Logging THEN CutShort ELSE {file}),
         UNCHANGED <<synced, sync, allowed, power_lost>>,
         pc' \in {"down", "stopped", "panicked"}
  PROVE  KeptInv'
<1>1. Upcoming' = file' /\ ~ToBeLogged' /\ synced' = synced /\ sync' = sync /\ allowed' = allowed
      /\ power_lost' = power_lost
  BY DEF Upcoming, ToBeLogged
<1>2. sync => Keeps(file', synced, allowed)
  BY WrittenKeeps DEF KeptInv
<1>3. ASSUME ~power_lost, Whole(file')
      PROVE  Recovered(file') \in allowed
  <2>1. /\ Whole(file)
        /\ Recovered(file') = Recovered(file) \/ (ToBeLogged /\ Recovered(file') = Execute(Recovered(file), cmd))
    BY <1>3, WrittenWhole
  <2>. QED
    BY <1>3, <2>1 DEF KeptInv
<1>4. sync' => Keeps(Upcoming, synced, allowed)'
  BY <1>1, <1>2
<1>5. ~power_lost' /\ Whole(file)' =>
        /\ Recovered(file)' \in allowed'
        /\ ToBeLogged' => (Execute(Recovered(file), cmd) \in allowed)'
  BY <1>1, <1>3
<1>6. pc' \notin {"logged", "executed"}
  OBVIOUS
<1>. QED
  BY <1>4, <1>5, <1>6 DEF KeptInv

(* So does the end of a replay, when the file is opened for writing.       *)
LEMMA OpenKeeps ==
  ASSUME TypeInv, ExplainInv, KeptInv, OpenWriter
  PROVE  KeptInv'
<1>1. /\ file \in Seq(Piece) /\ Commanded(file) /\ Len(file) \in Nat /\ synced \in 0..Len(file)
      /\ next = Len(file) + 1 /\ pc = "replaying" /\ pc' = "idle" /\ file' = file /\ synced' = synced /\ sync' = sync
      /\ allowed' = IF engine \in allowed THEN allowed ELSE {engine}
  BY UpcomingShape DEF OpenWriter, logVars, TypeInv, RecoveryTypeOK
<1>2. engine = Recovered(file)
  BY <1>1 DEF ExplainInv, Recovered
<1>3. Upcoming' = file /\ ~ToBeLogged' /\ Upcoming = file
  BY <1>1 DEF Upcoming, ToBeLogged
<1>4. ASSUME sync PROVE Keeps(file, synced, allowed')
  <2>1. Keeps(file, synced, allowed)
    BY <1>3, <1>4 DEF KeptInv
  <2>2. CASE SettledClean(file, synced)
    <3>1. LazyWithin(file, SettledIn(file, synced), allowed)
      BY <2>1, <2>2 DEF Keeps
    <3>2. SettledIn(file, synced) \in 0..Len(file)
      BY <1>1 DEF SettledIn
    <3>3. engine \in allowed
      BY <1>1, <1>2, <3>1, <3>2, RecoveredIsLazy
    <3>. QED
      BY <1>1, <2>1, <3>3
  <2>3. CASE ~SettledClean(file, synced)
    BY <2>3 DEF Keeps
  <2>. QED
    BY <2>2, <2>3
<1>5. sync' => Keeps(Upcoming, synced, allowed)'
  BY <1>1, <1>3, <1>4
<1>6. Recovered(file)' \in allowed'
  BY <1>1, <1>2
<1>7. pc' \notin {"logged", "executed"}
  BY <1>1
<1>. QED
  BY <1>3, <1>5, <1>6, <1>7 DEF KeptInv

(* So does the receipt of a command.                                       *)
LEMMA ReceiveKeeps ==
  ASSUME TypeInv, TypeInv', KeptInv, NEW command \in Commands, Receive(command)
  PROVE  KeptInv'
<1>1. /\ pc = "idle" /\ pc' = "received" /\ cmd' = command /\ file' = file /\ synced' = synced /\ sync' = sync
      /\ seq' = seq /\ power_lost' = power_lost
      /\ allowed' = allowed \cup {Execute(e, command) : e \in allowed}
  BY DEF Receive, logVars
<1>2. Upcoming = file /\ ToBeLogged'
  BY <1>1 DEF Upcoming, ToBeLogged
<1>. DEFINE p == Entry(seq + 1, command)
<1>3. Upcoming' = Append(file, p)
  BY <1>1 DEF Upcoming, ToBeLogged, NextEntry
<1>4. p \in Piece /\ p.cmd = command
  <2>1. seq + 1 \in Nat
    BY DEF TypeInv, RecoveryTypeOK
  <2>2. p \in Piece
    BY <2>1, EntryIsPiece
  <2>. QED
    BY <2>2 DEF Entry
<1>. HIDE DEF p
<1>5. file \in Seq(Piece) /\ Commanded(file) /\ synced \in Nat /\ synced <= Len(file)
  BY UpcomingShape
<1>8. Commanded(Append(file, p))
  <2>1. /\ DOMAIN Append(file, p) = 1..(Len(file) + 1) /\ Append(file, p)[Len(file) + 1] = p
        /\ \A n \in 1..Len(file) : Append(file, p)[n] = file[n]
    BY <1>4, <1>5, AppendReadable
  <2>2. \A n \in 1..(Len(file) + 1) : n \in 1..Len(file) \/ n = Len(file) + 1
    BY <1>5
  <2>. QED
    BY <1>4, <1>5, <2>1, <2>2 DEF Commanded
<1>9. ASSUME sync PROVE Keeps(Append(file, p), synced, allowed')
  <2>1. Keeps(file, synced, allowed)
    BY <1>2, <1>9 DEF KeptInv
  <2>2. Keeps(Append(file, p), synced, allowed \cup {Execute(e, p.cmd) : e \in allowed})
    BY <1>4, <1>5, <1>8, <2>1, ReceivedKeeps
  <2>. QED
    BY <1>1, <1>4, <2>2
<1>10. sync' => Keeps(Upcoming, synced, allowed)'
  BY <1>1, <1>3, <1>9
<1>11. ~power_lost /\ Whole(file) => Recovered(file) \in allowed
  BY DEF KeptInv
<1>12. ~power_lost /\ Whole(file) => Recovered(file) \in allowed' /\ Execute(Recovered(file), cmd') \in allowed'
  BY <1>1, <1>11
<1>13. ~power_lost' /\ Whole(file)' =>
         /\ Recovered(file)' \in allowed'
         /\ ToBeLogged' => (Execute(Recovered(file), cmd) \in allowed)'
  BY <1>1, <1>12
<1>14. pc' \notin {"logged", "executed"}
  BY <1>1
<1>. QED
  BY <1>10, <1>13, <1>14 DEF KeptInv

(* So does the entry of it in the log.                                     *)
LEMMA LogKeeps ==
  ASSUME TypeInv, KeptInv, Log
  PROVE  KeptInv'
<1>1. /\ Logging /\ file' = Append(file, NextEntry) /\ pc' \in {"logged", "executed"}
      /\ synced' = (IF sync THEN Len(file') ELSE synced) /\ sync' = sync /\ cmd' = cmd
      /\ allowed' = allowed /\ power_lost' = power_lost
  BY DEF Log, answerVars
<1>2. ToBeLogged /\ Upcoming = file'
  BY <1>1 DEF Logging, ToBeLogged, Upcoming
<1>3. Upcoming' = file' /\ ~ToBeLogged'
  BY <1>1 DEF Upcoming, ToBeLogged
<1>4. /\ file' \in Seq(Piece) /\ Commanded(file') /\ Len(file') \in Nat /\ Len(file') = Len(file) + 1
      /\ file'[Len(file')] = NextEntry /\ synced \in Nat /\ synced <= Len(file')
  BY <1>2, UpcomingShape
<1>5. NextEntry.ended
  BY DEF NextEntry, Entry
<1>6. ASSUME sync PROVE Keeps(file', synced', allowed')
  <2>1. Keeps(file', synced, allowed)
    BY <1>2, <1>6 DEF KeptInv
  <2>2. synced' = Len(file')
    BY <1>1, <1>6
  <2>3. Len(file') <= Len(file')
    BY <1>4
  <2>4. Keeps(file', Len(file'), allowed)
    BY <1>4, <2>1, <2>3, WornKeeps
  <2>. QED
    BY <1>1, <2>2, <2>4
<1>7. sync' => Keeps(Upcoming, synced, allowed)'
  BY <1>1, <1>3, <1>6
<1>8. ASSUME ~power_lost, Whole(file')
      PROVE  Recovered(file') \in allowed
  <2>1. file' \in (IF Logging THEN CutShort ELSE {file})
    BY <1>1 DEF CutShort
  <2>2. /\ Whole(file)
        /\ Recovered(file') = Recovered(file) \/ (ToBeLogged /\ Recovered(file') = Execute(Recovered(file), cmd))
    BY <1>8, <2>1, WrittenWhole
  <2>. QED
    BY <1>8, <2>2 DEF KeptInv
<1>9. ~power_lost' /\ Whole(file)' =>
        /\ Recovered(file)' \in allowed'
        /\ ToBeLogged' => (Execute(Recovered(file), cmd) \in allowed)'
  BY <1>1, <1>3, <1>8
<1>10. /\ sync' => synced' = Len(file')
       /\ Len(file') > 0 /\ file'[Len(file')].ended
  <2>1. Len(file') > 0
    BY <1>4, UpcomingShape
  <2>. QED
    BY <1>1, <1>4, <1>5, <2>1
<1>. QED
  BY <1>7, <1>9, <1>10 DEF KeptInv

(* So does the answer.                                                     *)
LEMMA AnswerKeeps ==
  ASSUME TypeInv, ExplainInv, KeptInv, Answer
  PROVE  KeptInv'
<1>1. /\ pc = "executed" /\ pc' = "idle" /\ allowed' = {engine} /\ file' = file /\ synced' = synced /\ sync' = sync
      /\ sync => synced = Len(file)
      /\ Len(file) > 0 /\ file[Len(file)].ended
      /\ file \in Seq(Piece) /\ Commanded(file) /\ Len(file) \in Nat
  BY UpcomingShape DEF Answer, logVars, KeptInv
<1>2. Upcoming' = file /\ ~ToBeLogged'
  BY <1>1 DEF Upcoming, ToBeLogged
<1>3. NothingHidden(file) => engine = Recovered(file)
  BY <1>1 DEF ExplainInv, LogExplainsEngine
<1>4. ASSUME sync, SettledClean(file, synced)
      PROVE  LazyWithin(file, SettledIn(file, synced), {engine})
  <2>1. synced = Len(file) /\ SettledIn(file, synced) = Len(file)
    BY <1>1, <1>4 DEF SettledIn
  <2>2. \A m \in 1..Len(file) :
          /\ file[m].holds \in {"entry", "part"}
          /\ file[m].holds = "entry" => (m > 1 => file[m - 1].ended) /\ (m < Len(file) => file[m].ended)
    BY <1>4, <2>1 DEF SettledClean
  <2>3. \A n \in 1..Len(file) : \A m \in 1..(n - 1) : m \in 1..Len(file)
    BY <1>1
  <2>4. NothingHidden(file)
    BY <1>1, <2>2, <2>3 DEF NothingHidden, Readable, AloneOnLine
  <2>5. \A n \in Len(file)..Len(file) : n = Len(file)
    BY <1>1
  <2>6. \A r : Lazy(file, Len(file), Len(file), r) => r[Len(file)] = engine
    BY <1>3, <2>4 DEF Lazy, Recovered
  <2>. QED
    BY <2>1, <2>5, <2>6 DEF LazyWithin
<1>5. sync => Keeps(file, synced, {engine})
  BY <1>4 DEF Keeps
<1>6. sync' => Keeps(Upcoming, synced, allowed)'
  BY <1>1, <1>2, <1>5
<1>7. Whole(file)' => Recovered(file)' \in allowed'
  BY <1>1, <1>3 DEF Whole
<1>8. pc' \notin {"logged", "executed"}
  BY <1>1
<1>. QED
  BY <1>2, <1>6, <1>7, <1>8 DEF KeptInv

(* A loss of power keeps the answers that were synced.                     *)
LEMMA PowerLossKeeps ==
  ASSUME TypeInv, TypeInv', KeptInv, PowerLoss
  PROVE  KeptInv'
<1>1. /\ synced' = Len(file') /\ sync' = sync /\ allowed' = allowed /\ pc' = "down" /\ power_lost' = TRUE
  BY DEF PowerLoss
<1>2. PICK f \in (IF Logging THEN CutShort ELSE {file}) : file' \in Surviving(f)
  BY DEF PowerLoss
<1>3. /\ f \in Seq(Piece) /\ Commanded(f) /\ Len(f) <= Len(Upcoming) /\ Len(file) <= Len(f)
      /\ \A m \in 1..Len(f) : f[m].cmd = Upcoming[m].cmd \/ f[m].cmd = NoCommand
      /\ \A m \in 1..Len(file) : f[m] = file[m]
  BY WrittenWears
<1>4. /\ Len(file) \in Nat /\ synced \in 0..Len(file) /\ Upcoming \in Seq(Piece) /\ Commanded(Upcoming)
      /\ \A m \in 1..Len(file) : Upcoming[m] = file[m]
  BY UpcomingShape
<1>5. synced \in 0..Len(f)
  BY <1>3, <1>4
<1>6. /\ file' \in Seq(Piece) /\ Len(file') \in synced..Len(f)
      /\ \A k \in 1..Len(file') : k < Len(file') \/ Len(file') = synced => file'[k] = f[k]
      /\ \A k \in 1..Len(file') :
           file'[k] = f[k] \/ file'[k] = Part \/ file'[k] = [f[k] EXCEPT !.ended = FALSE]
  BY <1>2, <1>3, <1>5, SurvivingShape
<1>7. Commanded(file')
  BY <1>2, <1>3, <1>5, SurvivingHoldsCommands
<1>8. ASSUME NEW m \in 1..Len(file')
      PROVE  file'[m].cmd = Upcoming[m].cmd \/ file'[m].cmd = NoCommand
  <2>1. m \in 1..Len(f) /\ f[m] \in Piece
    BY <1>3, <1>6
  <2>2. file'[m].cmd = f[m].cmd \/ file'[m].cmd = NoCommand
    <3>1. [f[m] EXCEPT !.ended = FALSE].cmd = f[m].cmd
      BY <2>1 DEF Piece
    <3>2. Part.cmd = NoCommand
      BY DEF Part
    <3>. QED
      BY <1>6, <3>1, <3>2
  <2>. QED
    BY <1>3, <2>1, <2>2
<1>9. ASSUME NEW m \in 1..synced
      PROVE  file'[m] = Upcoming[m]
  <2>1. m \in 1..Len(file) /\ m \in 1..Len(file') /\ (m < Len(file') \/ Len(file') = synced)
    BY <1>4, <1>6
  <2>. QED
    BY <1>3, <1>4, <1>6, <2>1
<1>10. synced \in Nat /\ Len(file') \in Nat /\ synced <= Len(file') /\ Len(file') <= Len(Upcoming) /\ Len(file') <= Len(file')
  BY <1>3, <1>4, <1>6
<1>11. ASSUME sync PROVE Keeps(file', Len(file'), allowed)
  <2>1. Keeps(Upcoming, synced, allowed)
    BY <1>11 DEF KeptInv
  <2>. QED
    BY <1>4, <1>6, <1>7, <1>8, <1>9, <1>10, <2>1, WornKeeps
<1>12. Upcoming' = file'
  BY <1>1 DEF Upcoming, ToBeLogged
<1>13. sync' => Keeps(Upcoming, synced, allowed)'
  BY <1>1, <1>11, <1>12
<1>. QED
  BY <1>1, <1>13 DEF KeptInv

(* A damaged file keeps what it owed.                                      *)
LEMMA DamageKeeps ==
  ASSUME TypeInv, TypeInv', KeptInv, Damage
  PROVE  KeptInv'
<1>1. /\ synced' = synced /\ sync' = sync /\ allowed' = allowed /\ pc' = pc /\ pc \in {"down", "stopped"}
  BY DEF Damage, processVars, answerVars, Running, TypeInv, RecoveryTypeOK
<1>2. PICK n \in DOMAIN file, what \in {"rotten", "illegible"} :
        file[n].holds = "entry" /\ file' = [file EXCEPT ![n].holds = what]
  BY DEF Damage
<1>3. /\ file \in Seq(Piece) /\ Commanded(file) /\ Len(file) \in Nat /\ synced \in 0..Len(file)
  BY UpcomingShape
<1>4. file' \in Seq(Piece) /\ Commanded(file')
  BY DEF TypeInv, RecoveryTypeOK
<1>5. /\ Len(file') = Len(file) /\ file'[n].holds = what /\ file'[n].cmd = file[n].cmd
      /\ \A k \in 1..Len(file) : k # n => file'[k] = file[k]
  <2>1. file[n] \in Piece
    BY <1>2, <1>3
  <2>. DEFINE p == [file[n] EXCEPT !.holds = what]
  <2>2. p.holds = what /\ p.cmd = file[n].cmd
    BY <2>1 DEF Piece
  <2>3. file' = [file EXCEPT ![n] = p] /\ n \in 1..Len(file)
    BY <1>2, <1>3
  <2>. HIDE DEF p
  <2>. QED
    BY <1>3, <2>2, <2>3
<1>6. Upcoming' = file' /\ Upcoming = file /\ ~ToBeLogged'
  BY <1>1 DEF Upcoming, ToBeLogged
<1>7. ASSUME sync PROVE Keeps(file', synced, allowed)
  <2>1. Keeps(file, synced, allowed)
    BY <1>6, <1>7 DEF KeptInv
  <2>2. \A m \in 1..Len(file') : file'[m].cmd = file[m].cmd
    BY <1>5
  <2>3. \A m \in 1..synced : m \in 1..Len(file)
    BY <1>3
  <2>4. \A m \in 1..synced : file'[m] = file[m] \/ file'[m].holds \notin {"entry", "part"}
    BY <1>2, <1>5, <2>3
  <2>5. synced \in Nat /\ synced <= synced /\ synced <= Len(file') /\ Len(file') <= Len(file)
    BY <1>3, <1>5
  <2>. QED
    BY <1>3, <1>4, <2>1, <2>2, <2>4, <2>5, WornKeeps
<1>8. sync' => Keeps(Upcoming, synced, allowed)'
  BY <1>1, <1>6, <1>7
<1>9. ~Whole(file)'
  <2>1. n \in DOMAIN file' /\ file'[n].holds \notin {"entry", "part"}
    BY <1>2, <1>3, <1>4, <1>5
  <2>2. ~Undamaged(file)'
    BY <2>1 DEF Undamaged
  <2>. QED
    BY <2>2 DEF Whole
<1>. QED
  BY <1>1, <1>8, <1>9 DEF KeptInv

(* Every step keeps the answers.                                           *)
LEMMA KeptStep ==
  ASSUME TypeInv, TypeInv', ExplainInv, KeptInv, [Next]_vars
  PROVE  KeptInv'
<1>1. CASE Start \/ Spin \/ ClockTick \/ ClockSetBack \/ UNCHANGED vars
  BY <1>1, QuietKeeps DEF Start, Spin, ClockTick, ClockSetBack, vars, logVars, processVars, answerVars, ToBeLogged
<1>2. CASE SkipLine \/ StopReading \/ ReplayLine
  BY <1>2, QuietKeeps DEF SkipLine, StopReading, ReplayLine, logVars, answerVars, ToBeLogged
<1>3. CASE ReplayPanics \/ FailFast \/ Shutdown
  BY <1>3, QuietKeeps DEF ReplayPanics, FailFast, Shutdown, answerVars, ToBeLogged
<1>4. CASE OpenWriter
  BY <1>4, OpenKeeps
<1>5. CASE \E command \in Commands : Receive(command)
  BY <1>5, ReceiveKeeps
<1>6. CASE DrawOrderId \/ CancelFirst \/ CommandPanics \/ ExecuteLogged
  <2>1. UNCHANGED <<file, synced, sync, allowed, power_lost, seq, cmd>>
    BY <1>6 DEF DrawOrderId, CancelFirst, CommandPanics, ExecuteLogged, logVars, answerVars
  <2>2. /\ ToBeLogged' => ToBeLogged
        /\ pc' \in {"logged", "executed"} => pc \in {"logged", "executed"}
    BY <1>6 DEF DrawOrderId, CancelFirst, CommandPanics, ExecuteLogged, ToBeLogged
  <2>. QED
    BY <2>1, <2>2, QuietKeeps
<1>7. CASE Log
  BY <1>7, LogKeeps
<1>8. CASE Answer
  BY <1>8, AnswerKeeps
<1>9. CASE WriteFails \/ Kill
  BY <1>9, WritingKeeps DEF WriteFails, Kill, answerVars
<1>10. CASE PowerLoss
  BY <1>10, PowerLossKeeps
<1>11. CASE Damage
  BY <1>11, DamageKeeps
<1>. QED
  BY <1>1, <1>2, <1>3, <1>4, <1>5, <1>6, <1>7, <1>8, <1>9, <1>10, <1>11 DEF Next, Replay, Serve

(* They are kept at the start.                                             *)
LEMMA KeptInit == Init => KeptInv
<1>. SUFFICES ASSUME Init PROVE KeptInv
  OBVIOUS
<1>1. file = <<>> /\ synced = 0 /\ allowed = {EmptyEngine} /\ pc = "down"
  BY DEF Init
<1>2. file \in Seq(Piece) /\ Commanded(file) /\ Len(file) = 0
  BY <1>1 DEF Commanded
<1>3. Replayed(file)[0] = EmptyEngine
  BY <1>2, ReplayedSteps
<1>4. Upcoming = file /\ ~ToBeLogged
  BY <1>1 DEF Upcoming, ToBeLogged
<1>5. SettledIn(file, synced) = 0 /\ \A n \in 0..0 : n = 0
  BY <1>1 DEF SettledIn
<1>6. LazyWithin(file, 0, allowed)
  BY <1>1, <1>2, <1>3, <1>5 DEF LazyWithin, Lazy
<1>7. Keeps(Upcoming, synced, allowed)
  BY <1>4, <1>5, <1>6 DEF Keeps
<1>8. Recovered(file) \in allowed
  BY <1>1, <1>2, <1>3 DEF Recovered
<1>. QED
  BY <1>1, <1>4, <1>7, <1>8 DEF KeptInv

(* After a crash the engine that comes up is the one of the last answer,   *)
(* or that one with commands received since and cut off, in their order:   *)
(* no answer is taken back and nothing is executed twice (WalEngine::new). *)
(* It takes WAL_SYNC against a loss of power, and a log that is whole.     *)
THEOREM RecoveryAlwaysKeepsAnswers == Spec => []RecoveryKeepsAnswers
<1>1. TypeInv /\ ExplainInv /\ KeptInv => RecoveryKeepsAnswers
  <2>. SUFFICES ASSUME TypeInv, ExplainInv, KeptInv, ReplayDone, NothingHidden(file), Undamaged(file),
                       sync \/ ~power_lost
                PROVE  engine \in allowed
    BY DEF RecoveryKeepsAnswers
  <2>1. /\ file \in Seq(Piece) /\ Commanded(file) /\ Len(file) \in Nat /\ synced \in 0..Len(file)
        /\ pc = "replaying" /\ next = Len(file) + 1
    BY UpcomingShape DEF ReplayDone, TypeInv, RecoveryTypeOK
  <2>2. engine = Recovered(file)
    BY <2>1 DEF ExplainInv, Recovered
  <2>3. CASE ~power_lost
    BY <2>2, <2>3 DEF KeptInv, Whole
  <2>4. CASE sync
    <3>1. Upcoming = file
      BY <2>1 DEF Upcoming, ToBeLogged
    <3>2. SettledClean(file, synced)
      <4>. SUFFICES ASSUME NEW m \in 1..synced
                    PROVE  /\ file[m].holds \in {"entry", "part"}
                           /\ file[m].holds = "entry" => (m > 1 => file[m - 1].ended) /\ (m < synced => file[m].ended)
        BY DEF SettledClean
      <4>1. m \in DOMAIN file /\ (m < synced => m < Len(file))
        BY <2>1
      <4>. QED
        BY <4>1 DEF Undamaged, NothingHidden, Readable, AloneOnLine
    <3>3. LazyWithin(file, SettledIn(file, synced), allowed)
      BY <2>4, <3>1, <3>2 DEF KeptInv, Keeps
    <3>4. SettledIn(file, synced) \in 0..Len(file)
      BY <2>1 DEF SettledIn
    <3>. QED
      BY <2>1, <2>2, <3>3, <3>4, RecoveredIsLazy
  <2>. QED
    BY <2>3, <2>4
<1>2. TypeInv /\ ExplainInv /\ [Next]_vars => TypeInv' /\ ExplainInv'
  BY TypeStep, ExplainStep
<1>. QED
  BY <1>1, KeptInit, KeptStep, ExplainAlways, PTL DEF Spec
=============================================================================
